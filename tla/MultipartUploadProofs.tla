------------------------ MODULE MultipartUploadProofs ------------------------
(***************************************************************************)
(* Proofs about MultipartUpload, for every set of sessions and files and   *)
(* for all sizes, retries and faults.                                      *)
(***************************************************************************)
EXTENDS MultipartUpload, TLAPS

-----------------------------------------------------------------------------
(* Integer division.                                                       *)

LEMMA DivisionSpec ==
  ASSUME NEW n \in Nat, NEW d \in Nat \ {0}
  PROVE  /\ n \div d \in Nat
         /\ n = d * (n \div d) + (n % d)
         /\ 0 <= n % d /\ n % d < d
         /\ n % d \in Int
BY SMT

LEMMA CeilDivSpec ==
  ASSUME NEW a \in Nat, NEW b \in Nat \ {0}
  PROVE  /\ CeilDiv(a, b) \in Nat
         /\ a <= CeilDiv(a, b) * b
         /\ CeilDiv(a, b) * b < a + b
<1> DEFINE n == a + b - 1
           q == n \div b
           m == n % b
<1>1. n \in Nat
  OBVIOUS
<1>2. /\ q \in Nat /\ m \in Int
      /\ n = b * q + m
      /\ 0 <= m /\ m < b
  BY <1>1, DivisionSpec
<1>3. CeilDiv(a, b) = q
  BY DEF CeilDiv
<1>4. b * q \in Nat /\ q * b = b * q
  BY <1>2
<1> HIDE DEF n, q, m
<1>5. n = a + b - 1
  BY DEF n
<1>6. a <= q * b /\ q * b < a + b
  <2> DEFINE p == q * b
  <2>1. p \in Nat /\ n = p + m
    BY <1>2, <1>4
  <2> HIDE DEF p
  <2>2. a <= p /\ p < a + b
    BY <2>1, <1>2, <1>5
  <2> QED BY <2>2 DEF p
<1> QED BY <1>2, <1>3, <1>6

-----------------------------------------------------------------------------
(* How a file is cut: the parts together reach its end.                    *)

LEMMA PartsCoverFile ==
  ASSUME NEW size \in Nat
  PROVE  LET cut == calculate_file_parts(size)
         IN  /\ cut.num_parts \in Nat /\ cut.chunk_size \in Nat
             /\ size <= cut.num_parts * cut.chunk_size
<1>1. MIN_PART_SIZE \in Nat \ {0} /\ MAX_CHUNK \in Nat \ {0} /\ MAX_PARTS \in Nat \ {0}
  BY Assumption
<1> DEFINE cut(chunk) == [num_parts |-> CeilDiv(size, chunk), chunk_size |-> chunk]
           chunk1 == Larger(MIN_PART_SIZE, Smaller(MAX_CHUNK, size \div 10))
           chunk2 == CeilDiv(size, MAX_PARTS)
           covers(c) == /\ c.num_parts \in Nat /\ c.chunk_size \in Nat
                        /\ size <= c.num_parts * c.chunk_size
<1>2. ASSUME NEW d \in Nat \ {0}
      PROVE  covers(cut(d))
  BY <1>2, CeilDivSpec
<1>3. chunk1 \in Nat \ {0}
  <2>1. size \div 10 \in Nat
    BY DivisionSpec
  <2> QED BY <1>1, <2>1 DEF Larger, Smaller
<1>4. size > 0 => chunk2 \in Nat \ {0}
  <2>1. chunk2 \in Nat /\ size <= chunk2 * MAX_PARTS
    BY <1>1, CeilDivSpec
  <2>2. size > 0 => chunk2 # 0
    BY <2>1, <1>1
  <2> QED BY <2>1, <2>2
<1>5. size <= MIN_PART_SIZE => covers([num_parts |-> 1, chunk_size |-> size])
  OBVIOUS
<1>6. covers(cut(chunk1))
  BY <1>2, <1>3
<1>7. size > MIN_PART_SIZE => covers(cut(chunk2))
  BY <1>1, <1>2, <1>4
<1>8. covers(calculate_file_parts(size))
  <2>1. \/ size <= MIN_PART_SIZE /\ calculate_file_parts(size) = [num_parts |-> 1, chunk_size |-> size]
        \/ calculate_file_parts(size) = cut(chunk1)
        \/ size > MIN_PART_SIZE /\ calculate_file_parts(size) = cut(chunk2)
    BY <1>1 DEF calculate_file_parts
  <2> HIDE DEF cut, chunk1, chunk2, covers
  <2> QED BY <2>1, <1>5, <1>6, <1>7
<1> QED BY <1>8

(* When nothing is left to upload, the parts add up to the file.           *)
LEMMA NothingLeft ==
  ASSUME TypeOK, NEW s \in Sessions, ~MoreParts(s)
  PROVE  Content(s) = [by |-> {s}, bytes |-> File(s).size]
<1>1. client[s].parts \in Nat /\ File(s) \in Files
  BY DEF TypeOK, File
<1>2. File(s).size \in Nat
  BY <1>1, Assumption
<1> DEFINE num == Cut(s).num_parts
           chunk == Cut(s).chunk_size
           parts == client[s].parts
<1>3. num \in Nat /\ chunk \in Nat /\ File(s).size <= num * chunk
  BY <1>2, PartsCoverFile DEF Cut
<1>4. File(s).size <= parts * chunk
  <2>1. CASE parts >= num
    <3> HIDE DEF num, chunk, parts
    <3>1. parts \in Nat
      BY <1>1 DEF parts
    <3>2. num * chunk <= parts * chunk
      BY <2>1, <3>1, <1>3, SMT
    <3>3. num * chunk \in Nat /\ parts * chunk \in Nat
      BY <3>1, <1>3
    <3> DEFINE a == num * chunk
               b == parts * chunk
    <3> HIDE DEF a, b
    <3> QED BY <3>2, <3>3, <1>2, <1>3 DEF a, b
  <2>2. CASE ~(parts * chunk < File(s).size)
    <3> HIDE DEF num, chunk, parts
    <3>1. parts \in Nat /\ parts * chunk \in Nat
      BY <1>1, <1>3 DEF parts
    <3> QED BY <2>2, <3>1, <1>2
  <2>3. parts >= num \/ ~(parts * chunk < File(s).size)
    BY <1>1, <1>3 DEF MoreParts
  <2> QED BY <2>1, <2>2, <2>3
<1>5. Smaller(parts * chunk, File(s).size) = File(s).size
  <2>1. parts * chunk \in Nat
    BY <1>1, <1>3
  <2> DEFINE p == parts * chunk
  <2> HIDE DEF p
  <2> QED BY <1>2, <1>4, <2>1 DEF p, Smaller
<1> QED BY <1>5 DEF Content

-----------------------------------------------------------------------------
(* Types.                                                                  *)

ClientStates ==
  [pc : Ops \cup {"idle", "parts", "done"}, try : 1..MAX_RETRIES,
   upload : SUBSET UploadIds, parts : Nat,
   result : {"none", "success", "failure"}, file : Files]

CallStates ==
  [pc : {"none", "send", "presign", "ok", "error", "dead"},
   attempt : 0..maxRetries]

(* The uploader's and the handlers' part of TypeOK.                        *)
Typed ==
  /\ client \in [Sessions -> ClientStates]
  /\ \A s \in Sessions : client[s].pc \in {"parts", "complete", "cancel"} =>
                           \E u \in UploadIds : client[s].upload = {u}
  /\ call \in [Calls -> CallStates]

LEMMA Numbers ==
  /\ MAX_RETRIES \in Nat /\ MAX_RETRIES >= 1 /\ maxRetries \in Nat
  /\ 1 \in 1..MAX_RETRIES /\ 0 \in 0..maxRetries
BY Assumption

LEMMA TypedIsTypeOK ==
  TypeOK <=> /\ Typed
             /\ upload \in [UploadIds -> UploadStates]
             /\ object \in [Keys -> [by : SUBSET Sessions, bytes : Nat]]
             /\ faults \in [Sessions -> Nat]
BY DEF TypeOK, Typed, ClientStates, CallStates

LEMMA AskTyped ==
  ASSUME Typed, NEW s \in Sessions, NEW op \in Ops, NEW n \in 1..MAX_RETRIES,
         op # "create" => \E u \in UploadIds : client[s].upload = {u},
         Ask(s, client[s], op, n)
  PROVE  Typed'
<1>1. <<s, op, n>> \in Calls
  BY DEF Calls
<1>2. client' = [client EXCEPT ![s] = [client[s] EXCEPT !.pc = op, !.try = n]]
  BY DEF Ask
<1>3. client' \in [Sessions -> ClientStates]
  BY ZenonT(60), <1>2 DEF Typed, ClientStates
<1>4. \A r \in Sessions : client'[r].pc \in {"parts", "complete", "cancel"} =>
                           \E u \in UploadIds : client'[r].upload = {u}
  <2> TAKE r \in Sessions
  <2>1. CASE r = s
    <3>1. client'[r].pc = op /\ client'[r].upload = client[r].upload
      BY <1>2, <2>1 DEF Typed, ClientStates
    <3> QED BY <2>1, <3>1
  <2>2. CASE r # s
    <3>1. client'[r] = client[r]
      BY <1>2, <2>2 DEF Typed
    <3> QED BY <3>1 DEF Typed
  <2> QED BY <2>1, <2>2
<1>5. call' \in [Calls -> CallStates]
  BY <1>1 DEF Ask, Typed, CallStates
<1> QED BY <1>3, <1>4, <1>5 DEF Typed

LEMMA EndTyped ==
  ASSUME Typed, NEW s \in Sessions, NEW result \in {"success", "failure"},
         End(s, result)
  PROVE  Typed'
<1>1. client' = [client EXCEPT ![s].pc = "done", ![s].result = result]
      /\ UNCHANGED call
  BY DEF End
<1>2. client' \in [Sessions -> ClientStates]
  <2>1. client[s] \in ClientStates
    BY DEF Typed
  <2>2. [client[s] EXCEPT !.pc = "done", !.result = result] \in ClientStates
    BY <2>1 DEF ClientStates
  <2>3. client' = [client EXCEPT ![s] = [client[s] EXCEPT !.pc = "done", !.result = result]]
    BY <1>1, <2>1 DEF ClientStates
  <2> QED BY <2>2, <2>3 DEF Typed
<1>3. \A r \in Sessions : client'[r].pc \in {"parts", "complete", "cancel"} =>
                           client'[r] = client[r]
  BY <1>1 DEF Typed, ClientStates
<1> QED BY <1>1, <1>2, <1>3 DEF Typed

LEMMA FailureTyped ==
  ASSUME Typed, NEW s \in Sessions, Failure(s)
  PROVE  Typed'
<1>1. CASE client[s].pc \in {"parts", "complete"}
  <2>1. Ask(s, client[s], "cancel", 1)
    BY <1>1 DEF Failure
  <2>2. \E u \in UploadIds : client[s].upload = {u}
    BY <1>1 DEF Typed
  <2> QED BY <2>1, <2>2, Numbers, AskTyped DEF Ops
<1>2. CASE client[s].pc \notin {"parts", "complete"}
  BY <1>2, EndTyped DEF Failure
<1> QED BY <1>1, <1>2

LEMMA SuccessTyped ==
  ASSUME Typed, NEW s \in Sessions, client[s].pc \in Ops, Success(s, Pending(s))
  PROVE  Typed'
<1> DEFINE c == Pending(s)
<1>1. c \in Calls /\ c[1] = s /\ c[2] = client[s].pc /\ c[3] = client[s].try
  BY DEF Pending, Calls, Typed, ClientStates
<1>2. CASE c[2] = "create"
  <2>1. client' = [client EXCEPT ![s].pc = "parts", ![s].upload = {UploadOf(c)}]
        /\ UNCHANGED call
    BY <1>2 DEF Success
  <2>2. UploadOf(c) \in UploadIds
    BY <1>1, <1>2 DEF UploadOf, UploadIds, Typed, ClientStates, CallStates
  <2>3. client' \in [Sessions -> ClientStates]
    <3> DEFINE up == {UploadOf(c)}
    <3>1. client[s] \in ClientStates /\ up \subseteq UploadIds
      BY <2>2 DEF Typed
    <3> HIDE DEF up
    <3>2. [client[s] EXCEPT !.pc = "parts", !.upload = up] \in ClientStates
      BY <3>1 DEF ClientStates
    <3>3. client' = [client EXCEPT ![s] = [client[s] EXCEPT !.pc = "parts", !.upload = up]]
      BY <2>1, <3>1 DEF ClientStates, up
    <3> QED BY <3>2, <3>3 DEF Typed
  <2>4. \A r \in Sessions : client'[r].upload = {UploadOf(c)} \/ client'[r] = client[r]
    BY <2>1 DEF Typed, ClientStates
  <2> QED BY <2>1, <2>2, <2>3, <2>4 DEF Typed
<1>3. CASE c[2] # "create"
  <2>1. End(s, "success") \/ End(s, "failure")
    BY <1>1, <1>3 DEF Success, Ops
  <2> QED BY <2>1, EndTyped
<1> QED BY <1>2, <1>3

LEMMA ContentTyped ==
  ASSUME Typed, NEW s \in Sessions
  PROVE  Content(s) \in [by : SUBSET Sessions, bytes : Nat]
<1>1. client[s].parts \in Nat /\ File(s).size \in Nat
  BY Assumption DEF Typed, ClientStates, File
<1>2. Cut(s).chunk_size \in Nat
  BY <1>1, PartsCoverFile DEF Cut
<1>3. client[s].parts * Cut(s).chunk_size \in Nat
  BY <1>1, <1>2
<1>4. Smaller(client[s].parts * Cut(s).chunk_size, File(s).size) \in Nat
  BY <1>1, <1>3 DEF Smaller
<1> QED BY <1>4 DEF Content

(* What a command leaves S3 with.                                          *)
LEMMA ExecuteTyped ==
  ASSUME TypeOK, NEW c \in Calls, Execute(c)
  PROVE  /\ upload' \in [UploadIds -> UploadStates]
         /\ object' \in [Keys -> [by : SUBSET Sessions, bytes : Nat]]
<1> USE TypedIsTypeOK
<1>1. CASE Create(c)
  BY <1>1 DEF Create, UploadStates
<1>2. CASE Complete(c)
  <2>1. c[1] \in Sessions
    BY DEF Calls
  <2> QED BY <1>2, <2>1, ContentTyped DEF Complete, UploadStates
<1>3. CASE Abort(c)
  BY <1>3 DEF Abort, UploadStates
<1>4. CASE CompletedBefore(c)
  BY <1>4 DEF CompletedBefore
<1> QED BY <1>1, <1>2, <1>3, <1>4 DEF Execute

LEMMA FaultTyped ==
  ASSUME TypeOK, NEW s \in Sessions, NEW kind, Fault(kind, s)
  PROVE  faults' \in [Sessions -> Nat]
<1>1. faults' = [faults EXCEPT ![s] = @ + 1]
  BY Zenon DEF Fault
<1> QED BY <1>1, TypedIsTypeOK

(* A handler that moves on has one of its states.                          *)
LEMMA HandlerTyped ==
  ASSUME TypeOK, NEW c \in Calls, Handle(c) \/ ApiCrash(c)
  PROVE  /\ call' \in [Calls -> CallStates]
         /\ faults' \in [Sessions -> Nat]
         /\ client' = client
<1>1. c[1] \in Sessions
  BY DEF Calls
<1>2. call \in [Calls -> CallStates] /\ faults \in [Sessions -> Nat]
  BY TypedIsTypeOK DEF Typed
<1>3. ASSUME NEW pc \in {"ok", "error", "dead", "presign"},
             call' = [call EXCEPT ![c].pc = pc]
      PROVE  call' \in [Calls -> CallStates]
  BY <1>2, <1>3 DEF CallStates
<1>4. CASE Handle(c)
  <2>1. CASE Presign(c)
    BY <1>1, <1>2, <1>3, <2>1, FaultTyped DEF Presign
  <2>2. CASE Command(c) /\ Fails(c)
    <3>1. faults' \in [Sessions -> Nat] /\ client' = client
      BY <1>1, <2>2, FaultTyped DEF Fails, Command
    <3>2. CASE call' = [call EXCEPT ![c].pc = "error"]
      BY <1>3, <3>1, <3>2
    <3>3. CASE /\ call[c].attempt < maxRetries
               /\ call' = [call EXCEPT ![c].attempt = @ + 1]
      <4>1. call[c].attempt + 1 \in 0..maxRetries
        BY <1>2, <3>3, Numbers DEF CallStates
      <4>2. [call[c] EXCEPT !.attempt = @ + 1] \in CallStates
        BY <1>2, <4>1 DEF CallStates
      <4>3. call' = [call EXCEPT ![c] = [call[c] EXCEPT !.attempt = @ + 1]]
        BY <3>3
      <4> QED BY <1>2, <3>1, <4>2, <4>3
    <3> QED BY <2>2, <3>2, <3>3 DEF Fails
  <2>3. CASE Command(c) /\ ~Fails(c)
    <3>1. AfterCommand(c) \in {"ok", "error", "presign"}
      BY DEF AfterCommand
    <3>2. \E pc \in {"ok", "error", "presign"} : call' = [call EXCEPT ![c].pc = pc]
      BY <2>3, <3>1 DEF Command
    <3> QED BY <1>2, <1>3, <2>3, <3>2 DEF Command
  <2> QED BY <1>4, <2>1, <2>2, <2>3 DEF Handle
<1>5. CASE ApiCrash(c)
  BY <1>1, <1>3, <1>5, FaultTyped DEF ApiCrash
<1> QED BY <1>4, <1>5

LEMMA InitTypeOK == Init => TypeOK
<1> SUFFICES ASSUME Init PROVE TypeOK
  OBVIOUS
<1>1. client \in [Sessions -> ClientStates] /\ \A s \in Sessions : client[s].pc = "idle"
  BY Numbers DEF Init, NewClient, ClientStates
<1>2. call \in [Calls -> CallStates]
  BY Numbers DEF Init, NewCall, CallStates
<1>3. /\ upload \in [UploadIds -> UploadStates]
      /\ object \in [Keys -> [by : SUBSET Sessions, bytes : Nat]]
      /\ faults \in [Sessions -> Nat]
  BY DEF Init, Nothing, UploadStates
<1> QED BY <1>1, <1>2, <1>3, TypedIsTypeOK DEF Typed

LEMMA TypeOKStep == TypeOK /\ [Next]_vars => TypeOK'
<1> SUFFICES ASSUME TypeOK, [Next]_vars PROVE TypeOK'
  OBVIOUS
<1>1. /\ Typed
      /\ upload \in [UploadIds -> UploadStates]
      /\ object \in [Keys -> [by : SUBSET Sessions, bytes : Nat]]
      /\ faults \in [Sessions -> Nat]
  BY TypedIsTypeOK
<1>2. ASSUME Typed', faults' \in [Sessions -> Nat], UNCHANGED <<upload, object>>
      PROVE  TypeOK'
  BY <1>1, <1>2, TypedIsTypeOK DEF TypeOK, Typed, ClientStates, CallStates
<1>3. ASSUME NEW s \in Sessions, initiate_upload(s)
      PROVE  TypeOK'
  BY <1>1, <1>2, <1>3, Numbers, AskTyped DEF initiate_upload, Ops
<1>4. ASSUME NEW s \in Sessions, Answered(s)
      PROVE  TypeOK'
  BY <1>1, <1>2, <1>4, SuccessTyped, FailureTyped DEF Answered
<1>5. ASSUME NEW s \in Sessions, upload_part(s)
      PROVE  TypeOK'
  <2>1. CASE Failure(s) /\ Fault("part", s) /\ UNCHANGED <<upload, object>>
    BY <1>1, <1>2, <2>1, FailureTyped, FaultTyped
  <2>2. CASE /\ client' = [client EXCEPT ![s].parts = @ + 1]
             /\ UNCHANGED <<call, upload, object, faults>>
    <3>1. client' \in [Sessions -> ClientStates]
      BY <1>1, <2>2 DEF Typed, ClientStates
    <3>2. \A r \in Sessions : client'[r].pc = client[r].pc /\ client'[r].upload = client[r].upload
      BY <1>1, <2>2 DEF Typed, ClientStates
    <3> QED BY <1>1, <1>2, <2>2, <3>1, <3>2 DEF Typed
  <2> QED BY <1>5, <2>1, <2>2 DEF upload_part
<1>6. ASSUME NEW s \in Sessions, complete_upload(s)
      PROVE  TypeOK'
  <2>1. \E u \in UploadIds : client[s].upload = {u}
    BY <1>1, <1>6 DEF complete_upload, Typed
  <2> QED BY <1>1, <1>2, <1>6, <2>1, Numbers, AskTyped DEF complete_upload, Ops
<1>7. ASSUME NEW s \in Sessions, Disconnected(s)
      PROVE  TypeOK'
  <2>1. faults' \in [Sessions -> Nat]
    BY <1>1, <1>7, FaultTyped DEF Disconnected
  <2>2. CASE Failure(s)
    BY <1>1, <1>2, <1>7, <2>1, <2>2, FailureTyped DEF Disconnected
  <2>3. CASE client[s].try < MAX_RETRIES /\ Ask(s, client[s], client[s].pc, client[s].try + 1)
    <3>1. client[s].try + 1 \in 1..MAX_RETRIES
      BY <1>1, <2>3, Numbers DEF Typed, ClientStates
    <3>2. client[s].pc # "create" => \E u \in UploadIds : client[s].upload = {u}
      BY <1>1, <1>7 DEF Disconnected, Typed, Ops
    <3>3. Typed'
      BY <1>1, <1>7, <2>3, <3>1, <3>2, AskTyped DEF Disconnected
    <3> QED BY <1>2, <1>7, <2>1, <3>3 DEF Disconnected
  <2> QED BY <1>7, <2>2, <2>3 DEF Disconnected
<1>8. ASSUME NEW c \in Calls, Handle(c) \/ ApiCrash(c)
      PROVE  TypeOK'
  <2>1. Typed' /\ faults' \in [Sessions -> Nat]
    BY <1>1, <1>8, HandlerTyped DEF Typed
  <2>2. Execute(c) \/ UNCHANGED <<upload, object>>
    BY <1>8 DEF Handle, Command, Presign, ApiCrash
  <2>3. /\ upload' \in [UploadIds -> UploadStates]
        /\ object' \in [Keys -> [by : SUBSET Sessions, bytes : Nat]]
    BY <1>1, <2>2, ExecuteTyped
  <2> QED BY <2>1, <2>3 DEF TypeOK, Typed, ClientStates, CallStates
<1>9. CASE UNCHANGED vars
  BY <1>9 DEF vars, TypeOK
<1> QED BY <1>3, <1>4, <1>5, <1>6, <1>7, <1>8, <1>9 DEF Next, upload_file

(* Every variable keeps its type, in every behaviour of the uploaders, the *)
(* handlers of the API and S3.                                             *)
THEOREM TypeCorrect == Spec => []TypeOK
<1>1. Init => TypeOK
  BY InitTypeOK
<1>2. TypeOK /\ [Next]_vars => TypeOK'
  BY TypeOKStep
<1> QED BY <1>1, <1>2, PTL DEF Spec

-----------------------------------------------------------------------------
(* What is stored is whole: StoredWhole rests on the order of upload_file, *)
(* which asks for the completion after the last part and never goes back,  *)
(* so that a handler that completes, however late, finds all the parts.    *)

Completing(s) ==
  \/ client[s].pc = "complete"
  \/ \E n \in 1..MAX_RETRIES : call[<<s, "complete", n>>].pc # "none"

CompletingIsWhole ==
  \A s \in Sessions :
    Completing(s) => client[s].pc \in {"complete", "cancel", "done"} /\ ~MoreParts(s)

(* What the uploader's steps share: one session moves, its file stays, and *)
(* it does not lose sight of parts it has still to upload.                 *)
Advance(s) ==
  /\ \A r \in Sessions : client'[r].file = client[r].file
  /\ \A r \in Sessions \ {s} : client'[r] = client[r]
  /\ \A r \in Sessions, n \in 1..MAX_RETRIES :
       call'[<<r, "complete", n>>].pc # "none" =>
         \/ call[<<r, "complete", n>>].pc # "none"
         \/ r = s /\ (client[s].pc = "complete" \/ ~MoreParts(s))
  /\ \/ ~Completing(s)'
     \/ /\ client'[s].pc \in {"complete", "cancel", "done"}
        /\ client'[s].parts = client[s].parts
        /\ Completing(s)' => Completing(s) \/ ~MoreParts(s)

LEMMA AskAdvances ==
  ASSUME Typed, CompletingIsWhole, NEW s \in Sessions, NEW op \in Ops,
         NEW n \in 1..MAX_RETRIES, Ask(s, client[s], op, n),
         op = "create" => client[s].pc \in {"idle", "create"},
         op = "complete" => client[s].pc = "complete" \/ ~MoreParts(s)
  PROVE  Advance(s)
<1>1. client' = [client EXCEPT ![s] = [client[s] EXCEPT !.pc = op, !.try = n]]
      /\ call' = [call EXCEPT ![<<s, op, n>>].pc = "send"]
  BY DEF Ask
<1>2. client[s] \in ClientStates
  BY DEF Typed
<1>3. /\ client'[s].pc = op
      /\ client'[s].parts = client[s].parts
      /\ client'[s].file = client[s].file
  BY <1>1, <1>2 DEF Typed, ClientStates
<1>4. \A r \in Sessions \ {s} : client'[r] = client[r]
  BY <1>1 DEF Typed
<1>5. ASSUME NEW r \in Sessions, NEW m \in 1..MAX_RETRIES,
             ~(r = s /\ op = "complete")
      PROVE  call'[<<r, "complete", m>>].pc = call[<<r, "complete", m>>].pc
  <2>1. <<r, "complete", m>> # <<s, op, n>>
    BY <1>5
  <2> QED BY <1>1, <2>1 DEF Typed, Calls, Ops
<1>6. \A r \in Sessions, m \in 1..MAX_RETRIES :
       call'[<<r, "complete", m>>].pc # "none" =>
         \/ call[<<r, "complete", m>>].pc # "none"
         \/ r = s /\ (client[s].pc = "complete" \/ ~MoreParts(s))
  BY <1>5
<1>7. op = "create" => ~Completing(s)'
  <2> SUFFICES ASSUME op = "create" PROVE ~Completing(s)'
    OBVIOUS
  <2>1. ~Completing(s)
    BY DEF CompletingIsWhole
  <2> QED BY <1>3, <1>5, <2>1 DEF Completing
<1>8. Completing(s)' => Completing(s) \/ ~MoreParts(s)
  BY <1>3, <1>6 DEF Completing
<1> QED BY <1>3, <1>4, <1>6, <1>7, <1>8 DEF Advance, Ops

LEMMA EndAdvances ==
  ASSUME Typed, NEW s \in Sessions, NEW result, End(s, result)
  PROVE  Advance(s)
<1>1. client' = [client EXCEPT ![s].pc = "done", ![s].result = result]
      /\ UNCHANGED call
  BY DEF End
<1>2. /\ client'[s].pc = "done"
      /\ client'[s].parts = client[s].parts
      /\ client'[s].file = client[s].file
      /\ \A r \in Sessions \ {s} : client'[r] = client[r]
  BY <1>1 DEF Typed, ClientStates
<1>3. Completing(s)' => Completing(s)
  BY <1>1, <1>2 DEF Completing
<1> QED BY <1>1, <1>2, <1>3 DEF Advance

LEMMA FailureAdvances ==
  ASSUME Typed, CompletingIsWhole, NEW s \in Sessions, Failure(s)
  PROVE  Advance(s)
BY Numbers, AskAdvances, EndAdvances DEF Failure, Ops

LEMMA ClientAdvances ==
  ASSUME TypeOK, CompletingIsWhole, NEW s \in Sessions, upload_file(s) \/ Disconnected(s)
  PROVE  Advance(s) /\ (UNCHANGED object)
<1>1. Typed
  BY TypedIsTypeOK
<1>2. CASE initiate_upload(s)
  BY <1>1, <1>2, Numbers, AskAdvances DEF initiate_upload, Ops
<1>3. CASE Answered(s)
  <2>1. CASE Failure(s)
    BY <1>1, <1>3, <2>1, FailureAdvances DEF Answered
  <2>2. CASE Success(s, Pending(s))
    <3>1. CASE client[s].pc = "create"
      <4>1. client' = [client EXCEPT ![s].pc = "parts", ![s].upload = {UploadOf(Pending(s))}]
            /\ UNCHANGED call
        BY <2>2, <3>1 DEF Success, Pending
      <4>2. /\ client'[s].pc = "parts"
            /\ client'[s].file = client[s].file
            /\ \A r \in Sessions \ {s} : client'[r] = client[r]
        BY <1>1, <4>1 DEF Typed, ClientStates
      <4>3. ~Completing(s)
        BY <3>1 DEF CompletingIsWhole
      <4>4. ~Completing(s)'
        BY <4>1, <4>2, <4>3 DEF Completing
      <4> QED BY <1>3, <4>1, <4>2, <4>4 DEF Advance, Answered
    <3>2. CASE client[s].pc # "create"
      <4>1. End(s, "success") \/ End(s, "failure")
        BY <1>3, <2>2, <3>2 DEF Success, Pending, Answered, Ops
      <4> QED BY <1>1, <1>3, <4>1, EndAdvances DEF Answered
    <3> QED BY <3>1, <3>2
  <2> QED BY <1>3, <2>1, <2>2 DEF Answered
<1>4. CASE upload_part(s)
  <2>1. CASE Failure(s)
    BY <1>1, <1>4, <2>1, FailureAdvances DEF upload_part
  <2>2. CASE client' = [client EXCEPT ![s].parts = @ + 1] /\ UNCHANGED call
    <3>1. /\ client'[s].pc = "parts"
          /\ client'[s].file = client[s].file
          /\ \A r \in Sessions \ {s} : client'[r] = client[r]
      BY <1>1, <1>4, <2>2 DEF Typed, ClientStates, upload_part
    <3>2. ~Completing(s)
      BY <1>4 DEF CompletingIsWhole, upload_part
    <3>3. ~Completing(s)'
      BY <2>2, <3>1, <3>2 DEF Completing
    <3> QED BY <1>4, <2>2, <3>1, <3>3 DEF Advance, upload_part
  <2> QED BY <1>4, <2>1, <2>2 DEF upload_part
<1>5. CASE complete_upload(s)
  BY <1>1, <1>5, Numbers, AskAdvances DEF complete_upload, Ops
<1>6. CASE Disconnected(s)
  <2>1. CASE Failure(s)
    BY <1>1, <1>6, <2>1, FailureAdvances DEF Disconnected
  <2>2. CASE client[s].try < MAX_RETRIES /\ Ask(s, client[s], client[s].pc, client[s].try + 1)
    <3>1. client[s].try + 1 \in 1..MAX_RETRIES
      BY <1>1, <2>2, Numbers DEF Typed, ClientStates
    <3> QED BY <1>1, <1>6, <2>2, <3>1, AskAdvances DEF Disconnected
  <2> QED BY <1>6, <2>1, <2>2 DEF Disconnected
<1> QED BY <1>2, <1>3, <1>4, <1>5, <1>6 DEF upload_file

(* A session that advances has uploaded its parts before it completes.     *)
LEMMA AdvanceKeepsWhole ==
  ASSUME TypeOK, CompletingIsWhole, NEW s \in Sessions, Advance(s)
  PROVE  CompletingIsWhole'
<1> SUFFICES ASSUME NEW r \in Sessions, Completing(r)'
             PROVE  client'[r].pc \in {"complete", "cancel", "done"} /\ ~MoreParts(r)'
  BY DEF CompletingIsWhole
<1>1. client'[r].parts = client[r].parts => (MoreParts(r)' <=> MoreParts(r))
  BY DEF Advance, MoreParts, Cut, File
<1>2. CASE r = s
  BY <1>1, <1>2 DEF Advance, CompletingIsWhole
<1>3. CASE r # s
  <2>1. client'[r] = client[r]
    BY <1>3 DEF Advance
  <2>2. Completing(r)
    BY <1>3, <2>1 DEF Advance, Completing
  <2> QED BY <1>1, <2>1, <2>2 DEF CompletingIsWhole
<1> QED BY <1>2, <1>3

LEMMA HandlerKeepsWhole ==
  ASSUME TypeOK, CompletingIsWhole, NEW c \in Calls, Handle(c) \/ ApiCrash(c)
  PROVE  CompletingIsWhole'
<1>1. client' = client
  BY HandlerTyped
<1>2. call[c].pc # "none"
  BY DEF Handle, Command, Presign, ApiCrash
<1>3. \A d \in Calls : call'[d].pc # "none" => call[d].pc # "none"
  <2>1. \E st : call' = [call EXCEPT ![c] = st]
    BY Zenon DEF Handle, Command, Presign, ApiCrash, Fails
  <2>2. \A d \in Calls : d # c => call'[d] = call[d]
    BY <2>1, TypedIsTypeOK DEF Typed
  <2> QED BY <1>2, <2>2
<1>4. \A s \in Sessions, n \in 1..MAX_RETRIES : <<s, "complete", n>> \in Calls
  BY DEF Calls, Ops
<1>5. \A s \in Sessions : Completing(s)' => Completing(s)
  BY <1>1, <1>3, <1>4 DEF Completing
<1>6. \A s \in Sessions : MoreParts(s)' <=> MoreParts(s)
  BY <1>1 DEF MoreParts, Cut, File
<1> QED BY <1>1, <1>5, <1>6 DEF CompletingIsWhole

(* Only a create that was not rejected leads a session to its parts and to *)
(* its completion: the file's type has been validated.                     *)
PastValidation(s) ==
  \/ \E n \in 1..MAX_RETRIES : call[<<s, "create", n>>].pc \in {"presign", "ok"}
  \/ \E n \in 1..MAX_RETRIES : call[<<s, "complete", n>>].pc # "none"
  \/ client[s].pc \in {"parts", "complete"}

TypesValidated ==
  \A s \in Sessions : PastValidation(s) => validateDatabankFileType(File(s))

(* What the uploader's steps do to the requests.                           *)
Sends(s) ==
  /\ \/ call' = call
     \/ \E op \in Ops, n \in 1..MAX_RETRIES :
          /\ call' = [call EXCEPT ![<<s, op, n>>].pc = "send"]
          /\ op = "complete" => client[s].pc \in {"parts", "complete"}
  /\ client'[s].pc \in {"parts", "complete"} =>
       \/ client[s].pc \in {"parts", "complete"}
       \/ \E n \in 1..MAX_RETRIES : call[<<s, "create", n>>].pc = "ok"

LEMMA AskSends ==
  ASSUME Typed, NEW s \in Sessions, NEW op \in Ops, NEW n \in 1..MAX_RETRIES,
         Ask(s, client[s], op, n),
         op = "complete" => client[s].pc \in {"parts", "complete"}
  PROVE  Sends(s)
<1>1. client'[s].pc = op
  BY DEF Ask, Typed, ClientStates
<1>2. call' = [call EXCEPT ![<<s, op, n>>].pc = "send"]
  BY DEF Ask
<1>3. client'[s].pc \in {"parts", "complete"} => client[s].pc \in {"parts", "complete"}
  BY <1>1 DEF Ops
<1> QED BY <1>2, <1>3 DEF Sends

LEMMA EndSends ==
  ASSUME Typed, NEW s \in Sessions, NEW result, End(s, result)
  PROVE  Sends(s)
BY DEF End, Sends, Typed, ClientStates

LEMMA FailureSends ==
  ASSUME Typed, NEW s \in Sessions, Failure(s)
  PROVE  Sends(s)
BY Numbers, AskSends, EndSends DEF Failure, Ops

LEMMA ClientSends ==
  ASSUME TypeOK, NEW s \in Sessions, upload_file(s) \/ Disconnected(s)
  PROVE  Sends(s)
<1>1. Typed /\ client[s] \in ClientStates
  BY TypedIsTypeOK DEF Typed
<1>2. CASE initiate_upload(s)
  BY <1>1, <1>2, Numbers, AskSends DEF initiate_upload, Ops
<1>3. CASE Answered(s)
  <2>1. CASE Failure(s)
    BY <1>1, <2>1, FailureSends
  <2>2. CASE call[Pending(s)].pc = "ok" /\ Success(s, Pending(s))
    <3>1. CASE client[s].pc = "create"
      <4>1. call' = call
        BY <2>2, <3>1 DEF Success, Pending
      <4>2. call[<<s, "create", client[s].try>>].pc = "ok" /\ client[s].try \in 1..MAX_RETRIES
        BY <1>1, <2>2, <3>1 DEF Pending, ClientStates
      <4> QED BY <4>1, <4>2 DEF Sends
    <3>2. CASE client[s].pc # "create"
      <4>1. End(s, "success") \/ End(s, "failure")
        BY <1>3, <2>2, <3>2 DEF Success, Pending, Answered, Ops
      <4> QED BY <1>1, <4>1, EndSends
    <3> QED BY <3>1, <3>2
  <2> QED BY <1>3, <2>1, <2>2 DEF Answered
<1>4. CASE upload_part(s)
  <2>1. CASE Failure(s)
    BY <1>1, <2>1, FailureSends
  <2>2. CASE UNCHANGED call
    BY <1>4, <2>2 DEF upload_part, Sends
  <2> QED BY <1>4, <2>1, <2>2 DEF upload_part
<1>5. CASE complete_upload(s)
  BY <1>1, <1>5, Numbers, AskSends DEF complete_upload, Ops
<1>6. CASE Disconnected(s)
  <2>1. CASE Failure(s)
    BY <1>1, <2>1, FailureSends
  <2>2. CASE client[s].try < MAX_RETRIES /\ Ask(s, client[s], client[s].pc, client[s].try + 1)
    <3>1. client[s].try + 1 \in 1..MAX_RETRIES
      BY <1>1, <2>2, Numbers DEF ClientStates
    <3> QED BY <1>1, <1>6, <2>2, <3>1, AskSends DEF Disconnected
  <2> QED BY <1>6, <2>1, <2>2 DEF Disconnected
<1> QED BY <1>2, <1>3, <1>4, <1>5, <1>6 DEF upload_file

LEMMA ClientKeepsValidated ==
  ASSUME TypeOK, TypesValidated, NEW s \in Sessions, Sends(s), Advance(s)
  PROVE  TypesValidated'
<1> SUFFICES ASSUME NEW r \in Sessions, PastValidation(r)'
             PROVE  validateDatabankFileType(File(r)')
  BY DEF TypesValidated, validateDatabankFileType
<1>1. File(r)' = File(r)
  BY DEF Advance, File
<1>2. ASSUME NEW n \in 1..MAX_RETRIES, NEW op \in {"create", "complete"}
      PROVE  \/ call'[<<r, op, n>>].pc = call[<<r, op, n>>].pc
             \/ call'[<<r, op, n>>].pc = "send" /\ (op = "complete" => PastValidation(r))
  <2>1. <<r, op, n>> \in Calls
    BY DEF Calls, Ops
  <2>2. ASSUME NEW p \in Ops, NEW m \in 1..MAX_RETRIES,
               call' = [call EXCEPT ![<<s, p, m>>].pc = "send"],
               p = "complete" => client[s].pc \in {"parts", "complete"}
        PROVE  \/ call'[<<r, op, n>>].pc = call[<<r, op, n>>].pc
               \/ call'[<<r, op, n>>].pc = "send" /\ (op = "complete" => PastValidation(r))
    <3>1. CASE <<r, op, n>> = <<s, p, m>>
      <4>1. r = s /\ op = p
        BY <3>1
      <4> QED BY <2>1, <2>2, <3>1, <4>1, TypedIsTypeOK DEF Typed, CallStates, PastValidation
    <3>2. CASE <<r, op, n>> # <<s, p, m>>
      BY <2>1, <2>2, <3>2, TypedIsTypeOK DEF Typed
    <3> QED BY <3>1, <3>2
  <2> QED BY <2>2 DEF Sends
<1>3. client'[r].pc \in {"parts", "complete"} => PastValidation(r)
  BY DEF Sends, Advance, PastValidation
<1>4. PastValidation(r)
  BY <1>2, <1>3 DEF PastValidation
<1> QED BY <1>1, <1>4 DEF TypesValidated

LEMMA HandlerKeepsValidated ==
  ASSUME TypeOK, TypesValidated, NEW c \in Calls, Handle(c) \/ ApiCrash(c)
  PROVE  TypesValidated'
<1>1. client' = client
  BY HandlerTyped
<1>2. call[c].pc # "none" /\ call[c] \in CallStates
  BY TypedIsTypeOK DEF Handle, Command, Presign, ApiCrash, Typed
<1>3. \A d \in Calls : d # c => call'[d] = call[d]
  <2>1. \E st : call' = [call EXCEPT ![c] = st]
    BY Zenon DEF Handle, Command, Presign, ApiCrash, Fails
  <2> QED BY <2>1, TypedIsTypeOK DEF Typed
<1>4. c[2] = "create" /\ call'[c].pc \in {"presign", "ok"} =>
        \/ call[c].pc \in {"presign", "ok"}
        \/ validateDatabankFileType(File(c[1]))
  BY <1>2, TypedIsTypeOK
     DEF Handle, Command, Presign, ApiCrash, Fails, Rejected, Typed, CallStates
<1> SUFFICES ASSUME NEW s \in Sessions, PastValidation(s)'
             PROVE  validateDatabankFileType(File(s)')
  BY DEF TypesValidated, validateDatabankFileType
<1>5. File(s)' = File(s)
  BY <1>1 DEF File
<1>6. \A n \in 1..MAX_RETRIES : <<s, "create", n>> \in Calls /\ <<s, "complete", n>> \in Calls
  BY DEF Calls, Ops
<1>7. PastValidation(s) \/ validateDatabankFileType(File(s))
  BY <1>1, <1>2, <1>3, <1>4, <1>6 DEF PastValidation
<1> QED BY <1>5, <1>7 DEF TypesValidated

(* A completion puts the whole file under the key it was created for.      *)
LEMMA ExecuteKeepsStored ==
  ASSUME TypeOK, CompletingIsWhole, TypesValidated, StoredWhole, NEW c \in Calls,
         call[c].pc = "send", Execute(c), client' = client
  PROVE  StoredWhole'
<1>1. \A s \in Sessions : File(s)' = File(s)
  BY DEF File
<1>2. CASE UNCHANGED object
  BY <1>1, <1>2, TypedIsTypeOK DEF StoredWhole
<1>3. CASE Complete(c)
  <2> DEFINE s == c[1]
             key == normalizeKey(File(s))
  <2>1. s \in Sessions /\ c = <<s, "complete", c[3]>> /\ c[3] \in 1..MAX_RETRIES
    BY <1>3 DEF Calls, Complete
  <2>2. Completing(s)
    BY <2>1 DEF Completing
  <2>3. Content(s) = [by |-> {s}, bytes |-> File(s).size]
    BY <2>1, <2>2, NothingLeft DEF CompletingIsWhole
  <2>4. normalizeFileKey(File(s)) = key
    BY <1>3 DEF Complete, Known
  <2>5. object' = [object EXCEPT ![key] = Content(s)]
    BY <1>3 DEF Complete
  <2>8. validateDatabankFileType(File(s))
    BY <2>1 DEF TypesValidated, PastValidation
  <2> HIDE DEF s, key
  <2> SUFFICES ASSUME NEW k \in Keys, NEW r \in object'[k].by
               PROVE  /\ object'[k].bytes = File(r)'.size
                      /\ normalizeFileKey(File(r)') = k
                      /\ validateDatabankFileType(File(r)')
    BY DEF StoredWhole, normalizeFileKey, validateDatabankFileType
  <2>6. CASE k = key
    <3>1. object'[k] = [by |-> {s}, bytes |-> File(s).size]
      BY <2>3, <2>5, <2>6, TypedIsTypeOK
    <3>2. r = s
      BY <3>1
    <3> QED BY <1>1, <2>1, <2>4, <2>6, <2>8, <3>1, <3>2
  <2>7. CASE k # key
    <3>1. object'[k] = object[k]
      BY <2>5, <2>7, TypedIsTypeOK
    <3>2. r \in Sessions
      BY <3>1, TypedIsTypeOK
    <3> QED BY <1>1, <3>1, <3>2 DEF StoredWhole
  <2> QED BY <2>6, <2>7
<1> QED BY <1>2, <1>3 DEF Execute, Create, Abort, CompletedBefore

LEMMA StillStored ==
  ASSUME TypeOK, StoredWhole, UNCHANGED object,
         \A s \in Sessions : client'[s].file = client[s].file
  PROVE  StoredWhole'
<1>1. \A s \in Sessions : File(s)' = File(s)
  BY DEF File
<1> QED BY <1>1, TypedIsTypeOK DEF StoredWhole

WholeInv == TypeOK /\ CompletingIsWhole /\ TypesValidated /\ StoredWhole

LEMMA WholeStep == WholeInv /\ [Next]_vars => WholeInv'
<1> SUFFICES ASSUME WholeInv, [Next]_vars PROVE WholeInv'
  OBVIOUS
<1>1. TypeOK /\ CompletingIsWhole /\ TypesValidated /\ StoredWhole /\ TypeOK'
  BY TypeOKStep DEF WholeInv
<1>2. ASSUME NEW s \in Sessions, upload_file(s) \/ Disconnected(s)
      PROVE  CompletingIsWhole' /\ TypesValidated' /\ StoredWhole'
  <2>1. Advance(s) /\ UNCHANGED object
    BY <1>1, <1>2, ClientAdvances
  <2>2. CompletingIsWhole'
    BY <1>1, <2>1, AdvanceKeepsWhole
  <2>3. StoredWhole'
    BY <1>1, <2>1, StillStored DEF Advance
  <2>4. TypesValidated'
    BY <1>1, <1>2, <2>1, ClientSends, ClientKeepsValidated
  <2> QED BY <2>2, <2>3, <2>4
<1>3. ASSUME NEW c \in Calls, Handle(c) \/ ApiCrash(c)
      PROVE  CompletingIsWhole' /\ TypesValidated' /\ StoredWhole'
  <2>1. client' = client
    BY <1>1, <1>3, HandlerTyped
  <2>2. \/ call[c].pc = "send" /\ Execute(c)
        \/ UNCHANGED object
    BY <1>3 DEF Handle, Command, Presign, ApiCrash
  <2>3. StoredWhole'
    BY <1>1, <2>1, <2>2, ExecuteKeepsStored, StillStored
  <2> QED BY <1>1, <1>3, <2>3, HandlerKeepsWhole, HandlerKeepsValidated
<1>4. CASE UNCHANGED vars
  <2>1. client' = client /\ call' = call /\ object' = object
    BY <1>4 DEF vars
  <2>2. \A s \in Sessions : Completing(s)' <=> Completing(s)
    BY <2>1 DEF Completing
  <2>3. \A s \in Sessions : MoreParts(s)' <=> MoreParts(s)
    BY <2>1 DEF MoreParts, Cut, File
  <2>4. CompletingIsWhole'
    BY <1>1, <2>1, <2>2, <2>3 DEF CompletingIsWhole
  <2>5. TypesValidated'
    BY <1>1, <2>1 DEF TypesValidated, PastValidation, File, validateDatabankFileType
  <2> QED BY <1>1, <2>1, <2>4, <2>5, StillStored DEF WholeInv
<1> QED BY <1>1, <1>2, <1>3, <1>4 DEF WholeInv, Next

(* A key never holds part of a file, nor a file under another's key, nor   *)
(* one whose type the API does not accept,                                 *)
(* whatever is retried, whichever handler is late, and whatever crashes.   *)
THEOREM WholeFiles == Spec => []StoredWhole
<1>1. Init => WholeInv
  <2> SUFFICES ASSUME Init PROVE WholeInv
    OBVIOUS
  <2>1. TypeOK
    BY InitTypeOK
  <2>2. \A s \in Sessions : ~Completing(s)
    <3>1. \A s \in Sessions, n \in 1..MAX_RETRIES : <<s, "complete", n>> \in Calls
      BY DEF Calls, Ops
    <3>2. \A s \in Sessions : client[s].pc = "idle"
      BY DEF Init, NewClient
    <3>3. \A c \in Calls : call[c].pc = "none"
      BY DEF Init, NewCall
    <3> QED BY <3>1, <3>2, <3>3 DEF Completing
  <2>3. StoredWhole
    BY DEF Init, Nothing, StoredWhole
  <2>4. \A s \in Sessions : ~PastValidation(s)
    <3>1. \A s \in Sessions, n \in 1..MAX_RETRIES :
            <<s, "create", n>> \in Calls /\ <<s, "complete", n>> \in Calls
      BY DEF Calls, Ops
    <3>2. \A s \in Sessions : client[s].pc = "idle"
      BY DEF Init, NewClient
    <3>3. \A c \in Calls : call[c].pc = "none"
      BY DEF Init, NewCall
    <3> QED BY <3>1, <3>2, <3>3 DEF PastValidation
  <2> QED BY <2>1, <2>2, <2>3, <2>4 DEF WholeInv, CompletingIsWhole, TypesValidated
<1>2. WholeInv /\ [Next]_vars => WholeInv'
  BY WholeStep
<1>3. WholeInv => StoredWhole
  BY DEF WholeInv
<1> QED BY <1>1, <1>2, <1>3, PTL DEF Spec

-----------------------------------------------------------------------------
(***************************************************************************)
(* How an upload_file comes out: what a success, a cancellation and a      *)
(* failure say about S3, however requests are repeated, handlers are late  *)
(* and processes crash.                                                    *)
(***************************************************************************)
(* The invariant of a session, whatever fails.                             *)

(* The upload that the n-th create of session s has opened, or tries to.   *)
Created(s, n) == <<s, n, call[<<s, "create", n>>].attempt>>

(* The upload a session goes by is that of an answered create, ...         *)
OwnUpload(s) ==
  client[s].upload # {} =>
    /\ client[s].pc \notin {"idle", "create"}
    /\ \E n \in 1..MAX_RETRIES :
         call[<<s, "create", n>>].pc = "ok" /\ client[s].upload = {Created(s, n)}

(* ... nothing is completed or cancelled before the session has it, ...    *)
LaterCalls(s) ==
  \A op \in {"complete", "cancel"}, n \in 1..MAX_RETRIES :
    call[<<s, op, n>>].pc # "none" =>
      client[s].upload # {} /\ call[<<s, op, n>>].pc # "presign"

(* ... and no other upload of the session is.                              *)
OnlyOwn(s) ==
  \A n \in 1..MAX_RETRIES, a \in 0..maxRetries :
    upload[<<s, n, a>>] \in {"done", "aborted"} => <<s, n, a>> \in client[s].upload

HoldsFile(s) == object[normalizeKey(File(s))].by # {}

(* What has been answered is so in S3.                                     *)
AnswersHold(s) ==
  /\ \A u \in client[s].upload :
       /\ upload[u] = "done" => HoldsFile(s)
       /\ \A n \in 1..MAX_RETRIES :
            /\ call[<<s, "complete", n>>].pc = "ok" => upload[u] = "done"
            /\ call[<<s, "cancel", n>>].pc = "ok" => upload[u] = "aborted"
       /\ client[s].result = "success" => upload[u] = "done"
  /\ client[s].result = "success" => client[s].upload # {}

Sound(s) == OwnUpload(s) /\ LaterCalls(s) /\ OnlyOwn(s) /\ AnswersHold(s)

OutcomeInv == TypeOK /\ \A s \in Sessions : Sound(s)

-----------------------------------------------------------------------------
(* Calls and the uploads they are about.                                   *)

LEMMA CallParts ==
  ASSUME NEW c \in Calls
  PROVE  /\ c[1] \in Sessions /\ c[2] \in Ops /\ c[3] \in 1..MAX_RETRIES
         /\ c = <<c[1], c[2], c[3]>>
BY DEF Calls

LEMMA CallTyped ==
  ASSUME TypeOK, NEW s \in Sessions, NEW op \in Ops, NEW n \in 1..MAX_RETRIES
  PROVE  <<s, op, n>> \in Calls /\ call[<<s, op, n>>] \in CallStates
<1>1. <<s, op, n>> \in Calls
  BY DEF Calls
<1> QED BY <1>1, TypedIsTypeOK DEF Typed

LEMMA CreatedTyped ==
  ASSUME TypeOK, NEW s \in Sessions, NEW n \in 1..MAX_RETRIES
  PROVE  /\ Created(s, n) \in UploadIds
         /\ UploadOf(<<s, "create", n>>) = Created(s, n)
         /\ call[<<s, "create", n>>].attempt \in 0..maxRetries
BY CallTyped DEF Created, UploadOf, UploadIds, CallStates, Ops

(* The upload a completion or a cancellation is about.                     *)
LEMMA UploadOfOwn ==
  ASSUME NEW c, c[2] # "create", NEW u, client[c[1]].upload = {u}
  PROVE  UploadOf(c) = u
BY DEF UploadOf

LEMMA OwnIsOne ==
  ASSUME TypeOK, NEW s \in Sessions, OwnUpload(s), NEW u \in client[s].upload
  PROVE  /\ client[s].upload = {u} /\ u \in UploadIds
         /\ \E n \in 1..MAX_RETRIES :
              call[<<s, "create", n>>].pc = "ok" /\ u = Created(s, n)
BY CreatedTyped DEF OwnUpload

LEMMA OwnNamesSession ==
  ASSUME TypeOK, NEW s \in Sessions, OwnUpload(s), NEW u \in client[s].upload
  PROVE  u[1] = s
<1>1. PICK n \in 1..MAX_RETRIES : u = Created(s, n)
  BY OwnIsOne
<1> QED BY <1>1 DEF Created

-----------------------------------------------------------------------------
(* One step of a handler: what becomes of its call.                        *)

HandlerMoves(c) ==
  /\ client' = client
  /\ \A d \in Calls \ {c} : call'[d] = call[d]
  /\ call[c].pc \in {"send", "presign"}
  /\ \A s \in Sessions \ {c[1]} : faults'[s] = faults[s]
  /\ \/ /\ call[c].pc = "send" /\ Execute(c)
        /\ call'[c] = [call[c] EXCEPT !.pc = AfterCommand(c)]
        /\ faults'[c[1]] = faults[c[1]]
     \/ /\ call[c].pc = "send" /\ Refused(c)
        /\ call'[c] = [call[c] EXCEPT !.pc = "error"]
        /\ UNCHANGED <<upload, object>> /\ faults'[c[1]] = faults[c[1]]
     \/ /\ call[c].pc = "presign"
        /\ call'[c] = [call[c] EXCEPT !.pc = "ok"]
        /\ UNCHANGED <<upload, object>> /\ faults'[c[1]] = faults[c[1]]
     \/ /\ call'[c].pc \in {"send", "error", "dead"}
        /\ (call[c].pc = "send" /\ Execute(c)) \/ UNCHANGED <<upload, object>>
        /\ faults'[c[1]] = faults[c[1]] + 1

LEMMA FaultCounts ==
  ASSUME TypeOK, NEW s \in Sessions, NEW kind, Fault(kind, s)
  PROVE  /\ faults'[s] = faults[s] + 1
         /\ \A r \in Sessions \ {s} : faults'[r] = faults[r]
<1>1. faults' = [faults EXCEPT ![s] = @ + 1]
  BY Zenon DEF Fault
<1> QED BY <1>1, TypedIsTypeOK

LEMMA HandlerOutcome ==
  ASSUME TypeOK, NEW c \in Calls, Handle(c) \/ ApiCrash(c)
  PROVE  HandlerMoves(c)
<1>1. call \in [Calls -> CallStates] /\ c[1] \in Sessions /\ call[c] \in CallStates
  BY TypedIsTypeOK, CallParts DEF Typed
<1>2. client' = client
  BY HandlerTyped
<1>3. ASSUME NEW pc, call' = [call EXCEPT ![c].pc = pc]
      PROVE  /\ call'[c] = [call[c] EXCEPT !.pc = pc] /\ call'[c].pc = pc
             /\ \A d \in Calls \ {c} : call'[d] = call[d]
  BY <1>1, <1>3 DEF CallStates
<1>4. CASE Presign(c)
  <2>1. call[c].pc = "presign" /\ UNCHANGED <<upload, object>>
    BY <1>4 DEF Presign
  <2>2. CASE call' = [call EXCEPT ![c].pc = "ok"] /\ UNCHANGED faults
    BY <1>2, <1>3, <2>1, <2>2 DEF HandlerMoves
  <2>3. CASE Fault("s3", c[1]) /\ call' = [call EXCEPT ![c].pc = "error"]
    BY <1>1, <1>2, <1>3, <2>1, <2>3, FaultCounts DEF HandlerMoves
  <2> QED BY <1>4, <2>2, <2>3 DEF Presign
<1>5. CASE ApiCrash(c)
  BY <1>1, <1>2, <1>3, <1>5, FaultCounts DEF HandlerMoves, ApiCrash
<1>6. CASE Command(c)
  <2>1. call[c].pc = "send"
    BY <1>6 DEF Command
  <2>2. CASE /\ Execute(c) /\ call' = [call EXCEPT ![c].pc = AfterCommand(c)]
             /\ UNCHANGED faults
    BY <1>2, <1>3, <2>1, <2>2 DEF HandlerMoves
  <2>3. CASE /\ Refused(c) /\ call' = [call EXCEPT ![c].pc = "error"]
             /\ UNCHANGED <<upload, object, faults>>
    BY <1>2, <1>3, <2>1, <2>3 DEF HandlerMoves
  <2>4. CASE Fails(c) /\ (Execute(c) \/ UNCHANGED <<upload, object>>)
    <3>1. /\ faults'[c[1]] = faults[c[1]] + 1
          /\ \A s \in Sessions \ {c[1]} : faults'[s] = faults[s]
      BY <1>1, <2>4, FaultCounts DEF Fails
    <3>2. CASE call' = [call EXCEPT ![c].pc = "error"]
      BY <1>2, <1>3, <2>1, <2>4, <3>1, <3>2 DEF HandlerMoves
    <3>3. CASE call' = [call EXCEPT ![c].attempt = @ + 1]
      <4>1. call'[c].pc = "send" /\ \A d \in Calls \ {c} : call'[d] = call[d]
        BY <1>1, <2>1, <3>3 DEF CallStates
      <4> QED BY <1>2, <2>1, <2>4, <3>1, <4>1 DEF HandlerMoves
    <3> QED BY <2>4, <3>2, <3>3 DEF Fails
  <2> QED BY <1>6, <2>2, <2>3, <2>4 DEF Command
<1> QED BY <1>4, <1>5, <1>6 DEF Handle

-----------------------------------------------------------------------------
(* What a command does to the uploads the sessions go by.                  *)

(* A command of c finishes the upload of its session, or leaves it alone;  *)
(* a create opens one that nobody goes by.                                 *)
Finishes(c) ==
  /\ \A s \in Sessions : \A u \in client[s].upload :
       \/ upload'[u] = upload[u]
       \/ c[1] = s /\ c[2] # "create" /\ upload[u] = "open"
  /\ \A u \in UploadIds :
       \/ upload'[u] = upload[u]
       \/ upload'[u] = "open" /\ u = UploadOf(c) /\ c[2] = "create"
       \/ u \in client[c[1]].upload /\ c[2] # "create"
  /\ c[2] = "create" => upload'[UploadOf(c)] = "open"
  /\ \A u \in client[c[1]].upload :
       /\ c[2] = "complete" => upload'[u] = "done"
       /\ c[2] = "cancel" => upload'[u] = "aborted"
  /\ \A k \in Keys : object[k].by # {} => object'[k].by # {}
  /\ \A u \in client[c[1]].upload :
       upload'[u] # upload[u] /\ upload'[u] = "done" =>
         object'[normalizeKey(File(c[1]))].by # {}

LEMMA KeyOfFile ==
  ASSUME TypeOK, NEW s \in Sessions
  PROVE  normalizeKey(File(s)) \in Keys
BY TypedIsTypeOK DEF Typed, ClientStates, File, Keys

LEMMA ExecuteFinishes ==
  ASSUME OutcomeInv, NEW c \in Calls, call[c].pc = "send", Execute(c)
  PROVE  Finishes(c)
<1> USE DEF OutcomeInv
<1>1. /\ c[1] \in Sessions /\ c[2] \in Ops /\ c[3] \in 1..MAX_RETRIES
      /\ c = <<c[1], c[2], c[3]>>
  BY CallParts
<1>2. /\ upload \in [UploadIds -> UploadStates]
      /\ object \in [Keys -> [by : SUBSET Sessions, bytes : Nat]]
  BY TypedIsTypeOK
<1>3. CASE c[2] = "create"
  <2> DEFINE up == UploadOf(c)
  <2>1. up = Created(c[1], c[3]) /\ up \in UploadIds
    BY <1>1, <1>3, CreatedTyped
  <2>2. upload' = [upload EXCEPT ![up] = "open"] /\ object' = object
    BY <1>3 DEF Execute, Create, Complete, Abort, CompletedBefore
  <2>3. ASSUME NEW s \in Sessions, NEW u \in client[s].upload
        PROVE  u # up
    <3>1. PICK n \in 1..MAX_RETRIES : call[<<s, "create", n>>].pc = "ok" /\ u = Created(s, n)
      BY <2>3, OwnIsOne DEF Sound
    <3>2. <<s, "create", n>> # c
      BY <3>1
    <3>3. s # c[1] \/ n # c[3]
      BY <1>1, <1>3, <3>2
    <3> QED BY <2>1, <3>1, <3>3 DEF Created
  <2> HIDE DEF up
  <2>4. /\ upload'[up] = "open"
        /\ \A u \in UploadIds \ {up} : upload'[u] = upload[u]
    BY <1>2, <2>1, <2>2
  <2>5. \A s \in Sessions : \A u \in client[s].upload : upload'[u] = upload[u]
    BY <2>3, <2>4, OwnIsOne DEF Sound
  <2>6. \A u \in client[c[1]].upload : upload'[u] = upload[u]
    BY <1>1, <2>5
  <2>7. up = UploadOf(c)
    BY DEF up
  <2>8. \A u \in UploadIds :
          \/ upload'[u] = upload[u]
          \/ upload'[u] = "open" /\ u = UploadOf(c) /\ c[2] = "create"
    BY <1>3, <2>4, <2>7
  <2>9. upload'[UploadOf(c)] = "open"
    BY <2>4, <2>7
  <2>10. \A k \in Keys : object[k].by # {} => object'[k].by # {}
    BY <2>2
  <2> QED BY <1>3, <2>5, <2>6, <2>8, <2>9, <2>10 DEF Finishes
<1>4. CASE c[2] # "create"
  <2>1. client[c[1]].upload # {}
    BY <1>1, <1>4 DEF Sound, LaterCalls, Ops
  <2>2. PICK u \in client[c[1]].upload : TRUE
    BY <2>1
  <2>3. client[c[1]].upload = {u} /\ u \in UploadIds /\ UploadOf(c) = u
    BY <1>1, <1>4, OwnIsOne, UploadOfOwn DEF Sound
  <2>4. ASSUME NEW s \in Sessions, u \in client[s].upload
        PROVE  s = c[1]
    <3>1. OwnUpload(s) /\ OwnUpload(c[1])
      BY <1>1 DEF Sound
    <3>2. u[1] = s
      BY <2>4, <3>1, OwnNamesSession
    <3>3. u[1] = c[1]
      BY <1>1, <2>2, <3>1, OwnNamesSession
    <3> QED BY <3>2, <3>3
  <2>5. ASSUME NEW st \in {"done", "aborted"}, upload' = [upload EXCEPT ![u] = st],
               upload[u] = "open"
        PROVE  /\ upload'[u] = st
               /\ \A v \in UploadIds \ {u} : upload'[v] = upload[v]
               /\ \A s \in Sessions : \A v \in client[s].upload :
                    upload'[v] = upload[v] \/ (s = c[1] /\ v = u)
    <3>1. /\ upload'[u] = st
          /\ \A v \in UploadIds \ {u} : upload'[v] = upload[v]
      BY <1>2, <2>3, <2>5
    <3>2. \A s \in Sessions : \A v \in client[s].upload : v \in UploadIds
      BY OwnIsOne DEF Sound
    <3> QED BY <2>4, <3>1, <3>2
  <2>6. CASE Complete(c)
    <3> DEFINE key == normalizeKey(File(c[1]))
    <3>1. /\ upload[u] = "open" /\ upload' = [upload EXCEPT ![u] = "done"]
          /\ object' = [object EXCEPT ![key] = Content(c[1])]
          /\ c[2] = "complete"
      BY <2>3, <2>6 DEF Complete, Known
    <3>2. key \in Keys /\ Content(c[1]).by # {}
      BY <1>1, KeyOfFile DEF Content
    <3> HIDE DEF key
    <3>3. object'[key].by # {} /\ \A k \in Keys : object[k].by # {} => object'[k].by # {}
      BY <1>2, <3>1, <3>2
    <3> QED BY <1>4, <2>3, <2>5, <3>1, <3>3 DEF Finishes, key
  <2>7. CASE Abort(c)
    <3>1. /\ upload[u] = "open" /\ upload' = [upload EXCEPT ![u] = "aborted"]
          /\ object' = object /\ c[2] = "cancel"
      BY <2>3, <2>7 DEF Abort, Known
    <3> QED BY <1>4, <2>3, <2>5, <3>1 DEF Finishes
  <2>8. CASE CompletedBefore(c)
    <3>1. upload[u] = "done" /\ upload' = upload /\ object' = object /\ c[2] = "complete"
      BY <2>3, <2>8 DEF CompletedBefore
    <3> QED BY <1>4, <2>3, <3>1 DEF Finishes
  <2> QED BY <1>4, <2>6, <2>7, <2>8 DEF Execute, Create
<1> QED BY <1>3, <1>4

-----------------------------------------------------------------------------
(* A step of a handler keeps the invariant.                                *)

LEMMA HandlerKeepsSound ==
  ASSUME OutcomeInv, NEW c \in Calls, HandlerMoves(c), NEW s \in Sessions
  PROVE  Sound(s)'
<1>1. TypeOK /\ Sound(s) /\ Sound(c[1]) /\ \A r \in Sessions : Sound(r)
  BY CallParts DEF OutcomeInv
<1>2. /\ client' = client /\ File(s)' = File(s)
      /\ call[c].pc \in {"send", "presign"}
      /\ \A d \in Calls \ {c} : call'[d] = call[d]
  BY DEF HandlerMoves, File
<1>3. c[1] \in Sessions /\ c[2] \in Ops /\ c = <<c[1], c[2], c[3]>>
  BY CallParts
<1>4. (call[c].pc = "send" /\ Finishes(c)) \/ UNCHANGED <<upload, object>>
  BY ExecuteFinishes DEF HandlerMoves
<1>5. \A n \in 1..MAX_RETRIES : call[<<s, "create", n>>].pc = "ok" =>
        call'[<<s, "create", n>>] = call[<<s, "create", n>>]
  BY <1>1, <1>2, CallTyped DEF Ops
<1>6. OwnUpload(s)'
  BY <1>1, <1>2, <1>5 DEF Sound, OwnUpload, Created
<1>7. c[2] # "create" => call[c].pc = "send" /\ client[c[1]].upload # {}
  BY <1>1, <1>2, <1>3, CallParts DEF Sound, LaterCalls, Ops
<1>8. c[2] # "create" => call'[c].pc # "presign"
  <2> SUFFICES ASSUME c[2] # "create" PROVE call'[c].pc # "presign"
    OBVIOUS
  <2>1. call[c] \in CallStates
    BY <1>1, TypedIsTypeOK DEF Typed
  <2>2. AfterCommand(c) = "ok"
    BY DEF AfterCommand
  <2> QED BY <1>7, <2>1, <2>2 DEF HandlerMoves, CallStates
<1>9. LaterCalls(s)'
  <2> SUFFICES ASSUME NEW op \in {"complete", "cancel"}, NEW n \in 1..MAX_RETRIES,
                      call'[<<s, op, n>>].pc # "none"
               PROVE  client'[s].upload # {} /\ call'[<<s, op, n>>].pc # "presign"
    BY DEF LaterCalls
  <2>1. CASE <<s, op, n>> = c
    <3>1. c[1] = s /\ c[2] = op
      BY <2>1
    <3> QED BY <1>2, <1>7, <1>8, <2>1, <3>1
  <2>2. CASE <<s, op, n>> # c
    <3>1. call'[<<s, op, n>>] = call[<<s, op, n>>]
      BY <1>1, <1>2, <2>2, CallTyped DEF Ops
    <3> QED BY <1>1, <1>2, <3>1 DEF Sound, LaterCalls
  <2> QED BY <2>1, <2>2
<1>10. OnlyOwn(s)'
  <2> SUFFICES ASSUME NEW n \in 1..MAX_RETRIES, NEW a \in 0..maxRetries,
                      upload'[<<s, n, a>>] \in {"done", "aborted"}
               PROVE  <<s, n, a>> \in client[s].upload
    BY <1>2 DEF OnlyOwn
  <2> DEFINE u == <<s, n, a>>
  <2>1. u \in UploadIds /\ u[1] = s
    BY DEF UploadIds
  <2>2. CASE upload'[u] = upload[u]
    BY <1>1, <2>2 DEF Sound, OnlyOwn
  <2>3. CASE u \in client[c[1]].upload
    <3>1. u[1] = c[1]
      BY <1>1, <1>3, <2>3, OwnNamesSession DEF Sound
    <3> QED BY <2>1, <2>3, <3>1
  <2> HIDE DEF u
  <2>4. upload'[u] = upload[u] \/ u \in client[c[1]].upload
    BY <1>4, <2>1 DEF Finishes, u
  <2> QED BY <2>2, <2>3, <2>4
<1>11. AnswersHold(s)'
  <2>1. HoldsFile(s) => HoldsFile(s)'
    BY <1>1, <1>2, <1>4, KeyOfFile DEF HoldsFile, Finishes
  <2>2. client'[s].result = "success" => client'[s].upload # {}
    BY <1>1, <1>2 DEF Sound, AnswersHold
  <2> SUFFICES ASSUME NEW u \in client[s].upload
               PROVE  /\ upload'[u] = "done" => HoldsFile(s)'
                      /\ \A n \in 1..MAX_RETRIES :
                           /\ call'[<<s, "complete", n>>].pc = "ok" => upload'[u] = "done"
                           /\ call'[<<s, "cancel", n>>].pc = "ok" => upload'[u] = "aborted"
                      /\ client[s].result = "success" => upload'[u] = "done"
    BY <1>2, <2>2 DEF AnswersHold
  <2>3. upload'[u] = upload[u] \/ (c[1] = s /\ upload[u] = "open")
    BY <1>4 DEF Finishes
  <2>4. upload'[u] = "done" => HoldsFile(s)'
    <3>1. CASE upload'[u] = upload[u]
      BY <1>1, <2>1, <3>1 DEF Sound, AnswersHold
    <3>2. CASE upload'[u] # upload[u]
      BY <1>2, <1>4, <2>3, <3>2 DEF Finishes, HoldsFile
    <3> QED BY <3>1, <3>2
  <2>5. client[s].result = "success" => upload'[u] = "done"
    BY <1>1, <2>3 DEF Sound, AnswersHold
  <2>6. ASSUME NEW n \in 1..MAX_RETRIES, NEW op \in {"complete", "cancel"},
               call'[<<s, op, n>>].pc = "ok"
        PROVE  upload'[u] = IF op = "complete" THEN "done" ELSE "aborted"
    <3>1. CASE <<s, op, n>> = c
      <4>1. c[1] = s /\ c[2] = op /\ call[c].pc = "send"
        BY <1>7, <3>1
      <4>2. Execute(c)
        <5>1. call[c] \in CallStates
          BY <1>1, TypedIsTypeOK DEF Typed
        <5> QED BY <2>6, <3>1, <4>1, <5>1 DEF HandlerMoves, CallStates
      <4> QED BY <4>1, <4>2, ExecuteFinishes DEF Finishes
    <3>2. CASE <<s, op, n>> # c
      <4>1. call[<<s, op, n>>].pc = "ok"
        BY <1>1, <1>2, <2>6, <3>2, CallTyped DEF Ops
      <4> QED BY <1>1, <2>3, <4>1 DEF Sound, AnswersHold
    <3> QED BY <3>1, <3>2
  <2> QED BY <2>4, <2>5, <2>6
<1> QED BY <1>6, <1>9, <1>10, <1>11 DEF Sound

-----------------------------------------------------------------------------
(* A step of the uploader keeps the invariant.                             *)

(* A session keeps its upload, says success only when that is completed,   *)
(* and sends a create only before, other requests only after it has one.   *)
Keeps(r) ==
  /\ client'[r].upload = client[r].upload /\ client'[r].file = client[r].file
  /\ client[r].upload # {} => client'[r].pc \notin {"idle", "create"}
  /\ client'[r].result = "success" =>
       \/ client[r].result = "success"
       \/ client[r].upload # {} /\ \A u \in client[r].upload : upload[u] = "done"
  /\ \A op \in Ops, n \in 1..MAX_RETRIES :
       \/ call'[<<r, op, n>>] = call[<<r, op, n>>]
       \/ call'[<<r, op, n>>].pc = "send" /\ (op = "create" <=> client[r].upload = {})

LEMMA KeepsSound ==
  ASSUME OutcomeInv, UNCHANGED <<upload, object>>, NEW r \in Sessions, Keeps(r)
  PROVE  Sound(r)'
<1>1. Sound(r) /\ File(r)' = File(r)
  BY DEF OutcomeInv, Keeps, File
<1>2. OwnUpload(r)'
  <2> SUFFICES ASSUME client'[r].upload # {}
               PROVE  /\ client'[r].pc \notin {"idle", "create"}
                      /\ \E n \in 1..MAX_RETRIES :
                           /\ call'[<<r, "create", n>>].pc = "ok"
                           /\ client'[r].upload = {Created(r, n)'}
    BY DEF OwnUpload
  <2>1. client[r].upload # {} /\ client'[r].upload = client[r].upload
    BY DEF Keeps
  <2>2. \A n \in 1..MAX_RETRIES : call'[<<r, "create", n>>] = call[<<r, "create", n>>]
    BY <2>1 DEF Keeps, Ops
  <2> QED BY <1>1, <2>1, <2>2 DEF Sound, OwnUpload, Keeps, Created
<1>3. LaterCalls(r)'
  <2> SUFFICES ASSUME NEW op \in {"complete", "cancel"}, NEW n \in 1..MAX_RETRIES,
                      call'[<<r, op, n>>].pc # "none"
               PROVE  client'[r].upload # {} /\ call'[<<r, op, n>>].pc # "presign"
    BY DEF LaterCalls
  <2>1. CASE call'[<<r, op, n>>] = call[<<r, op, n>>]
    BY <1>1, <2>1 DEF Sound, LaterCalls, Keeps
  <2>2. CASE call'[<<r, op, n>>].pc = "send" /\ (op = "create" <=> client[r].upload = {})
    BY <2>2 DEF Keeps
  <2> QED BY <2>1, <2>2 DEF Keeps, Ops
<1>4. OnlyOwn(r)'
  BY <1>1 DEF Sound, OnlyOwn, Keeps
<1>5. AnswersHold(r)'
  <2>1. HoldsFile(r)' <=> HoldsFile(r)
    BY <1>1 DEF HoldsFile
  <2>2. \A n \in 1..MAX_RETRIES, op \in {"complete", "cancel"} :
          call'[<<r, op, n>>].pc = "ok" => call[<<r, op, n>>].pc = "ok"
    BY DEF Keeps, Ops
  <2> QED BY <1>1, <2>1, <2>2 DEF Sound, AnswersHold, Keeps
<1> QED BY <1>2, <1>3, <1>4, <1>5 DEF Sound

LEMMA StillKeeps ==
  ASSUME OutcomeInv, NEW r \in Sessions, client'[r] = client[r],
         \A op \in Ops, n \in 1..MAX_RETRIES : call'[<<r, op, n>>] = call[<<r, op, n>>]
  PROVE  Keeps(r)
BY DEF Keeps, OutcomeInv, Sound, OwnUpload, AnswersHold

LEMMA AskKeeps ==
  ASSUME OutcomeInv, NEW s \in Sessions, NEW op \in Ops, NEW n \in 1..MAX_RETRIES,
         Ask(s, client[s], op, n), op = "create" <=> client[s].upload = {},
         NEW r \in Sessions
  PROVE  Keeps(r)
<1>1. /\ client' = [client EXCEPT ![s] = [client[s] EXCEPT !.pc = op, !.try = n]]
      /\ call' = [call EXCEPT ![<<s, op, n>>].pc = "send"]
  BY DEF Ask
<1>2. client \in [Sessions -> ClientStates] /\ client[s] \in ClientStates
      /\ call \in [Calls -> CallStates]
  BY TypedIsTypeOK DEF Typed, OutcomeInv
<1>3. ASSUME NEW p \in Ops, NEW m \in 1..MAX_RETRIES
      PROVE  \/ call'[<<r, p, m>>] = call[<<r, p, m>>]
             \/ call'[<<r, p, m>>].pc = "send" /\ r = s /\ p = op
  <2>1. <<r, p, m>> \in Calls /\ call[<<r, p, m>>] \in CallStates
    BY CallTyped DEF OutcomeInv
  <2> QED BY <1>1, <1>2, <2>1 DEF CallStates
<1>4. CASE r = s
  <2>1. /\ client'[s].pc = op /\ client'[s].upload = client[s].upload
        /\ client'[s].file = client[s].file /\ client'[s].result = client[s].result
    BY <1>1, <1>2 DEF ClientStates
  <2> QED BY <1>3, <1>4, <2>1 DEF Keeps, Ops
<1>5. CASE r # s
  BY <1>1, <1>2, <1>3, <1>5, StillKeeps
<1> QED BY <1>4, <1>5

LEMMA EndKeeps ==
  ASSUME OutcomeInv, NEW s \in Sessions, NEW result \in {"success", "failure"},
         End(s, result), NEW r \in Sessions,
         result = "success" =>
           client[s].upload # {} /\ \A u \in client[s].upload : upload[u] = "done"
  PROVE  Keeps(r)
<1>1. /\ client' = [client EXCEPT ![s].pc = "done", ![s].result = result]
      /\ call' = call
  BY DEF End
<1>2. client \in [Sessions -> ClientStates]
  BY TypedIsTypeOK DEF Typed, OutcomeInv
<1>3. CASE r = s
  <2>1. /\ client'[s].pc = "done" /\ client'[s].upload = client[s].upload
        /\ client'[s].file = client[s].file /\ client'[s].result = result
    BY <1>1, <1>2 DEF ClientStates
  <2> QED BY <1>1, <1>3, <2>1 DEF Keeps
<1>4. CASE r # s
  BY <1>1, <1>2, <1>4, StillKeeps
<1> QED BY <1>3, <1>4

LEMMA FailureKeeps ==
  ASSUME OutcomeInv, NEW s \in Sessions, Failure(s), NEW r \in Sessions
  PROVE  Keeps(r)
<1>1. CASE client[s].pc \in {"parts", "complete"}
  <2>1. Ask(s, client[s], "cancel", 1) /\ client[s].upload # {}
    BY <1>1, TypedIsTypeOK DEF Failure, OutcomeInv, Typed
  <2> QED BY <2>1, Numbers, AskKeeps DEF Ops
<1>2. CASE client[s].pc \notin {"parts", "complete"}
  BY <1>2, EndKeeps DEF Failure
<1> QED BY <1>1, <1>2

(* The answer to a create gives the session its upload.                    *)
LEMMA CreatedKeepsSound ==
  ASSUME OutcomeInv, UNCHANGED <<upload, object>>, NEW s \in Sessions,
         client[s].pc = "create", call[Pending(s)].pc = "ok", Success(s, Pending(s)),
         NEW r \in Sessions
  PROVE  Sound(r)'
<1> DEFINE n == client[s].try
           up == {Created(s, n)}
<1>1. client \in [Sessions -> ClientStates] /\ n \in 1..MAX_RETRIES
  BY TypedIsTypeOK DEF Typed, ClientStates, OutcomeInv
<1>2. Pending(s) = <<s, "create", n>> /\ UploadOf(Pending(s)) = Created(s, n)
  BY <1>1, CreatedTyped DEF Pending, OutcomeInv
<1>3. client' = [client EXCEPT ![s].pc = "parts", ![s].upload = up] /\ call' = call
  BY <1>2 DEF Success
<1> HIDE DEF n, up
<1>4. CASE r = s
  <2>1. /\ client'[s].pc = "parts" /\ client'[s].upload = up
        /\ client'[s].file = client[s].file /\ client'[s].result = client[s].result
    BY <1>1, <1>3 DEF ClientStates
  <2>2. Sound(s) /\ client[s].upload = {} /\ client[s].result # "success"
    BY DEF OutcomeInv, Sound, OwnUpload, AnswersHold
  <2>3. \A op \in {"complete", "cancel"}, m \in 1..MAX_RETRIES : call[<<s, op, m>>].pc = "none"
    BY <2>2 DEF Sound, LaterCalls
  <2>4. \A m \in 1..MAX_RETRIES : Created(s, m)' = Created(s, m)
    BY <1>3 DEF Created
  <2>5. OwnUpload(s)'
    BY <1>1, <1>2, <1>3, <2>1, <2>4 DEF OwnUpload, up
  <2>6. LaterCalls(s)'
    BY <1>3, <2>3 DEF LaterCalls
  <2>7. OnlyOwn(s)'
    BY <2>2 DEF Sound, OnlyOwn
  <2>8. \A u \in up : upload[u] \notin {"done", "aborted"}
    <3>1. call[<<s, "create", n>>].attempt \in 0..maxRetries
      BY <1>1, CreatedTyped DEF OutcomeInv
    <3> QED BY <1>1, <2>2, <3>1 DEF Sound, OnlyOwn, up, Created
  <2>9. AnswersHold(s)'
    BY <1>3, <2>1, <2>2, <2>3, <2>8 DEF AnswersHold
  <2> QED BY <1>4, <2>5, <2>6, <2>7, <2>9 DEF Sound
<1>5. CASE r # s
  BY <1>1, <1>3, <1>5, StillKeeps, KeepsSound
<1> QED BY <1>4, <1>5

LEMMA PhaseUpload ==
  ASSUME OutcomeInv, NEW s \in Sessions
  PROVE  /\ client[s].pc \in {"idle", "create"} => client[s].upload = {}
         /\ client[s].pc \in {"parts", "complete", "cancel"} => client[s].upload # {}
         /\ client[s].try \in 1..MAX_RETRIES
<1>1. client[s].pc \in {"idle", "create"} => client[s].upload = {}
  BY DEF OutcomeInv, Sound, OwnUpload
<1> QED BY <1>1, TypedIsTypeOK DEF OutcomeInv, Typed, ClientStates

LEMMA ClientKeepsSound ==
  ASSUME OutcomeInv, NEW s \in Sessions, upload_file(s) \/ Disconnected(s),
         NEW r \in Sessions
  PROVE  Sound(r)'
<1>1. UNCHANGED <<upload, object>>
  BY DEF upload_file, initiate_upload, Answered, upload_part, complete_upload, Disconnected
<1>2. CASE Failure(s)
  BY <1>1, <1>2, FailureKeeps, KeepsSound
<1>3. ASSUME NEW op \in Ops, NEW n \in 1..MAX_RETRIES, Ask(s, client[s], op, n),
             op = "create" <=> client[s].upload = {}
      PROVE  Sound(r)'
  BY <1>1, <1>3, AskKeeps, KeepsSound
<1>4. CASE initiate_upload(s)
  BY <1>3, <1>4, Numbers, PhaseUpload DEF initiate_upload, Ops
<1>5. CASE client[s].pc \in Ops /\ call[Pending(s)].pc = "ok" /\ Success(s, Pending(s))
  <2>1. CASE client[s].pc = "create"
    BY <1>1, <1>5, <2>1, CreatedKeepsSound
  <2>2. CASE client[s].pc = "complete"
    <3>1. End(s, "success")
      BY <1>5, <2>2 DEF Success, Pending
    <3>2. \A u \in client[s].upload : upload[u] = "done"
      BY <1>5, <2>2, PhaseUpload DEF OutcomeInv, Sound, AnswersHold, Pending
    <3>3. client[s].upload # {}
      BY <2>2, PhaseUpload
    <3> QED BY <1>1, <3>1, <3>2, <3>3, EndKeeps, KeepsSound
  <2>3. CASE client[s].pc = "cancel"
    <3>1. End(s, "failure")
      BY <1>5, <2>3 DEF Success, Pending
    <3> QED BY <1>1, <3>1, EndKeeps, KeepsSound
  <2> QED BY <1>5, <2>1, <2>2, <2>3 DEF Ops
<1>6. CASE upload_part(s)
  <2>1. CASE client' = [client EXCEPT ![s].parts = @ + 1] /\ UNCHANGED call
    <3>1. client \in [Sessions -> ClientStates]
      BY TypedIsTypeOK DEF OutcomeInv, Typed
    <3>2. /\ client'[r].upload = client[r].upload /\ client'[r].file = client[r].file
          /\ client'[r].pc = client[r].pc /\ client'[r].result = client[r].result
      BY <2>1, <3>1 DEF ClientStates
    <3>3. Keeps(r)
      BY <2>1, <3>2, PhaseUpload DEF Keeps
    <3> QED BY <1>1, <3>3, KeepsSound
  <2> QED BY <1>2, <1>6, <2>1 DEF upload_part
<1>7. CASE complete_upload(s)
  BY <1>3, <1>7, Numbers, PhaseUpload DEF complete_upload, Ops
<1>8. CASE Disconnected(s)
  <2>1. CASE client[s].try < MAX_RETRIES /\ Ask(s, client[s], client[s].pc, client[s].try + 1)
    <3>1. client[s].try + 1 \in 1..MAX_RETRIES
      BY <2>1, Numbers, PhaseUpload
    <3>2. client[s].pc \in Ops
      BY <1>8 DEF Disconnected
    <3>3. client[s].pc = "create" <=> client[s].upload = {}
      BY <3>2, PhaseUpload DEF Ops
    <3> QED BY <1>3, <2>1, <3>1, <3>2, <3>3
  <2> QED BY <1>2, <1>8, <2>1 DEF Disconnected
<1> QED BY <1>2, <1>4, <1>5, <1>6, <1>7, <1>8 DEF upload_file, Answered

LEMMA OutcomeStep == OutcomeInv /\ [Next]_vars => OutcomeInv'
<1> SUFFICES ASSUME OutcomeInv, [Next]_vars PROVE OutcomeInv'
  OBVIOUS
<1>1. TypeOK /\ TypeOK'
  BY TypeOKStep DEF OutcomeInv
<1>2. ASSUME NEW s \in Sessions, upload_file(s) \/ Disconnected(s)
      PROVE  \A r \in Sessions : Sound(r)'
  BY <1>2, ClientKeepsSound
<1>3. ASSUME NEW c \in Calls, Handle(c) \/ ApiCrash(c)
      PROVE  \A r \in Sessions : Sound(r)'
  BY <1>1, <1>3, HandlerOutcome, HandlerKeepsSound
<1>4. CASE UNCHANGED vars
  <2>1. \A r \in Sessions : Keeps(r)
    BY <1>4, StillKeeps DEF vars
  <2> QED BY <1>1, <1>4, <2>1, KeepsSound DEF vars, OutcomeInv
<1> QED BY <1>1, <1>2, <1>3, <1>4 DEF Next, OutcomeInv

LEMMA InitOutcome == Init => OutcomeInv
<1> SUFFICES ASSUME Init PROVE OutcomeInv
  OBVIOUS
<1>1. TypeOK
  BY InitTypeOK
<1> SUFFICES ASSUME NEW s \in Sessions PROVE Sound(s)
  BY <1>1 DEF OutcomeInv
<1>2. client[s].upload = {} /\ client[s].result = "none"
  BY DEF Init, NewClient
<1>3. \A op \in Ops, n \in 1..MAX_RETRIES : call[<<s, op, n>>].pc = "none"
  BY <1>1, CallTyped DEF Init, NewCall
<1>4. \A u \in UploadIds : upload[u] = "none"
  BY DEF Init
<1>5. OnlyOwn(s)
  BY <1>4 DEF OnlyOwn, UploadIds
<1> QED BY <1>2, <1>3, <1>5 DEF Sound, OwnUpload, LaterCalls, AnswersHold, Ops

THEOREM OutcomeInvariant == Spec => []OutcomeInv
BY InitOutcome, OutcomeStep, PTL DEF Spec

(* An upload_file that returns success has its upload completed and its    *)
(* file stored under the key the API promised, whichever of its requests   *)
(* and of their retries did it.                                            *)
THEOREM SuccessStores == Spec => []SuccessIsStored
<1>1. OutcomeInv => SuccessIsStored
  <2> SUFFICES ASSUME OutcomeInv, NEW s \in Sessions, client[s].result = "success"
               PROVE  /\ \A u \in client[s].upload : upload[u] = "done"
                      /\ object[normalizeKey(File(s))].by # {}
    BY DEF SuccessIsStored
  <2>1. AnswersHold(s)
    BY DEF OutcomeInv, Sound
  <2> QED BY <2>1 DEF AnswersHold, HoldsFile
<1> QED BY <1>1, OutcomeInvariant, PTL

(* Once a cancellation has been answered with success nothing completes    *)
(* the upload any more, though requests to complete it may still be on     *)
(* their way through the API.                                              *)
THEOREM CancellationIsFinal == Spec => []CancelledStaysCancelled
<1>1. OutcomeInv => CancelledStaysCancelled
  <2> SUFFICES ASSUME OutcomeInv, NEW s \in Sessions, NEW n \in 1..MAX_RETRIES,
                      call[<<s, "cancel", n>>].pc = "ok", NEW u \in client[s].upload
               PROVE  upload[u] = "aborted"
    BY DEF CancelledStaysCancelled
  <2> QED BY DEF OutcomeInv, Sound, AnswersHold
<1> QED BY <1>1, OutcomeInvariant, PTL

-----------------------------------------------------------------------------
(* Sessions that no failure has hit. The handlers for completing and       *)
(* cancelling find the upload only under the key it was created for:       *)
(* normalizeKey and normalizeFileKey agree on files that do not lie in a   *)
(* directory named like their databank.                                    *)

PlainNames == \A f \in Files : f.depth = 0

Answer(s) == call[Pending(s)].pc
Own(s, st) == \A u \in client[s].upload : upload[u] = st

(* Why a request is refused although nothing failed.                       *)
Refusable(s) ==
  \/ File(s).size = 0
  \/ Cut(s).num_parts > MaxNumParts
  \/ ~validateDatabankFileType(File(s))

InFlight(s, op, n) == call[<<s, op, n>>].pc \in {"send", "presign"}

(* One request is on its way at a time, the first of its kind, and the     *)
(* upload is where the session takes it to be.                             *)
CleanSession(s) ==
  /\ client[s].try = 1
  /\ \A op \in Ops, n \in 1..MAX_RETRIES :
       InFlight(s, op, n) => op = client[s].pc /\ n = 1
  /\ client[s].pc \in Ops => Answer(s) \in {"send", "presign", "ok", "error"}
  /\ client[s].pc = "create" =>
       /\ Answer(s) = "error" => Refusable(s)
       /\ Answer(s) \in {"presign", "ok"} => upload[Created(s, 1)] = "open"
  /\ client[s].pc = "parts" => Own(s, "open")
  /\ client[s].pc = "complete" =>
       /\ Answer(s) \in {"send", "error"} => Own(s, "open")
       /\ Answer(s) = "error" => Refusable(s)
  /\ client[s].pc = "cancel" =>
       /\ Refusable(s) /\ Answer(s) # "error"
       /\ Answer(s) = "send" => Own(s, "open")
  /\ client[s].result = "failure" =>
       client[s].pc = "done" /\ Refusable(s) /\ Own(s, "aborted")

CleanInv ==
  /\ OutcomeInv /\ CompletingIsWhole
  /\ \A s \in Sessions : faults[s] = 0 => CleanSession(s)

Quiet(s) == \A op \in Ops, n \in 1..MAX_RETRIES : ~InFlight(s, op, n)

LEMMA QuietWhenAnswered ==
  ASSUME NEW s \in Sessions, CleanSession(s),
         client[s].pc \in Ops => Answer(s) \notin {"send", "presign"}
  PROVE  Quiet(s)
BY DEF CleanSession, Quiet, InFlight, Answer, Pending

(* Nothing about the session has changed.                                  *)
LEMMA CleanUnmoved ==
  ASSUME NEW r \in Sessions, CleanSession(r), client'[r] = client[r],
         client[r].pc \in Ops => <<r, client[r].pc, client[r].try>> \in Calls,
         \A op \in Ops, n \in 1..MAX_RETRIES : call'[<<r, op, n>>] = call[<<r, op, n>>],
         \A u \in client[r].upload : upload'[u] = upload[u],
         upload'[Created(r, 1)] = upload[Created(r, 1)]
  PROVE  CleanSession(r)'
<1>1. Refusable(r)' <=> Refusable(r)
  BY DEF Refusable, File, Cut
<1>2. client[r].pc \in Ops => Answer(r)' = Answer(r)
  BY DEF Answer, Pending, Calls
<1>3. ASSUME NEW st PROVE Own(r, st)' <=> Own(r, st)
  BY DEF Own
<1>4. Created(r, 1)' = Created(r, 1)
  BY Numbers DEF Created, Ops
<1>5. \A op \in Ops, n \in 1..MAX_RETRIES : InFlight(r, op, n)' <=> InFlight(r, op, n)
  BY DEF InFlight
<1> QED BY <1>1, <1>2, <1>3, <1>4, <1>5 DEF CleanSession, Ops

-----------------------------------------------------------------------------
(* ... after a step of the uploader.                                       *)

LEMMA AskClean ==
  ASSUME TypeOK, UNCHANGED <<upload, object>>, NEW s \in Sessions, NEW op \in Ops,
         Ask(s, client[s], op, 1), CleanSession(s), Quiet(s),
         op # "create" => Own(s, "open"), op = "cancel" => Refusable(s),
         client[s].pc # "done"
  PROVE  CleanSession(s)'
<1>1. /\ client' = [client EXCEPT ![s] = [client[s] EXCEPT !.pc = op, !.try = 1]]
      /\ call' = [call EXCEPT ![<<s, op, 1>>].pc = "send"]
  BY DEF Ask
<1>2. client \in [Sessions -> ClientStates] /\ call \in [Calls -> CallStates]
  BY TypedIsTypeOK DEF Typed
<1>3. /\ client'[s].pc = op /\ client'[s].try = 1 /\ client'[s].upload = client[s].upload
      /\ client'[s].file = client[s].file /\ client'[s].result = client[s].result
  BY <1>1, <1>2 DEF ClientStates
<1>4. <<s, op, 1>> \in Calls /\ Pending(s)' = <<s, op, 1>>
  BY <1>3, Numbers, CallTyped DEF Pending
<1>5. Answer(s)' = "send"
  BY <1>1, <1>2, <1>4 DEF Answer, CallStates
<1>6. \A p \in Ops, n \in 1..MAX_RETRIES : InFlight(s, p, n)' => p = op /\ n = 1
  <2> SUFFICES ASSUME NEW p \in Ops, NEW n \in 1..MAX_RETRIES, <<s, p, n>> # <<s, op, 1>>
               PROVE  ~InFlight(s, p, n)'
    OBVIOUS
  <2>1. call'[<<s, p, n>>] = call[<<s, p, n>>]
    BY <1>1, <1>2, CallTyped
  <2> QED BY <2>1 DEF Quiet, InFlight
<1>7. (Refusable(s)' <=> Refusable(s)) /\ (Own(s, "open")' <=> Own(s, "open"))
      /\ (Own(s, "aborted")' <=> Own(s, "aborted"))
  BY <1>3 DEF Refusable, File, Cut, Own
<1> QED BY <1>3, <1>5, <1>6, <1>7 DEF CleanSession, Ops

LEMMA EndClean ==
  ASSUME TypeOK, UNCHANGED <<upload, object>>, NEW s \in Sessions,
         NEW result \in {"success", "failure"}, End(s, result), CleanSession(s), Quiet(s),
         result = "failure" => Refusable(s) /\ Own(s, "aborted")
  PROVE  CleanSession(s)'
<1>1. client' = [client EXCEPT ![s].pc = "done", ![s].result = result] /\ call' = call
  BY DEF End
<1>2. client \in [Sessions -> ClientStates]
  BY TypedIsTypeOK DEF Typed
<1>3. /\ client'[s].pc = "done" /\ client'[s].try = client[s].try
      /\ client'[s].upload = client[s].upload
      /\ client'[s].file = client[s].file /\ client'[s].result = result
  BY <1>1, <1>2 DEF ClientStates
<1>4. \A p \in Ops, n \in 1..MAX_RETRIES : ~InFlight(s, p, n)'
  BY <1>1 DEF Quiet, InFlight
<1>5. (Refusable(s)' <=> Refusable(s)) /\ (Own(s, "aborted")' <=> Own(s, "aborted"))
  BY <1>3 DEF Refusable, File, Cut, Own
<1> QED BY <1>3, <1>4, <1>5 DEF CleanSession, Ops

(* The create has been answered: the session has parts to upload.          *)
LEMMA CreatedClean ==
  ASSUME OutcomeInv, UNCHANGED <<upload, object>>, NEW s \in Sessions,
         client[s].pc = "create", Answer(s) = "ok", Success(s, Pending(s)), CleanSession(s)
  PROVE  CleanSession(s)'
<1> DEFINE up == {Created(s, 1)}
<1>1. Pending(s) = <<s, "create", 1>> /\ UploadOf(Pending(s)) = Created(s, 1)
  BY Numbers, CreatedTyped DEF Pending, OutcomeInv, CleanSession
<1>2. client' = [client EXCEPT ![s].pc = "parts", ![s].upload = up] /\ call' = call
  BY <1>1 DEF Success
<1>3. client \in [Sessions -> ClientStates]
  BY TypedIsTypeOK DEF Typed, OutcomeInv
<1>4. upload[Created(s, 1)] = "open"
  BY DEF CleanSession
<1>5. Quiet(s)
  BY QuietWhenAnswered
<1> HIDE DEF up
<1>6. /\ client'[s].pc = "parts" /\ client'[s].try = client[s].try
      /\ client'[s].upload = up /\ client'[s].result = client[s].result
  BY <1>2, <1>3 DEF ClientStates
<1>7. \A p \in Ops, n \in 1..MAX_RETRIES : ~InFlight(s, p, n)'
  BY <1>2, <1>5 DEF Quiet, InFlight
<1>8. Own(s, "open")'
  BY <1>4, <1>6 DEF Own, up
<1> QED BY <1>6, <1>7, <1>8 DEF CleanSession, Ops

LEMMA ClientKeepsClean ==
  ASSUME CleanInv, NEW s \in Sessions, upload_file(s) \/ Disconnected(s),
         faults'[s] = 0
  PROVE  CleanSession(s)'
<1>1. /\ UNCHANGED <<upload, object>>
      /\ TypeOK /\ Sound(s) /\ faults[s] \in Nat /\ faults[s] + 1 # 0
  BY TypedIsTypeOK DEF upload_file, initiate_upload, Answered, upload_part,
       complete_upload, Disconnected, CleanInv, OutcomeInv
<1>2. ASSUME NEW kind PROVE ~Fault(kind, s)
  BY <1>1, FaultCounts
<1>3. faults[s] = 0
  BY <1>2 DEF upload_file, initiate_upload, Answered, upload_part,
       complete_upload, Disconnected
<1>4. CleanSession(s)
  BY <1>3 DEF CleanInv
<1>5. CASE initiate_upload(s)
  <2>1. client[s].pc = "idle" /\ Ask(s, client[s], "create", 1)
    BY <1>5 DEF initiate_upload
  <2>2. Quiet(s)
    BY <1>4, <2>1, QuietWhenAnswered DEF Ops
  <2> QED BY <1>1, <1>4, <2>1, <2>2, AskClean DEF Ops
<1>6. CASE client[s].pc \in Ops /\ Answer(s) = "ok" /\ Success(s, Pending(s))
  <2>1. Quiet(s)
    BY <1>4, <1>6, QuietWhenAnswered
  <2>2. CASE client[s].pc = "create"
    BY <1>1, <1>4, <1>6, <2>2, CreatedClean DEF CleanInv
  <2>3. CASE client[s].pc = "complete"
    <3>1. End(s, "success")
      BY <1>6, <2>3 DEF Success, Pending
    <3> QED BY <1>1, <1>4, <2>1, <3>1, EndClean
  <2>4. CASE client[s].pc = "cancel"
    <3>1. End(s, "failure")
      BY <1>6, <2>4 DEF Success, Pending
    <3>2. Own(s, "aborted")
      BY <1>1, <1>6, <2>4, PhaseUpload DEF Sound, AnswersHold, Answer, Pending, Own, CleanInv
    <3>3. Refusable(s)
      BY <1>4, <2>4 DEF CleanSession
    <3> QED BY <1>1, <1>4, <2>1, <3>1, <3>2, <3>3, EndClean
  <2> QED BY <1>6, <2>2, <2>3, <2>4 DEF Ops
<1>7. CASE client[s].pc \in Ops /\ Answer(s) = "error" /\ Failure(s)
  <2>1. Quiet(s)
    BY <1>4, <1>7, QuietWhenAnswered
  <2>2. CASE client[s].pc = "create"
    <3>1. End(s, "failure") /\ client[s].upload = {} /\ Refusable(s)
      BY <1>4, <1>7, <2>2, PhaseUpload DEF Failure, CleanSession, CleanInv
    <3> QED BY <1>1, <1>4, <2>1, <3>1, EndClean DEF Own
  <2>3. CASE client[s].pc = "complete"
    <3>1. Ask(s, client[s], "cancel", 1) /\ Own(s, "open") /\ Refusable(s)
      BY <1>4, <1>7, <2>3 DEF Failure, CleanSession
    <3> QED BY <1>1, <1>4, <2>1, <2>3, <3>1, AskClean DEF Ops
  <2>4. client[s].pc # "cancel"
    BY <1>4, <1>7 DEF CleanSession
  <2> QED BY <1>7, <2>2, <2>3, <2>4 DEF Ops
<1>8. CASE client[s].pc = "parts" /\ client' = [client EXCEPT ![s].parts = @ + 1] /\ UNCHANGED call
  <2>1. client \in [Sessions -> ClientStates]
    BY <1>1, TypedIsTypeOK DEF Typed
  <2>2. /\ client'[s].pc = "parts" /\ client'[s].try = client[s].try
        /\ client'[s].upload = client[s].upload /\ client'[s].result = client[s].result
    BY <1>8, <2>1 DEF ClientStates
  <2>3. Quiet(s)
    BY <1>4, <1>8, QuietWhenAnswered DEF Ops
  <2>4. \A p \in Ops, n \in 1..MAX_RETRIES : ~InFlight(s, p, n)'
    BY <1>8, <2>3 DEF Quiet, InFlight
  <2>5. Own(s, "open")'
    BY <1>1, <1>4, <1>8, <2>2 DEF Own, CleanSession
  <2> QED BY <1>4, <1>8, <2>2, <2>4, <2>5 DEF CleanSession, Ops
<1>9. CASE complete_upload(s)
  <2>1. client[s].pc = "parts" /\ Ask(s, client[s], "complete", 1)
    BY <1>9 DEF complete_upload
  <2>2. Quiet(s) /\ Own(s, "open")
    BY <1>4, <2>1, QuietWhenAnswered DEF Ops, CleanSession
  <2> QED BY <1>1, <1>4, <2>1, <2>2, AskClean DEF Ops
<1>10. ~Disconnected(s)
  BY <1>2, <1>4 DEF Disconnected, CleanSession, Answer
<1> QED BY <1>2, <1>5, <1>6, <1>7, <1>8, <1>9, <1>10 DEF upload_file, Answered, upload_part, Answer

(* Another session's step leaves the calls of this one alone.              *)
LEMMA OthersUnmoved ==
  ASSUME OutcomeInv, NEW s \in Sessions, upload_file(s) \/ Disconnected(s),
         NEW r \in Sessions, r # s
  PROVE  /\ client'[r] = client[r] /\ faults'[r] = faults[r]
         /\ UNCHANGED <<upload, object>>
         /\ \A op \in Ops, n \in 1..MAX_RETRIES : call'[<<r, op, n>>] = call[<<r, op, n>>]
<1>1. /\ client \in [Sessions -> ClientStates] /\ call \in [Calls -> CallStates]
      /\ faults \in [Sessions -> Nat] /\ TypeOK
  BY TypedIsTypeOK DEF Typed, OutcomeInv
<1>2. UNCHANGED <<upload, object>>
  BY DEF upload_file, initiate_upload, Answered, upload_part, complete_upload, Disconnected
<1>3. faults' = faults \/ \E kind : Fault(kind, s)
  BY DEF upload_file, initiate_upload, Answered, upload_part, complete_upload, Disconnected
<1>4. faults'[r] = faults[r]
  BY <1>1, <1>3, FaultCounts
<1>5. \/ \E op, n : Ask(s, client[s], op, n)
      \/ \E result : End(s, result)
      \/ (\E cl : client' = [client EXCEPT ![s] = cl]) /\ UNCHANGED call
  <2>1. ASSUME Failure(s)
        PROVE  (\E op, n : Ask(s, client[s], op, n)) \/ \E result : End(s, result)
    BY <2>1, Zenon DEF Failure
  <2>2. ASSUME client[s].pc \in Ops, Success(s, Pending(s))
        PROVE  \/ \E result : End(s, result)
               \/ (\E cl : client' = [client EXCEPT ![s] = cl]) /\ UNCHANGED call
    <3>1. Pending(s)[2] \in Ops
      BY <2>2 DEF Pending
    <3> QED BY <2>2, <3>1, Zenon DEF Success, Ops
  <2>3. ASSUME upload_part(s), ~Failure(s)
        PROVE  (\E cl : client' = [client EXCEPT ![s] = cl]) /\ UNCHANGED call
    BY <2>3, Zenon DEF upload_part
  <2>4. ASSUME initiate_upload(s) \/ complete_upload(s) \/ (Disconnected(s) /\ ~Failure(s))
        PROVE  \E op, n : Ask(s, client[s], op, n)
    BY <2>4, Zenon DEF initiate_upload, complete_upload, Disconnected
  <2> QED BY <2>1, <2>2, <2>3, <2>4 DEF upload_file, Answered
<1>6. CASE \E op, n : Ask(s, client[s], op, n)
  <2>1. PICK op, n : Ask(s, client[s], op, n)
    BY <1>6
  <2>2. client'[r] = client[r]
    BY <1>1, <2>1 DEF Ask
  <2>3. ASSUME NEW p \in Ops, NEW m \in 1..MAX_RETRIES
        PROVE  call'[<<r, p, m>>] = call[<<r, p, m>>]
    <3>1. <<r, p, m>> \in Calls /\ <<r, p, m>> # <<s, op, n>>
      BY <1>1, CallTyped
    <3> QED BY <1>1, <2>1, <3>1 DEF Ask
  <2> QED BY <1>2, <1>4, <2>2, <2>3
<1>7. CASE \E result : End(s, result)
  BY <1>1, <1>2, <1>4, <1>7 DEF End
<1>8. CASE (\E cl : client' = [client EXCEPT ![s] = cl]) /\ UNCHANGED call
  BY <1>1, <1>2, <1>4, <1>8
<1> QED BY <1>5, <1>6, <1>7, <1>8

-----------------------------------------------------------------------------
(* ... after a step of a handler.                                          *)

(* A command answers for the uploads of its own session only.              *)
LEMMA OtherUploadsStay ==
  ASSUME OutcomeInv, NEW c \in Calls, Finishes(c), NEW s \in Sessions, s # c[1]
  PROVE  /\ \A u \in client[s].upload : upload'[u] = upload[u]
         /\ upload'[Created(s, 1)] = upload[Created(s, 1)]
<1>1. \A u \in client[s].upload : upload'[u] = upload[u]
  BY DEF Finishes
<1>2. Created(s, 1) \in UploadIds /\ Created(s, 1)[1] = s
  BY Numbers, CreatedTyped DEF OutcomeInv, Created
<1>3. ASSUME c[2] = "create" PROVE UploadOf(c)[1] = c[1]
  BY <1>3 DEF UploadOf
<1>4. \A u \in client[c[1]].upload : u[1] = c[1]
  BY CallParts, OwnNamesSession DEF OutcomeInv, Sound
<1> QED BY <1>1, <1>2, <1>3, <1>4 DEF Finishes

(* Only an empty file has nothing to upload from the start.                *)
LEMMA NoPartsNoContent ==
  ASSUME TypeOK, NEW s \in Sessions, client[s].parts = 0, ~MoreParts(s)
  PROVE  File(s).size = 0
<1>1. File(s).size \in Nat
  BY Assumption, TypedIsTypeOK DEF Typed, ClientStates, File
<1> DEFINE num == Cut(s).num_parts
           chunk == Cut(s).chunk_size
<1>2. num \in Nat /\ chunk \in Nat /\ File(s).size <= num * chunk
  BY <1>1, PartsCoverFile DEF Cut
<1>3. ~(0 < num) \/ ~(0 * chunk < File(s).size)
  BY DEF MoreParts
<1> HIDE DEF num, chunk
<1>4. 0 * chunk = 0 /\ (num = 0 => num * chunk = 0)
  BY <1>2
<1> QED BY <1>1, <1>2, <1>3, <1>4

LEMMA HandlerKeepsClean ==
  ASSUME PlainNames, CleanInv, NEW c \in Calls, HandlerMoves(c),
         NEW s \in Sessions, faults'[s] = 0
  PROVE  CleanSession(s)'
<1>1. /\ TypeOK /\ OutcomeInv /\ client' = client /\ CompletingIsWhole
      /\ \A d \in Calls \ {c} : call'[d] = call[d]
      /\ call[c].pc \in {"send", "presign"}
  BY DEF CleanInv, OutcomeInv, HandlerMoves
<1>2. faults[s] \in Nat /\ faults[s] + 1 # 0
  BY <1>1, TypedIsTypeOK
<1>3. faults[s] = 0
  BY <1>2 DEF HandlerMoves
<1>4. CleanSession(s)
  BY <1>3 DEF CleanInv
<1>5. (call[c].pc = "send" /\ Finishes(c)) \/ UNCHANGED <<upload, object>>
  BY <1>1, ExecuteFinishes DEF HandlerMoves
<1>6. CASE s # c[1]
  <2>1. \A op \in Ops, n \in 1..MAX_RETRIES : call'[<<s, op, n>>] = call[<<s, op, n>>]
    BY <1>1, <1>6, CallTyped
  <2>2. /\ \A u \in client[s].upload : upload'[u] = upload[u]
        /\ upload'[Created(s, 1)] = upload[Created(s, 1)]
    BY <1>1, <1>5, <1>6, OtherUploadsStay
  <2>3. client[s].pc \in Ops => <<s, client[s].pc, client[s].try>> \in Calls
    BY <1>1, PhaseUpload, CallTyped
  <2> QED BY <1>1, <1>4, <2>1, <2>2, <2>3, CleanUnmoved
<1>7. CASE s = c[1]
  <2>1. /\ c[2] \in Ops /\ c[3] \in 1..MAX_RETRIES /\ c = <<s, c[2], c[3]>>
        /\ call[c] \in CallStates
    BY <1>1, <1>7, CallParts, TypedIsTypeOK DEF Typed
  <2>2. client[s].pc = c[2] /\ c[3] = 1 /\ c = Pending(s) /\ client[s].try = 1
    BY <1>1, <1>4, <2>1 DEF CleanSession, InFlight, Pending
  <2>3. /\ Answer(s) = call[c].pc /\ Answer(s)' = call'[c].pc
        /\ client'[s] = client[s]
    BY <1>1, <2>2 DEF Answer, Pending
  <2>4. \A p \in Ops, n \in 1..MAX_RETRIES : InFlight(s, p, n)' => p = client[s].pc /\ n = 1
    <3> SUFFICES ASSUME NEW p \in Ops, NEW n \in 1..MAX_RETRIES, <<s, p, n>> # c
                 PROVE  InFlight(s, p, n)' => InFlight(s, p, n)
      BY <1>4, <2>1, <2>2 DEF CleanSession
    <3>1. call'[<<s, p, n>>] = call[<<s, p, n>>]
      BY <1>1, CallTyped
    <3> QED BY <3>1 DEF InFlight
  <2>5. (Refusable(s)' <=> Refusable(s)) /\ client[s].result # "failure"
        /\ client[s].pc \in Ops
    BY <1>1, <1>4, <2>1, <2>2 DEF Refusable, File, Cut, CleanSession, Ops
  <2>6. CASE c[2] = "create"
    <3>1. UploadOf(c) = Created(s, 1)
      BY <1>1, <2>1, <2>2, <2>6, CreatedTyped
    <3>2. ASSUME call'[c].attempt = call[c].attempt
          PROVE  Created(s, 1)' = Created(s, 1)
      BY <2>1, <2>2, <2>6, <3>2 DEF Created
    <3>3. CASE /\ call[c].pc = "send" /\ Execute(c)
               /\ call'[c] = [call[c] EXCEPT !.pc = AfterCommand(c)]
      <4>1. upload'[UploadOf(c)] = "open"
        BY <1>1, <2>6, <3>3, ExecuteFinishes DEF Finishes
      <4>2. /\ call'[c].pc = AfterCommand(c) /\ Created(s, 1)' = Created(s, 1)
            /\ AfterCommand(c) \in {"error", "presign"}
            /\ AfterCommand(c) = "error" => Refusable(s)
        BY <1>7, <2>1, <2>6, <3>2, <3>3 DEF CallStates, AfterCommand, Refusable
      <4> QED BY <1>4, <2>2, <2>3, <2>4, <2>5, <2>6, <3>1, <4>1, <4>2 DEF CleanSession
    <3>4. CASE /\ call[c].pc = "presign" /\ call'[c] = [call[c] EXCEPT !.pc = "ok"]
               /\ UNCHANGED <<upload, object>>
      <4>1. call'[c].pc = "ok" /\ Created(s, 1)' = Created(s, 1)
        BY <2>1, <3>2, <3>4 DEF CallStates
      <4> QED BY <1>4, <2>2, <2>3, <2>4, <2>5, <2>6, <3>4, <4>1 DEF CleanSession
    <3>5. CASE /\ call[c].pc = "send" /\ Refused(c)
               /\ call'[c] = [call[c] EXCEPT !.pc = "error"]
      <4>1. call'[c].pc = "error" /\ Created(s, 1)' = Created(s, 1)
        BY <2>1, <3>2, <3>5 DEF CallStates
      <4>2. Refusable(s)
        BY <1>7, <2>6, <3>5 DEF Refused, Rejected, Refusable
      <4> QED BY <1>4, <2>2, <2>3, <2>4, <2>5, <2>6, <4>1, <4>2 DEF CleanSession
    <3> QED BY <1>2, <1>3, <1>7, <2>6, <3>3, <3>4, <3>5 DEF HandlerMoves
  <2>7. CASE c[2] # "create"
    <3>1. client[s].upload # {} /\ call[c].pc = "send"
      BY <1>1, <2>1, <2>7 DEF OutcomeInv, Sound, LaterCalls, Ops
    <3>2. PICK u \in client[s].upload : TRUE
      BY <3>1
    <3>3. UploadOf(c) = u /\ client[s].upload = {u}
      <4>1. OwnUpload(s)
        BY <1>1 DEF OutcomeInv, Sound
      <4>2. client[s].upload = {u}
        BY <1>1, <3>2, <4>1, OwnIsOne
      <4> QED BY <1>7, <2>7, <4>2, UploadOfOwn
    <3>4. Own(s, "open")
      BY <1>4, <2>1, <2>2, <2>3, <2>7, <3>1 DEF CleanSession, Ops
    <3>5. Known(c)
      <4>1. File(s) \in Files /\ File(s).depth = 0
        BY <1>1, TypedIsTypeOK DEF PlainNames, Typed, ClientStates, File
      <4> QED BY <1>7, <3>3, <3>4, <4>1 DEF Known, Own, normalizeKey, normalizeFileKey
    <3>6. CASE call'[c] = [call[c] EXCEPT !.pc = AfterCommand(c)]
      <4>1. call'[c].pc = "ok"
        BY <2>1, <2>7, <3>6 DEF CallStates, AfterCommand
      <4>2. client'[s].pc \in {"complete", "cancel"} /\ client'[s].try = 1
        BY <2>1, <2>2, <2>3, <2>7 DEF Ops
      <4>3. client'[s].pc = "cancel" => Refusable(s)'
        BY <1>4, <2>3, <2>5 DEF CleanSession
      <4> QED BY <2>3, <2>4, <2>5, <4>1, <4>2, <4>3 DEF CleanSession
    <3>7. CASE /\ Refused(c) /\ call'[c] = [call[c] EXCEPT !.pc = "error"]
               /\ UNCHANGED <<upload, object>>
      <4>1. call'[c].pc = "error" /\ Own(s, "open")'
        BY <1>1, <2>1, <3>4, <3>7 DEF CallStates, Own
      <4>2. c[2] = "complete" /\ client[s].parts = 0
        BY <1>7, <2>7, <3>5, <3>7 DEF Refused, Rejected
      <4>3. ~MoreParts(s)
        BY <1>1, <2>2, <4>2 DEF CompletingIsWhole, Completing
      <4>4. Refusable(s)
        BY <1>1, <4>2, <4>3, NoPartsNoContent DEF Refusable
      <4> QED BY <1>4, <2>2, <2>3, <2>4, <2>5, <4>1, <4>2, <4>4 DEF CleanSession
    <3> QED BY <1>2, <1>3, <1>7, <3>1, <3>6, <3>7 DEF HandlerMoves
  <2> QED BY <2>6, <2>7
<1> QED BY <1>6, <1>7

-----------------------------------------------------------------------------
LEMMA CleanStep ==
  ASSUME PlainNames
  PROVE  CleanInv /\ [Next]_vars => CleanInv'
<1> SUFFICES ASSUME CleanInv, [Next]_vars PROVE CleanInv'
  OBVIOUS
<1>1. TypeOK /\ OutcomeInv /\ OutcomeInv' /\ CompletingIsWhole
  BY OutcomeStep DEF CleanInv, OutcomeInv
<1>2. ASSUME NEW s \in Sessions, upload_file(s) \/ Disconnected(s)
      PROVE  CleanInv'
  <2>1. CompletingIsWhole'
    BY <1>1, <1>2, ClientAdvances, AdvanceKeepsWhole
  <2>2. ASSUME NEW r \in Sessions, faults'[r] = 0, r # s
        PROVE  CleanSession(r)'
    <3>1. /\ client'[r] = client[r] /\ faults'[r] = faults[r]
          /\ UNCHANGED <<upload, object>>
          /\ \A op \in Ops, n \in 1..MAX_RETRIES : call'[<<r, op, n>>] = call[<<r, op, n>>]
      BY <1>1, <1>2, <2>2, OthersUnmoved
    <3>2. CleanSession(r)
      BY <2>2, <3>1 DEF CleanInv
    <3>3. client[r].pc \in Ops => <<r, client[r].pc, client[r].try>> \in Calls
      BY <1>1, PhaseUpload, CallTyped
    <3> QED BY <3>1, <3>2, <3>3, CleanUnmoved
  <2>3. faults'[s] = 0 => CleanSession(s)'
    BY <1>2, ClientKeepsClean
  <2> QED BY <1>1, <2>1, <2>2, <2>3 DEF CleanInv
<1>3. ASSUME NEW c \in Calls, Handle(c) \/ ApiCrash(c)
      PROVE  CleanInv'
  <2>1. CompletingIsWhole'
    BY <1>1, <1>3, HandlerKeepsWhole
  <2>2. HandlerMoves(c)
    BY <1>1, <1>3, HandlerOutcome
  <2> QED BY <1>1, <2>1, <2>2, HandlerKeepsClean DEF CleanInv
<1>4. CASE UNCHANGED vars
  <2>1. /\ client' = client /\ call' = call /\ faults' = faults
        /\ UNCHANGED <<upload, object>>
    BY <1>4 DEF vars
  <2>2. CompletingIsWhole'
    BY <1>1, <2>1 DEF CompletingIsWhole, Completing, MoreParts, Cut, File
  <2>3. ASSUME NEW r \in Sessions, faults'[r] = 0
        PROVE  CleanSession(r)'
    <3>1. CleanSession(r)
      BY <2>1, <2>3 DEF CleanInv
    <3>2. client[r].pc \in Ops => <<r, client[r].pc, client[r].try>> \in Calls
      BY <1>1, PhaseUpload, CallTyped
    <3> QED BY <2>1, <3>1, <3>2, CleanUnmoved
  <2> QED BY <1>1, <2>2, <2>3 DEF CleanInv
<1> QED BY <1>2, <1>3, <1>4 DEF Next

LEMMA InitClean == Init => CleanInv
<1> SUFFICES ASSUME Init PROVE CleanInv
  OBVIOUS
<1>1. OutcomeInv /\ TypeOK
  BY InitOutcome DEF OutcomeInv
<1>2. \A s \in Sessions, op \in Ops, n \in 1..MAX_RETRIES : call[<<s, op, n>>].pc = "none"
  BY <1>1, CallTyped DEF Init, NewCall
<1>3. \A s \in Sessions :
        client[s].pc = "idle" /\ client[s].try = 1 /\ client[s].result = "none"
  BY DEF Init, NewClient
<1>4. \A s \in Sessions : CleanSession(s)
  BY <1>2, <1>3 DEF CleanSession, InFlight, Ops
<1>5. CompletingIsWhole
  BY <1>2, <1>3 DEF CompletingIsWhole, Completing, Ops
<1> QED BY <1>1, <1>4, <1>5 DEF CleanInv

THEOREM CleanInvariant ==
  ASSUME PlainNames
  PROVE  Spec => []CleanInv
<1>1. CleanInv /\ [Next]_vars => CleanInv'
  BY CleanStep
<1> QED BY <1>1, InitClean, PTL DEF Spec

(* An upload_file that fails though none of its requests met a failure     *)
(* has cancelled its upload: no open upload is left behind in S3. The      *)
(* files' names are plain, which the run MU_names shows to be needed.      *)
THEOREM FailuresCleanUp ==
  ASSUME PlainNames
  PROVE  Spec => []FailureIsCancelled
<1>1. CleanInv => FailureIsCancelled
  BY DEF CleanInv, CleanSession, Own, FailureIsCancelled
<1> QED BY <1>1, CleanInvariant, PTL

(* Without a failure the uploader, the API and S3 refuse only an empty     *)
(* file, one of more parts than the API allows, and one whose type is not  *)
(* on its list.                                                            *)
THEOREM CleanUploadsSucceed ==
  ASSUME PlainNames
  PROVE  Spec => []CleanSucceeds
<1>1. CleanInv => CleanSucceeds
  BY DEF CleanInv, CleanSession, Refusable, CleanSucceeds
<1> QED BY <1>1, CleanInvariant, PTL

=============================================================================
