---------------------------- MODULE ServerProofs ----------------------------
(***************************************************************************)
(* Proofs about ServerProcess: the Redis client and the audit pipeline     *)
(* change their own variables only, so that each has an inductive          *)
(* invariant of its own, which a step of the other leaves alone.           *)
(***************************************************************************)
EXTENDS ServerProcess, FiniteSetTheorems, TLAPS

(* What happens to the Redis client, and to the audit pipeline, whatever   *)
(* the state of the process.                                               *)
RedisMove ==
  \/ \E t \in Callers : GetClient(t) \/ Waited(t) \/ ClientStep(t)
  \/ RedisGoesDown \/ RedisComesUp \/ Disconnect \/ Disconnected

AuditMove ==
  \/ \E p \in Publishers : Arrive(p)
  \/ \E o \in Openers :
       PublisherStep(o) \/ DialFails(o) \/ Goodbye(o) \/ ChannelClosed(o)

-----------------------------------------------------------------------------
(* The singleton connects for one caller at a time, and, until shutdown,   *)
(* with the client in its field, open since connect() was called.          *)
ConnectingInv ==
  \A c \in Callers : caller[c].pc = "connecting" =>
    /\ isConnecting
    /\ \A d \in Callers : caller[d].pc = "connecting" => c = d
    /\ closing.pc = "idle" => client = c /\ conn[c].open

RedisInv == RedisTypeOK /\ OneOpenClient /\ ConnectingInv /\ GotIsOpen

-----------------------------------------------------------------------------
(* How far a connection is, by where its opener is.                        *)
ConnByPc ==
  \A o \in Openers :
    /\ publisher[o].pc \in {"idle", "serving", "queued", "described"} =>
         o # Boot /\ amqp[o].conn = "none" /\ amqp[o].chan = "none"
    /\ publisher[o].pc = "connecting" =>
         amqp[o].conn = "dialing" /\ amqp[o].chan = "none"
    /\ publisher[o].pc = "opening" =>
         \/ amqp[o].conn = "open" /\ amqp[o].chan = "opening"
         \/ amqp[o].conn = "closed" /\ amqp[o].chan = "closed"
    /\ amqp[o].chan \in {"opening", "open"} => amqp[o].conn = "open"

(* Who dialled at all: each overlap is the one dial of a publisher.        *)
Dialers == {p \in Publishers : amqp[p].conn # "none"}

OverlapsAreDials == overlaps \in Nat /\ overlaps <= Cardinality(Dialers)

(* The connections that are open or about to be. One of them is the one    *)
(* in use or being opened; the others were leaked.                         *)
Held == {o \in Openers : amqp[o].conn = "open" \/ Connecting(o)}

OneInUse ==
  IF Usable \/ \E o \in Openers : Connecting(o) THEN 1 ELSE 0

HeldIsCounted == Cardinality(Held) <= OneInUse + overlaps + mishaps.channel

AuditFields ==
  /\ configured \in BOOLEAN /\ isConnected \in BOOLEAN
  /\ connection \in Openers \cup {NoConn} /\ channel \in Openers \cup {NoConn}
  /\ amqp \in [Openers -> Amqp]
  /\ publisher \in [Openers -> Publisher]
  /\ mishaps \in [{"dial", "drop", "channel"} -> 0..MaxMishaps]

AuditInv ==
  /\ AuditFields /\ ConnByPc /\ ConnectedMeansOpen
  /\ OverlapsAreDials /\ HeldIsCounted

-----------------------------------------------------------------------------
(* A step of the process is a step of at most one of its components.       *)

LEMMA ComponentMoves ==
  ASSUME [Next]_vars
  PROVE  /\ RedisMove \/ UNCHANGED redisVars
         /\ AuditMove \/ UNCHANGED auditVars
<1>1. CASE Startup
  BY <1>1, ServerAssumption DEF Startup, Redis, RedisMove
<1>2. CASE Outage
  BY <1>2 DEF Outage, Redis, RedisMove
<1>3. CASE Sigterm \/ HandlerResumes
  BY <1>3 DEF Sigterm, HandlerResumes, Redis, RedisMove
<1>4. CASE ServerClosed \/ ForceClose
  BY <1>4 DEF ServerClosed, ForceClose
<1>5. ASSUME NEW t \in Callers, RedisRequest(t) \/ Waiting(t) \/ Connects(t)
      PROVE  RedisMove /\ UNCHANGED auditVars
  BY <1>5 DEF RedisRequest, Waiting, Connects, WaitOver, WaitTimeout, Redis,
              RedisMove
<1>6. ASSUME NEW p \in Publishers, AuditedRequest(p)
      PROVE  AuditMove /\ UNCHANGED redisVars
  BY <1>6 DEF AuditedRequest, Audit, AuditMove
<1>7. ASSUME NEW o \in Openers,
             Publishes(o) \/ BrokerTrouble(o) \/ UncaughtException(o)
      PROVE  AuditMove /\ UNCHANGED redisVars
  BY <1>7 DEF Publishes, BrokerTrouble, UncaughtException, Audit, AuditMove,
              Drop, DropUnheard
<1>8. CASE UNCHANGED vars
  BY <1>8 DEF vars
<1> QED
  BY <1>1, <1>2, <1>3, <1>4, <1>5, <1>6, <1>7, <1>8 DEF Next

-----------------------------------------------------------------------------
(* The Redis client                                                        *)

LEMMA RedisTypeInit == ASSUME RedisInit PROVE RedisTypeOK
<1>1. [open |-> FALSE, retries |-> 0, phase |-> "none", quit |-> "none"] \in Conn
  BY RedisAssumption DEF Conn
<1>2. [pc |-> "idle", got |-> NoClient, wasOpen |-> FALSE] \in Caller
  BY DEF Caller
<1>3. 0 \in 0..MaxOutages
  BY RedisAssumption
<1> QED
  BY <1>1, <1>2, <1>3 DEF RedisInit, RedisTypeOK

LEMMA SettleType ==
  ASSUME RedisTypeOK, NEW c \in Callers, NEW ok \in BOOLEAN, Settle(c, ok),
         UNCHANGED client, conn' \in [Callers -> Conn]
  PROVE  isConnecting' \in BOOLEAN /\ caller' \in [Callers -> Caller]
<1>1. IsOpen(client)' \in BOOLEAN
  BY DEF IsOpen, RedisTypeOK, Conn
<1>2. Got(client)' \in Caller
  BY <1>1 DEF Got, Caller, RedisTypeOK
<1>3. Failed \in Caller
  BY DEF Failed, Caller
<1> QED
  BY <1>2, <1>3 DEF Settle, RedisTypeOK

LEMMA ClientStepType ==
  ASSUME RedisTypeOK, NEW c \in Callers, ClientStep(c)
  PROVE  RedisTypeOK'
<1> conn[c] \in Conn
  BY DEF RedisTypeOK
<1>1. CASE AttemptSucceeds(c)
  <2>1. conn' \in [Callers -> Conn]
    BY <1>1 DEF AttemptSucceeds, RedisTypeOK, Conn
  <2> QED
    BY <1>1, <2>1, SettleType DEF AttemptSucceeds, RedisTypeOK
<1>2. CASE AttemptFails(c)
  <2>1. conn[c].retries + 1 \in 0..MaxRetries + 1
    BY <1>2, RedisAssumption DEF AttemptFails, GivesUp, Conn
  <2>2. (IF conn[c].open THEN conn[c].quit ELSE Rejected(conn[c].quit))
          \in {"none", "queued", "replied", "rejected"}
    BY DEF Rejected, Conn
  <2>3. conn' \in [Callers -> Conn]
    BY <1>2, <2>1, <2>2 DEF AttemptFails, RedisTypeOK, Conn
  <2> QED
    BY <1>2, <2>3 DEF AttemptFails, RedisTypeOK
<1>3. CASE GiveUp(c)
  <2>1. Rejected(conn[c].quit) \in {"none", "queued", "replied", "rejected"}
    BY DEF Rejected, Conn
  <2>2. conn' \in [Callers -> Conn]
    BY <1>3, <2>1 DEF GiveUp, RedisTypeOK, Conn
  <2> QED
    BY <1>3, <2>2, SettleType DEF GiveUp, RedisTypeOK
<1>4. CASE RetryOrEnd(c)
  <2>1. conn' \in [Callers -> Conn]
    BY <1>4 DEF RetryOrEnd, RedisTypeOK, Conn
  <2> QED
    BY <1>4, <2>1, SettleType DEF RetryOrEnd, RedisTypeOK
<1>5. CASE LoseConnection(c)
  <2>1. Rejected(conn[c].quit) \in {"none", "queued", "replied", "rejected"}
    BY DEF Rejected, Conn
  <2>2. 0 \in 0..MaxRetries + 1
    BY RedisAssumption
  <2>3. CASE conn[c].open
    BY <1>5, <2>2, <2>3 DEF LoseConnection, RedisTypeOK, Conn
  <2>4. CASE ~conn[c].open
    BY <1>5, <2>1, <2>4 DEF LoseConnection, RedisTypeOK, Conn
  <2> QED
    BY <1>5, <2>3, <2>4 DEF LoseConnection, RedisTypeOK
<1>6. CASE QuitReply(c)
  <2>1. conn' \in [Callers -> Conn]
    BY <1>6 DEF QuitReply, RedisTypeOK, Conn
  <2> QED
    BY <1>6, <2>1 DEF QuitReply, RedisTypeOK
<1> QED
  BY <1>1, <1>2, <1>3, <1>4, <1>5, <1>6 DEF ClientStep

LEMMA RedisTypeNext == ASSUME RedisTypeOK, RedisMove PROVE RedisTypeOK'
<1>1. IsOpen(client) \in BOOLEAN
  BY DEF IsOpen, RedisTypeOK, Conn
<1>2. Got(client) \in Caller /\ Failed \in Caller
  BY <1>1 DEF Got, Failed, Caller, RedisTypeOK
<1>3. ASSUME NEW t \in Callers, GetClient(t) PROVE RedisTypeOK'
  <2>1. NewClient \in Conn
    BY RedisAssumption DEF NewClient, Conn
  <2>2. \A pc \in {"waiting", "connecting"} :
          [caller[t] EXCEPT !.pc = pc] \in Caller
    BY DEF Caller, RedisTypeOK
  <2>3. CASE ReturnOpen(t)
    BY <2>3, <1>2 DEF ReturnOpen, RedisTypeOK
  <2>4. CASE WaitForConnection(t)
    BY <2>4, <2>2 DEF WaitForConnection, RedisTypeOK
  <2>5. CASE Connect(t)
    BY <2>5, <2>1, <2>2 DEF Connect, RedisTypeOK
  <2> QED
    BY <1>3, <2>3, <2>4, <2>5 DEF GetClient
<1>4. ASSUME NEW t \in Callers, Waited(t) PROVE RedisTypeOK'
  BY <1>2, <1>4 DEF Waited, RedisTypeOK
<1>5. CASE RedisGoesDown \/ RedisComesUp
  <2>1. outages' \in 0..MaxOutages
    BY <1>5, RedisAssumption DEF RedisGoesDown, RedisComesUp, RedisTypeOK
  <2>2. redisUp' \in BOOLEAN
    BY <1>5, Zenon DEF RedisGoesDown, RedisComesUp, RedisTypeOK
  <2> QED
    BY <1>5, <2>1, <2>2 DEF RedisGoesDown, RedisComesUp, RedisTypeOK
<1>6. CASE Disconnect
  <2>1. conn' \in [Callers -> Conn]
    BY ZenonT(60), <1>6 DEF Disconnect, RedisTypeOK, Conn
  <2> QED
    BY <1>6, <2>1 DEF Disconnect, RedisTypeOK
<1>7. CASE Disconnected
  BY <1>7 DEF Disconnected, RedisTypeOK
<1> QED
  BY <1>3, <1>4, <1>5, <1>6, <1>7, ClientStepType DEF RedisMove

(* Only Connect opens a client, and only GiveUp and Disconnect close one.  *)
LEMMA OpenMoves ==
  ASSUME RedisTypeOK, RedisMove, NEW c \in Callers
  PROVE  /\ conn'[c].open => conn[c].open \/ Connect(c)
         /\ conn[c].open => conn'[c].open \/ GiveUp(c) \/ Disconnect
<1>1. ASSUME NEW d \in Callers, ClientStep(d), ~GiveUp(d)
      PROVE  conn'[c].open = conn[c].open
  <2>1. conn \in [Callers -> Conn] /\ conn[d] \in Conn
    BY DEF RedisTypeOK
  <2>2. CASE AttemptSucceeds(d)
    BY <2>1, <2>2 DEF AttemptSucceeds, Conn
  <2>5. CASE RetryOrEnd(d)
    BY <2>1, <2>5 DEF RetryOrEnd, Conn
  <2>6. CASE QuitReply(d)
    BY <2>1, <2>6 DEF QuitReply, Conn
  <2>3. CASE AttemptFails(d)
    BY <2>1, <2>3 DEF AttemptFails, Conn
  <2>4. CASE LoseConnection(d)
    BY <2>1, <2>4 DEF LoseConnection, Conn
  <2> QED
    BY <1>1, <2>2, <2>3, <2>4, <2>5, <2>6 DEF ClientStep
<1>2. ASSUME NEW d \in Callers, GiveUp(d)
      PROVE  conn'[c].open = IF c = d THEN FALSE ELSE conn[c].open
  BY <1>2 DEF GiveUp, RedisTypeOK, Conn
<1>3. ASSUME NEW d \in Callers, Connect(d)
      PROVE  conn'[c].open = IF c = d THEN TRUE ELSE conn[c].open
  BY <1>3 DEF Connect, NewClient, RedisTypeOK, Conn
<1>4. ASSUME NEW d \in Callers,
             ReturnOpen(d) \/ WaitForConnection(d) \/ Waited(d)
      PROVE  conn'[c].open = conn[c].open
  BY <1>4 DEF ReturnOpen, WaitForConnection, Waited
<1>5. CASE RedisGoesDown \/ RedisComesUp \/ Disconnected
  BY <1>5 DEF RedisGoesDown, RedisComesUp, Disconnected
<1>6. CASE Disconnect
  BY <1>6 DEF Disconnect, RedisTypeOK, Conn
<1> QED
  BY <1>1, <1>2, <1>3, <1>4, <1>5, <1>6 DEF RedisMove, GetClient

(* Until shutdown the field client changes with Connect only.              *)
LEMMA ClientMoves ==
  ASSUME RedisTypeOK, RedisMove, closing'.pc = "idle"
  PROVE  /\ closing.pc = "idle"
         /\ client' = client \/ \E t \in Callers : Connect(t)
<1>1. ASSUME NEW t \in Callers, GetClient(t) \/ Waited(t) \/ ClientStep(t)
      PROVE  closing' = closing /\ (client' = client \/ Connect(t))
  BY <1>1 DEF GetClient, ReturnOpen, WaitForConnection, Connect, Waited,
              ClientStep, AttemptSucceeds, AttemptFails, GiveUp, RetryOrEnd,
              LoseConnection, QuitReply
<1>2. CASE RedisGoesDown \/ RedisComesUp
  BY <1>2 DEF RedisGoesDown, RedisComesUp
<1>3. ~Disconnect
  BY DEF Disconnect
<1>4. ~Disconnected
  BY DEF Disconnected, RedisTypeOK
<1> QED
  BY <1>1, <1>2, <1>3, <1>4 DEF RedisMove

LEMMA OneOpenNext ==
  ASSUME RedisTypeOK, OneOpenClient, RedisMove
  PROVE  OneOpenClient'
<1> SUFFICES ASSUME closing'.pc = "idle", NEW c \in Callers, conn'[c].open
             PROVE  client' = c
  BY DEF OneOpenClient
<1>1. closing.pc = "idle"
  BY ClientMoves
<1>2. CASE Connect(c)
  BY <1>2 DEF Connect
<1>3. ASSUME NEW t \in Callers, Connect(t), conn[c].open
      PROVE  client' = c
  BY <1>1, <1>3, RedisAssumption
     DEF Connect, IsOpen, OneOpenClient, RedisTypeOK
<1>4. CASE client' = client /\ conn[c].open
  BY <1>1, <1>4 DEF OneOpenClient
<1> QED
  BY <1>2, <1>3, <1>4, OpenMoves, ClientMoves

(* A call changes by its own step, by the wait of its caller, or when the  *)
(* client it made settles.                                                 *)
LEMMA CallerMoves ==
  ASSUME RedisTypeOK, RedisMove, NEW t \in Callers
  PROVE  \/ caller'[t] = caller[t]
         \/ ReturnOpen(t) \/ WaitForConnection(t) \/ Connect(t) \/ Waited(t)
         \/ AttemptSucceeds(t) \/ GiveUp(t) \/ RetryOrEnd(t)
<1>1. ASSUME NEW d \in Callers, d # t, GetClient(d) \/ Waited(d)
      PROVE  caller'[t] = caller[t]
  BY <1>1 DEF GetClient, ReturnOpen, WaitForConnection, Connect, Waited,
              RedisTypeOK
<1>2. ASSUME NEW d \in Callers, d # t, ClientStep(d)
      PROVE  caller'[t] = caller[t]
  BY <1>2 DEF ClientStep, AttemptSucceeds, AttemptFails, GiveUp, RetryOrEnd,
              LoseConnection, QuitReply, Settle, RedisTypeOK
<1>3. CASE AttemptFails(t) \/ LoseConnection(t) \/ QuitReply(t)
  BY <1>3 DEF AttemptFails, LoseConnection, QuitReply
<1>4. CASE RedisGoesDown \/ RedisComesUp \/ Disconnect \/ Disconnected
  BY <1>4 DEF RedisGoesDown, RedisComesUp, Disconnect, Disconnected
<1> QED
  BY <1>1, <1>2, <1>3, <1>4 DEF RedisMove, GetClient, ClientStep

(* A client that settles ends the call of its creator, and only that one.  *)
Settles(c) ==
  AttemptSucceeds(c) \/ GiveUp(c) \/ (RetryOrEnd(c) /\ ~conn[c].open)

LEMMA SettledCaller ==
  ASSUME RedisTypeOK, NEW t \in Callers, Settles(t)
  PROVE  /\ caller[t].pc = "connecting" =>
              /\ ~isConnecting'
              /\ \/ caller'[t].pc = "got" /\ caller'[t].wasOpen = IsOpen(client)'
                 \/ caller'[t].pc = "failed"
         /\ caller[t].pc # "connecting" =>
              isConnecting' = isConnecting /\ caller' = caller
<1>1. CASE AttemptSucceeds(t)
  BY <1>1 DEF AttemptSucceeds, Settle, Got, RedisTypeOK
<1>2. CASE GiveUp(t)
  BY <1>2 DEF GiveUp, Settle, Failed, RedisTypeOK
<1>3. CASE RetryOrEnd(t) /\ ~conn[t].open
  BY <1>3 DEF RetryOrEnd, Settle, Got, RedisTypeOK
<1> QED
  BY <1>1, <1>2, <1>3 DEF Settles

LEMMA ConnectingStarts ==
  ASSUME RedisTypeOK, RedisMove, NEW t \in Callers,
         caller'[t].pc = "connecting"
  PROVE  \/ Connect(t)
         \/ caller[t].pc = "connecting" /\ caller'[t] = caller[t]
<1>1. CASE ReturnOpen(t) \/ WaitForConnection(t) \/ Waited(t)
  BY <1>1 DEF ReturnOpen, WaitForConnection, Waited, Got, Failed, RedisTypeOK,
              Caller
<1>2. CASE AttemptSucceeds(t)
  BY <1>2, SettledCaller DEF Settles
<1>3. CASE GiveUp(t)
  BY <1>3, SettledCaller DEF Settles
<1>4. CASE RetryOrEnd(t)
  BY <1>4, SettledCaller DEF Settles, RetryOrEnd
<1> QED
  BY <1>1, <1>2, <1>3, <1>4, CallerMoves

(* The flag is dropped by the client whose caller set it.                  *)
LEMMA FlagMoves ==
  ASSUME RedisTypeOK, RedisMove, isConnecting, ~isConnecting'
  PROVE  \E t \in Callers :
           caller[t].pc = "connecting" /\ caller'[t].pc # "connecting"
<1>1. ASSUME NEW d \in Callers, GetClient(d) \/ Waited(d)
      PROVE  FALSE
  BY <1>1 DEF GetClient, ReturnOpen, WaitForConnection, Connect, Waited
<1>2. CASE RedisGoesDown \/ RedisComesUp \/ Disconnect \/ Disconnected
  BY <1>2 DEF RedisGoesDown, RedisComesUp, Disconnect, Disconnected
<1>3. ASSUME NEW d \in Callers, ClientStep(d)
      PROVE  caller[d].pc = "connecting" /\ caller'[d].pc # "connecting"
  <2>1. Settles(d)
    BY <1>3 DEF ClientStep, Settles, AttemptFails, RetryOrEnd, LoseConnection,
                QuitReply
  <2> QED
    BY <2>1, SettledCaller
<1> QED
  BY <1>1, <1>2, <1>3 DEF RedisMove

LEMMA ConnectingNext ==
  ASSUME RedisTypeOK, OneOpenClient, ConnectingInv, RedisMove
  PROVE  ConnectingInv'
<1> SUFFICES ASSUME NEW c \in Callers, caller'[c].pc = "connecting"
             PROVE  /\ isConnecting'
                    /\ \A d \in Callers : caller'[d].pc = "connecting" => c = d
                    /\ closing'.pc = "idle" => client' = c /\ conn'[c].open
  BY DEF ConnectingInv
<1>1. CASE Connect(c)
  <2>1. \A d \in Callers : caller[d].pc # "connecting"
    BY <1>1 DEF Connect, ConnectingInv
  <2>2. \A d \in Callers : d # c => ~Connect(d)
    BY <1>1, RedisAssumption DEF Connect, RedisTypeOK
  <2> QED
    BY <1>1, <2>1, <2>2, ConnectingStarts DEF Connect, NewClient, RedisTypeOK
<1>2. CASE caller[c].pc = "connecting"
  <2>1. isConnecting /\ \A d \in Callers : caller[d].pc = "connecting" => c = d
    BY <1>2 DEF ConnectingInv
  <2>2. \A d \in Callers : ~Connect(d)
    BY <2>1 DEF Connect
  <2>3. isConnecting'
    BY <2>1, FlagMoves DEF RedisTypeOK
  <2>4. \A d \in Callers : caller'[d].pc = "connecting" => c = d
    BY <2>1, <2>2, ConnectingStarts
  <2>5. ASSUME closing'.pc = "idle"
        PROVE  client' = c /\ conn'[c].open
    <3>1. closing.pc = "idle" /\ client' = client
      BY <2>2, <2>5, ClientMoves
    <3>2. client = c /\ conn[c].open
      BY <1>2, <3>1 DEF ConnectingInv
    <3>3. ~Disconnect
      BY <2>5 DEF Disconnect
    <3>4. ~GiveUp(c)
      BY <1>2, SettledCaller DEF Settles
    <3> QED
      BY <3>1, <3>2, <3>3, <3>4, OpenMoves
  <2> QED
    BY <2>3, <2>4, <2>5
<1> QED
  BY <1>1, <1>2, ConnectingStarts

LEMMA GotNext ==
  ASSUME RedisTypeOK, OneOpenClient, ConnectingInv, GotIsOpen, RedisMove
  PROVE  GotIsOpen'
<1> SUFFICES ASSUME NEW t \in Callers, caller'[t].pc = "got",
                    closing'.pc = "idle"
             PROVE  caller'[t].wasOpen
  BY DEF GotIsOpen
<1> closing.pc = "idle"
  BY ClientMoves
<1>1. CASE caller'[t] = caller[t]
  BY <1>1 DEF GotIsOpen
<1>2. CASE ReturnOpen(t)
  BY <1>2 DEF ReturnOpen, Got, RedisTypeOK
<1>3. CASE WaitForConnection(t) \/ Connect(t)
  BY <1>3 DEF WaitForConnection, Connect, RedisTypeOK, Caller
<1>4. CASE Waited(t)
  BY <1>4 DEF Waited, Got, Failed, RedisTypeOK
<1>5. CASE caller[t].pc # "connecting"
          /\ (AttemptSucceeds(t) \/ GiveUp(t) \/ RetryOrEnd(t))
  BY <1>5, SettledCaller DEF Settles, RetryOrEnd, GotIsOpen
<1>6. CASE caller[t].pc = "connecting" /\ AttemptSucceeds(t)
  <2>1. client = t /\ conn[t].open
    BY <1>6 DEF ConnectingInv
  <2>2. IsOpen(client)'
    BY <1>6, <2>1, RedisAssumption DEF AttemptSucceeds, IsOpen, RedisTypeOK, Conn
  <2> QED
    BY <1>6, <2>2, SettledCaller DEF Settles
<1>7. CASE caller[t].pc = "connecting" /\ GiveUp(t)
  BY <1>7 DEF GiveUp, Settle, Failed, RedisTypeOK
<1>8. CASE caller[t].pc = "connecting" /\ RetryOrEnd(t)
  BY <1>8 DEF RetryOrEnd, ConnectingInv
<1> QED
  BY <1>1, <1>2, <1>3, <1>4, <1>5, <1>6, <1>7, <1>8, CallerMoves

LEMMA RedisInvInit == ASSUME Init PROVE RedisInv
<1>1. RedisTypeOK
  BY RedisTypeInit DEF Init
<1>2. \A c \in Callers : ~conn[c].open /\ caller[c].pc = "idle"
  BY DEF Init, RedisInit
<1> QED
  BY <1>1, <1>2 DEF RedisInv, OneOpenClient, ConnectingInv, GotIsOpen

LEMMA RedisInvNext == ASSUME RedisInv, [Next]_vars PROVE RedisInv'
<1>1. CASE RedisMove
  BY <1>1, RedisTypeNext, OneOpenNext, ConnectingNext, GotNext DEF RedisInv
<1>2. CASE UNCHANGED redisVars
  BY <1>2 DEF RedisInv, RedisTypeOK, OneOpenClient, ConnectingInv, GotIsOpen,
              redisVars
<1> QED
  BY <1>1, <1>2, ComponentMoves

THEOREM RedisInvariant == Spec => []RedisInv
BY RedisInvInit, RedisInvNext, PTL DEF Spec

(* Until shutdown begins at most one client is open at any time, the one   *)
(* in the singleton's field: however callers, give-ups and outages come.   *)
THEOREM NeverTwoClients == Spec => []OneOpenClient
BY RedisInvariant, PTL DEF RedisInv

(* Until shutdown begins getClient answers with an open client or throws,  *)
(* also a caller that waited for the connection of another.                *)
THEOREM GetsOpenClient == Spec => []GotIsOpen
BY RedisInvariant, PTL DEF RedisInv

-----------------------------------------------------------------------------
(* The audit pipeline                                                      *)

LEMMA OpenersFinite ==
  IsFiniteSet(Openers) /\ IsFiniteSet(Held) /\ IsFiniteSet(Dialers)
<1>1. IsFiniteSet(Openers)
  BY AuditAssumption, FS_AddElement DEF Openers
<1> QED
  BY <1>1, AuditAssumption, FS_Subset DEF Held, Dialers

LEMMA MishapCounts ==
  ASSUME AuditFields, NEW kind \in {"dial", "drop", "channel"}, Mishap(kind)
  PROVE  /\ mishaps' \in [{"dial", "drop", "channel"} -> 0..MaxMishaps]
         /\ mishaps'[kind] = mishaps[kind] + 1
         /\ \A k \in {"dial", "drop", "channel"} :
              k # kind => mishaps'[k] = mishaps[k]
<1>1. /\ mishaps.dial \in 0..MaxMishaps
      /\ mishaps.drop \in 0..MaxMishaps
      /\ mishaps.channel \in 0..MaxMishaps
  BY DEF AuditFields
<1>2. mishaps[kind] + 1 \in 0..MaxMishaps
  BY <1>1, AuditAssumption DEF Mishap
<1> QED
  BY <1>2 DEF AuditFields, Mishap

LEMMA GoesType ==
  ASSUME AuditFields, NEW o \in Openers, NEW pc, Goes(o, pc),
         pc \in {"serving", "described", "connecting", "opening", "delivered",
                 "lost", "done"}
  PROVE  publisher' \in [Openers -> Publisher]
BY DEF AuditFields, Goes, Publisher

LEMMA WrittenType ==
  ASSUME AuditFields, NEW o \in Openers, NEW v \in Openers \cup {NoConn},
         NEW pc \in {"sent", "lost", "done"}
  PROVE  [publisher EXCEPT ![o].pc = pc, ![o].via = v] \in [Openers -> Publisher]
BY ZenonT(60) DEF AuditFields, Publisher

LEMMA AnsweredType ==
  ASSUME AuditFields, NEW o \in Openers, NEW due \in BOOLEAN,
         NEW piped \in BOOLEAN, NEW pc \in {"queued", "done"}
  PROVE  [publisher EXCEPT ![o].pc = pc, ![o].due = due, ![o].piped = piped]
           \in [Openers -> Publisher]
<1>1. publisher[o] \in Publisher
  BY DEF AuditFields
<1>2. [publisher[o] EXCEPT !.pc = pc, !.due = due, !.piped = piped] \in Publisher
  BY <1>1 DEF Publisher
<1>3. [publisher EXCEPT ![o] = [publisher[o] EXCEPT !.pc = pc, !.due = due,
                                                    !.piped = piped]]
        \in [Openers -> Publisher]
  BY <1>2 DEF AuditFields
<1> QED
  BY <1>3, Zenon

LEMMA AuditFieldsNext ==
  ASSUME AuditFields, AuditMove
  PROVE  AuditFields'
<1> DEFINE Trails == publisher' \in [Openers -> Publisher]
           Wires == amqp' \in [Openers -> Amqp]
           Rest == UNCHANGED <<configured, connection, channel, isConnected,
                               mishaps>>
<1>1. ASSUME NEW p \in Publishers, Arrive(p) PROVE AuditFields'
  BY <1>1, GoesType DEF Arrive, AuditFields, Openers
<1>2. ASSUME NEW o \in Openers, Answer(o) PROVE AuditFields'
  <2>1. PICK kind \in Kinds, status \in Statuses,
             known \in BOOLEAN, piped \in BOOLEAN :
          /\ piped => MayBePiped(kind, status)
          /\ publisher' = [publisher EXCEPT
               ![o].pc = IF Audited(kind, status, known) /\ ~piped THEN "queued"
                                                                   ELSE "done",
               ![o].due = kind \in AuditedKinds /\ status \in 200..299 /\ known,
               ![o].piped = piped]
    BY <1>2, Zenon DEF Answer
  <2>2. (kind \in AuditedKinds /\ status \in 200..299 /\ known) \in BOOLEAN
    OBVIOUS
  <2>3. Trails
    BY <2>1, <2>2, AnsweredType, Zenon
  <2> QED
    BY <1>2, <2>3 DEF Answer, AuditFields
<1>3. ASSUME NEW o \in Openers, Describe(o) \/ Skip(o) PROVE AuditFields'
  BY <1>3, GoesType DEF Describe, Skip, AuditFields
<1>4. ASSUME NEW o \in Openers, Publish(o) PROVE AuditFields'
  <2>1. channel \in Openers
    BY <1>4 DEF Publish, Usable, AuditFields
  <2>2. Trails
    BY <1>4, <2>1, WrittenType DEF Publish, PublishOn
  <2> QED
    BY <1>4, <2>2 DEF Publish, AuditFields
<1>5. ASSUME NEW o \in Openers, Dial(o) PROVE AuditFields'
  <2>1. Wires
    BY <1>5 DEF Dial, AuditFields, Amqp
  <2> QED
    BY <1>5, <2>1, GoesType DEF Dial, AuditFields
<1>6. ASSUME NEW o \in Openers, Dialled(o) PROVE AuditFields'
  <2>1. Wires
    BY ZenonT(60), <1>6 DEF Dialled, AuditFields, Amqp
  <2> QED
    BY <1>6, <2>1, GoesType DEF Dialled, AuditFields
<1>7. ASSUME NEW o \in Openers, ChannelOpened(o) PROVE AuditFields'
  <2>1. Wires
    BY ZenonT(60), <1>7 DEF ChannelOpened, AuditFields, Amqp
  <2>2. Trails
    BY <1>7, WrittenType DEF ChannelOpened
  <2> QED
    BY <1>7, <2>1, <2>2 DEF ChannelOpened, AuditFields
<1>8. ASSUME NEW o \in Openers, ChannelRefused(o) PROVE AuditFields'
  BY <1>8, GoesType DEF ChannelRefused, AuditFields
<1>9. ASSUME NEW o \in Openers, Deliver(o) PROVE AuditFields'
  BY <1>9, GoesType DEF Deliver, AuditFields
<1>10. ASSUME NEW o \in Openers, DialFails(o) PROVE AuditFields'
  <2>1. Wires
    BY <1>10 DEF DialFails, AuditFields, Amqp
  <2> QED
    BY <1>10, <2>1, GoesType, MishapCounts DEF DialFails, AuditFields
<1>11. ASSUME NEW o \in Openers, Goodbye(o) PROVE AuditFields'
  <2>1. Wires
    BY ZenonT(60), <1>11 DEF Goodbye, AuditFields, Amqp
  <2> QED
    BY <1>11, <2>1, MishapCounts DEF Goodbye, AuditFields
<1>12. ASSUME NEW o \in Openers, ChannelClosed(o) PROVE AuditFields'
  <2>1. Wires
    BY <1>12 DEF ChannelClosed, AuditFields, Amqp
  <2> QED
    BY <1>12, <2>1, MishapCounts DEF ChannelClosed, AuditFields
<1> QED
  BY <1>1, <1>2, <1>3, <1>4, <1>5, <1>6, <1>7, <1>8, <1>9, <1>10, <1>11, <1>12
     DEF AuditMove, PublisherStep

(* Where an opener and its connection go, step by step: only these change  *)
(* a connection, and each finds it in the state ConnByPc gives.            *)
Talks(o) ==
  \/ o \in Publishers /\ Arrive(o)
  \/ Answer(o) \/ Describe(o) \/ Skip(o) \/ Publish(o) \/ Deliver(o)

LEMMA AuditKinds ==
  ASSUME AuditMove
  PROVE  \E o \in Openers :
           \/ Talks(o) \/ Dial(o) \/ Dialled(o) \/ ChannelOpened(o)
           \/ ChannelRefused(o) \/ DialFails(o) \/ Goodbye(o)
           \/ ChannelClosed(o)
BY DEF AuditMove, PublisherStep, Talks, Openers

(* A step that talks neither opens nor leaves the opening of a connection. *)
LEMMA TalksKeeps ==
  ASSUME AuditFields, NEW o \in Openers, Talks(o)
  PROVE  /\ UNCHANGED <<configured, connection, channel, isConnected, amqp,
                        overlaps, mishaps>>
         /\ \A q \in Openers : q # o => publisher'[q] = publisher[q]
         /\ ~Connecting(o) /\ ~Connecting(o)'
         /\ publisher'[o].pc \in {"idle", "serving", "queued", "described"} =>
              publisher[o].pc \in {"idle", "serving", "queued", "described"}
<1>1. publisher \in [Openers -> Publisher]
  BY DEF AuditFields
<1>2. CASE o \in Publishers /\ Arrive(o)
  BY <1>1, <1>2 DEF Arrive, Goes, Connecting, Publisher
<1>3. CASE Answer(o)
  BY <1>1, <1>3 DEF Answer, Connecting, Publisher
<1>4. CASE Describe(o)
  BY <1>1, <1>4 DEF Describe, Goes, Connecting, Publisher
<1>5. CASE Skip(o)
  BY <1>1, <1>5 DEF Skip, Goes, Connecting, Publisher
<1>6. CASE Publish(o)
  BY <1>1, <1>6 DEF Publish, PublishOn, Connecting, Publisher
<1>7. CASE Deliver(o)
  BY <1>1, <1>7 DEF Deliver, Goes, Connecting, Publisher
<1> QED
  BY <1>2, <1>3, <1>4, <1>5, <1>6, <1>7 DEF Talks

(* What a step does to the opener and to its connection, for the steps     *)
(* that change one.                                                        *)
LEMMA ConnMoves ==
  ASSUME AuditFields, ConnByPc, NEW o \in Openers
  PROVE  /\ Dial(o) =>
              /\ amqp'[o].conn = "dialing" /\ amqp'[o].chan = "none"
              /\ publisher'[o].pc = "connecting" /\ amqp[o].conn = "none"
              /\ publisher[o].pc = "described"
         /\ Dialled(o) =>
              /\ amqp'[o].conn = "open" /\ amqp'[o].chan = "opening"
              /\ publisher'[o].pc = "opening" /\ amqp[o].conn = "dialing"
              /\ publisher[o].pc = "connecting" /\ amqp[o].chan = "none"
         /\ ChannelOpened(o) =>
              /\ amqp'[o].conn = "open" /\ amqp'[o].chan = "open"
              /\ publisher'[o].pc \in {"done", "sent"} /\ amqp[o].conn = "open"
              /\ publisher[o].pc = "opening"
         /\ ChannelRefused(o) =>
              /\ amqp' = amqp /\ amqp[o].conn = "closed"
              /\ publisher'[o].pc = "lost" /\ publisher[o].pc = "opening"
         /\ DialFails(o) =>
              /\ amqp'[o].conn = "closed" /\ amqp'[o].chan = "none"
              /\ publisher'[o].pc = "lost" /\ amqp[o].conn = "dialing"
              /\ publisher[o].pc = "connecting"
         /\ Goodbye(o) =>
              /\ amqp'[o].conn = "closed" /\ amqp'[o].chan = "closed"
              /\ publisher' = publisher /\ amqp[o].conn = "open"
         /\ ChannelClosed(o) =>
              /\ amqp'[o].conn = "open" /\ amqp'[o].chan = "closed"
              /\ publisher' = publisher /\ amqp[o].conn = "open"
              /\ publisher[o].pc # "opening"
<1>1. /\ amqp \in [Openers -> Amqp] /\ amqp[o] \in Amqp
      /\ publisher \in [Openers -> Publisher] /\ publisher[o] \in Publisher
  BY DEF AuditFields
<1>2. Dial(o) =>
        /\ amqp'[o].conn = "dialing" /\ amqp'[o].chan = "none"
        /\ publisher'[o].pc = "connecting" /\ amqp[o].conn = "none"
        /\ publisher[o].pc = "described"
  BY <1>1 DEF Dial, Goes, ConnByPc, Amqp, Publisher
<1>3. Dialled(o) =>
        /\ amqp'[o].conn = "open" /\ amqp'[o].chan = "opening"
        /\ publisher'[o].pc = "opening" /\ amqp[o].conn = "dialing"
        /\ publisher[o].pc = "connecting" /\ amqp[o].chan = "none"
  BY <1>1 DEF Dialled, Goes, ConnByPc, Amqp, Publisher
<1>4. ASSUME ChannelOpened(o)
      PROVE  /\ amqp'[o].conn = "open" /\ amqp'[o].chan = "open"
             /\ publisher'[o].pc \in {"done", "sent"} /\ amqp[o].conn = "open"
             /\ publisher[o].pc = "opening"
  <2>1. amqp[o].conn = "open" /\ publisher[o].pc = "opening"
    BY <1>4 DEF ChannelOpened, ConnByPc
  <2>2. publisher'[o].pc \in {"done", "sent"}
    BY <1>1, <1>4 DEF ChannelOpened, Publisher
  <2>3. amqp'[o].conn = amqp[o].conn /\ amqp'[o].chan = "open"
    BY <1>1, <1>4 DEF ChannelOpened, Amqp
  <2> QED
    BY <2>1, <2>2, <2>3
<1>5. ChannelRefused(o) =>
        /\ amqp' = amqp /\ amqp[o].conn = "closed"
        /\ publisher'[o].pc = "lost" /\ publisher[o].pc = "opening"
  BY <1>1 DEF ChannelRefused, Goes, ConnByPc, Publisher
<1>6. DialFails(o) =>
        /\ amqp'[o].conn = "closed" /\ amqp'[o].chan = "none"
        /\ publisher'[o].pc = "lost" /\ amqp[o].conn = "dialing"
        /\ publisher[o].pc = "connecting"
  BY <1>1 DEF DialFails, Goes, ConnByPc, Amqp, Publisher
<1>7. Goodbye(o) =>
        /\ amqp'[o].conn = "closed" /\ amqp'[o].chan = "closed"
        /\ publisher' = publisher /\ amqp[o].conn = "open"
  BY <1>1 DEF Goodbye, Amqp
<1>8. ASSUME ChannelClosed(o)
      PROVE  /\ amqp'[o].conn = "open" /\ amqp'[o].chan = "closed"
             /\ publisher' = publisher /\ amqp[o].conn = "open"
             /\ publisher[o].pc # "opening"
  <2>1. amqp[o].conn = "open" /\ publisher[o].pc # "opening"
    BY <1>8 DEF ChannelClosed, ConnByPc
  <2>2. amqp'[o].conn = amqp[o].conn /\ amqp'[o].chan = "closed"
    BY <1>1, <1>8 DEF ChannelClosed, Amqp
  <2> QED
    BY <1>8, <2>1, <2>2 DEF ChannelClosed
<1> QED
  BY <1>2, <1>3, <1>4, <1>5, <1>6, <1>7, <1>8

(* The others keep theirs, but for the listeners, which may go to another. *)
LEMMA OtherConns ==
  ASSUME AuditFields, NEW o \in Openers, NEW q \in Openers, q # o,
         \/ Dial(o) \/ Dialled(o) \/ ChannelOpened(o) \/ ChannelRefused(o)
         \/ DialFails(o) \/ Goodbye(o) \/ ChannelClosed(o)
  PROVE  /\ publisher'[q] = publisher[q]
         /\ amqp'[q].conn = amqp[q].conn /\ amqp'[q].chan = amqp[q].chan
<1>1. amqp \in [Openers -> Amqp] /\ publisher \in [Openers -> Publisher]
  BY DEF AuditFields
<1>2. CASE ChannelOpened(o)
  <2>1. publisher'[q] = publisher[q]
    BY <1>1, <1>2 DEF ChannelOpened
  <2>2. amqp'[q].conn = amqp[q].conn /\ amqp'[q].chan = amqp[q].chan
    BY <1>1, <1>2 DEF ChannelOpened, Amqp
  <2> QED
    BY <2>1, <2>2
<1>3. CASE Dial(o) \/ Dialled(o) \/ ChannelRefused(o) \/ DialFails(o)
  BY <1>1, <1>3 DEF Dial, Dialled, ChannelRefused, DialFails, Goes
<1>4. CASE Goodbye(o) \/ ChannelClosed(o)
  BY <1>1, <1>4 DEF Goodbye, ChannelClosed
<1> QED
  BY <1>2, <1>3, <1>4

LEMMA ConnByPcNext ==
  ASSUME AuditFields, ConnByPc, AuditMove
  PROVE  ConnByPc'
<1> SUFFICES ASSUME NEW q \in Openers
      PROVE  /\ publisher'[q].pc \in {"idle", "serving", "queued", "described"}
                  => q # Boot /\ amqp'[q].conn = "none" /\ amqp'[q].chan = "none"
             /\ publisher'[q].pc = "connecting" =>
                  amqp'[q].conn = "dialing" /\ amqp'[q].chan = "none"
             /\ publisher'[q].pc = "opening" =>
                  \/ amqp'[q].conn = "open" /\ amqp'[q].chan = "opening"
                  \/ amqp'[q].conn = "closed" /\ amqp'[q].chan = "closed"
             /\ amqp'[q].chan \in {"opening", "open"} => amqp'[q].conn = "open"
  BY DEF ConnByPc
<1>1. PICK o \in Openers :
        \/ Talks(o) \/ Dial(o) \/ Dialled(o) \/ ChannelOpened(o)
        \/ ChannelRefused(o) \/ DialFails(o) \/ Goodbye(o) \/ ChannelClosed(o)
  BY AuditKinds
<1>2. CASE Talks(o)
  BY <1>2, TalksKeeps DEF ConnByPc, Connecting
<1>3. CASE ~Talks(o) /\ q # o
  BY <1>1, <1>3, OtherConns DEF ConnByPc
<1>4. CASE ~Talks(o) /\ q = o
  <2>1. CASE Dial(o) \/ Dialled(o) \/ ChannelOpened(o) \/ DialFails(o)
    BY <1>4, <2>1, ConnMoves
  <2>2. CASE ChannelRefused(o) \/ Goodbye(o) \/ ChannelClosed(o)
    BY <1>4, <2>2, ConnMoves DEF ConnByPc
  <2> QED
    BY <1>1, <1>4, <2>1, <2>2
<1> QED
  BY <1>2, <1>3, <1>4

LEMMA ConnectedNext ==
  ASSUME AuditFields, ConnByPc, ConnectedMeansOpen, AuditMove
  PROVE  ConnectedMeansOpen'
<1> SUFFICES ASSUME isConnected'
             PROVE  channel' # NoConn /\ amqp'[channel'].chan = "open"
  BY DEF ConnectedMeansOpen
<1>1. PICK o \in Openers :
        \/ Talks(o) \/ Dial(o) \/ Dialled(o) \/ ChannelOpened(o)
        \/ ChannelRefused(o) \/ DialFails(o) \/ Goodbye(o) \/ ChannelClosed(o)
  BY AuditKinds
<1>2. CASE Talks(o)
  BY <1>2, TalksKeeps DEF ConnectedMeansOpen
<1>3. CASE ChannelOpened(o)
  BY ZenonT(60), <1>3, ConnMoves, AuditAssumption DEF ChannelOpened
<1>4. CASE ChannelRefused(o) \/ DialFails(o) \/ ChannelClosed(o)
  BY <1>4 DEF ChannelRefused, DialFails, ChannelClosed
<1>5. CASE Dial(o) \/ Dialled(o) \/ Goodbye(o)
  <2>1. isConnected /\ channel' = channel
    BY <1>5 DEF Dial, Dialled, Goodbye
  <2>2. channel \in Openers /\ amqp[channel].chan = "open"
    BY <2>1 DEF ConnectedMeansOpen, AuditFields
  <2>3. channel # o
    BY <1>5, <2>2, ConnMoves DEF Goodbye, Hears, Dial, ConnByPc
  <2> QED
    BY <1>5, <2>1, <2>2, <2>3, OtherConns, AuditAssumption
<1> QED
  BY <1>1, <1>2, <1>3, <1>4, <1>5

-----------------------------------------------------------------------------
(* What is counted                                                         *)

(* The connections held gain one by a dial, and lose one by its failure,   *)
(* by a refused channel, or when one in use goes.                          *)
LEMMA HeldMoves ==
  ASSUME AuditFields, ConnByPc, NEW o \in Openers
  PROVE  /\ Talks(o) => Held' = Held
         /\ Dial(o) => Held' = Held \cup {o}
         /\ Dialled(o) \/ ChannelOpened(o) \/ ChannelClosed(o) => Held' = Held
         /\ DialFails(o) \/ ChannelRefused(o) => o \in Held /\ Held' = Held \ {o}
         /\ Goodbye(o) =>
              o \in Held /\ Held' = IF Connecting(o) THEN Held ELSE Held \ {o}
<1> DEFINE In(q) == amqp[q].conn = "open" \/ Connecting(q)
<1>1. \A q \in Openers : q \in Held <=> In(q)
  BY DEF Held
<1>2. \A q \in Openers : q \in Held' <=> In(q)'
  BY DEF Held
<1>3. Held \subseteq Openers /\ Held' \subseteq Openers
  BY DEF Held
<1>4. ASSUME Talks(o), NEW q \in Openers PROVE In(q)' <=> In(q)
  BY <1>4, TalksKeeps DEF Connecting
<1>5. ASSUME \/ Dial(o) \/ Dialled(o) \/ ChannelOpened(o) \/ ChannelRefused(o)
             \/ DialFails(o) \/ Goodbye(o) \/ ChannelClosed(o),
             NEW q \in Openers, q # o
      PROVE  In(q)' <=> In(q)
  BY <1>5, OtherConns DEF Connecting
<1>6. Dial(o) => In(o)'
  BY ConnMoves DEF Connecting
<1>7. Dialled(o) \/ ChannelOpened(o) \/ ChannelClosed(o) => (In(o)' <=> In(o))
  BY ConnMoves DEF Connecting
<1>8. DialFails(o) => In(o) /\ ~In(o)'
  BY ConnMoves DEF Connecting
<1>9. ChannelRefused(o) => In(o) /\ ~In(o)'
  BY ConnMoves DEF Connecting
<1>10. Goodbye(o) => In(o) /\ (In(o)' <=> Connecting(o))
  BY ConnMoves DEF Connecting
<1> HIDE DEF In
<1> QED
  BY <1>1, <1>2, <1>3, <1>4, <1>5, <1>6, <1>7, <1>8, <1>9, <1>10

LEMMA HeldSize ==
  /\ Cardinality(Held) \in Nat
  /\ \A o : Cardinality(Held \cup {o}) <= Cardinality(Held) + 1
  /\ \A o \in Held : Cardinality(Held \ {o}) = Cardinality(Held) - 1
<1>1. IsFiniteSet(Held)
  BY OpenersFinite
<1>2. Cardinality(Held) \in Nat
  BY <1>1, FS_CardinalityType
<1>3. \A o : Cardinality(Held \cup {o}) =
               IF o \in Held THEN Cardinality(Held) ELSE Cardinality(Held) + 1
  BY <1>1, FS_AddElement
<1>4. \A o \in Held : Cardinality(Held \ {o}) = Cardinality(Held) - 1
  BY <1>1, FS_RemoveElement
<1>5. ASSUME NEW o
      PROVE  Cardinality(Held \cup {o}) <= Cardinality(Held) + 1
  <2>1. Cardinality(Held \cup {o}) \in {Cardinality(Held), Cardinality(Held) + 1}
    BY <1>3
  <2> QED
    BY <1>2, <2>1
<1> QED
  BY <1>2, <1>4, <1>5

LEMMA HeldSizePrimed == Cardinality(Held') \in Nat
<1>1. IsFiniteSet(Openers)
  BY OpenersFinite
<1>2. Held' \in SUBSET Openers
  BY DEF Held
<1>3. IsFiniteSet(Held')
  BY <1>1, <1>2, FS_Subset
<1> QED
  BY <1>3, FS_CardinalityType

LEMMA InUseIsOne ==
  /\ OneInUse \in {0, 1}
  /\ \A o \in Openers : Connecting(o) => OneInUse = 1
  /\ Usable => OneInUse = 1
  /\ OneInUse = 1 => Usable \/ \E o \in Openers : Connecting(o)
BY DEF OneInUse

LEMMA InUseIsOnePrimed ==
  /\ OneInUse' \in {0, 1}
  /\ \A o \in Openers : Connecting(o)' => OneInUse' = 1
  /\ Usable' => OneInUse' = 1
BY DEF OneInUse

LEMMA InUseStays ==
  ASSUME AuditFields, NEW o \in Openers, Talks(o)
  PROVE  OneInUse' = OneInUse
<1>1. \A q \in Openers : Connecting(q)' <=> Connecting(q)
  BY TalksKeeps DEF Connecting
<1>2. Usable' <=> Usable
  BY TalksKeeps DEF Usable
<1> QED
  BY <1>1, <1>2 DEF OneInUse

LEMMA HeldIsCountedNext ==
  ASSUME AuditFields, ConnByPc, OverlapsAreDials, HeldIsCounted, AuditMove
  PROVE  HeldIsCounted'
<1> DEFINE held == Cardinality(Held)
           held_ == Cardinality(Held')
           inUse_ == OneInUse'
           channels == mishaps.channel
           channels_ == mishaps'.channel
<1>1. /\ held \in Nat /\ held_ \in Nat /\ OneInUse \in {0, 1}
      /\ inUse_ \in {0, 1}
      /\ overlaps \in Nat /\ channels \in Nat
      /\ held <= OneInUse + overlaps + channels
  BY HeldSize, HeldSizePrimed, InUseIsOne, InUseIsOnePrimed
     DEF OverlapsAreDials, HeldIsCounted, AuditFields
<1> SUFFICES held_ <= inUse_ + overlaps' + channels_
  BY DEF HeldIsCounted
<1>2. PICK o \in Openers :
        \/ Talks(o) \/ Dial(o) \/ Dialled(o) \/ ChannelOpened(o)
        \/ ChannelRefused(o) \/ DialFails(o) \/ Goodbye(o) \/ ChannelClosed(o)
  BY AuditKinds
<1>3. CASE Talks(o)
  <2>1. held_ = held /\ inUse_ = OneInUse
    BY <1>3, HeldMoves, InUseStays
  <2>2. overlaps' = overlaps /\ channels_ = channels
    BY <1>3, TalksKeeps
  <2> QED
    BY <1>1, <2>1, <2>2
<1>4. CASE Dial(o)
  <2>1. held_ <= held + 1
    BY <1>4, HeldMoves, HeldSize
  <2>2. inUse_ = 1
    BY <1>4, ConnMoves, InUseIsOnePrimed DEF Connecting
  <2>3. channels_ = channels
    BY <1>4 DEF Dial
  <2>4. CASE \E q \in Openers : Connecting(q)
    <3>1. overlaps' = overlaps + 1
      BY <1>4, <2>4 DEF Dial
    <3> QED
      BY <1>1, <2>1, <2>2, <2>3, <3>1
  <2>5. CASE ~\E q \in Openers : Connecting(q)
    <3>1. overlaps' = overlaps
      BY <1>1, <1>4, <2>5 DEF Dial
    <3>2. OneInUse = 0
      BY <1>1, <1>4, <2>5, InUseIsOne DEF Dial
    <3> QED
      BY <1>1, <2>1, <2>2, <2>3, <3>1, <3>2
  <2> QED
    BY <2>4, <2>5
<1>5. CASE Dialled(o) \/ ChannelOpened(o)
  <2>1. held_ = held
    BY <1>5, HeldMoves
  <2>2. overlaps' = overlaps /\ channels_ = channels
    BY <1>5 DEF Dialled, ChannelOpened
  <2>3. inUse_ = 1
    BY <1>5, ConnMoves, InUseIsOnePrimed, AuditAssumption
       DEF Connecting, ChannelOpened, Usable
  <2> QED
    BY <1>1, <2>1, <2>2, <2>3
<1>6. CASE ChannelClosed(o)
  <2>1. held_ = held
    BY <1>6, HeldMoves
  <2>2. overlaps' = overlaps /\ channels_ = channels + 1
    BY <1>6, MishapCounts DEF ChannelClosed
  <2> QED
    BY <1>1, <2>1, <2>2
<1>7. CASE DialFails(o)
  <2>1. held_ = held - 1
    BY <1>7, HeldMoves, HeldSize
  <2>2. overlaps' = overlaps /\ channels_ = channels
    BY <1>7, MishapCounts DEF DialFails
  <2> QED
    BY <1>1, <2>1, <2>2
<1>8. CASE ChannelRefused(o)
  <2>1. held_ = held - 1
    BY <1>8, HeldMoves, HeldSize
  <2>2. overlaps' = overlaps /\ channels_ = channels
    BY <1>8 DEF ChannelRefused
  <2> QED
    BY <1>1, <2>1, <2>2
<1>9. CASE Goodbye(o)
  <2>1. overlaps' = overlaps /\ channels_ = channels
    BY <1>9, MishapCounts DEF Goodbye
  <2>2. CASE Connecting(o)
    <3>1. held_ = held
      BY <1>9, <2>2, HeldMoves
    <3>2. inUse_ = 1
      BY <1>9, <2>2, InUseIsOnePrimed DEF Goodbye, Connecting
    <3> QED
      BY <1>1, <2>1, <3>1, <3>2
  <2>3. CASE ~Connecting(o)
    <3>1. held_ = held - 1
      BY <1>9, <2>3, HeldMoves, HeldSize
    <3> QED
      BY <1>1, <2>1, <3>1
  <2> QED
    BY <2>2, <2>3
<1> QED
  BY <1>2, <1>3, <1>4, <1>5, <1>6, <1>7, <1>8, <1>9

LEMMA DialersNext ==
  ASSUME AuditFields, ConnByPc, OverlapsAreDials, AuditMove
  PROVE  OverlapsAreDials'
<1>1. PICK o \in Openers :
        \/ Talks(o) \/ Dial(o) \/ Dialled(o) \/ ChannelOpened(o)
        \/ ChannelRefused(o) \/ DialFails(o) \/ Goodbye(o) \/ ChannelClosed(o)
  BY AuditKinds
<1>2. CASE Talks(o)
  BY <1>2, TalksKeeps DEF OverlapsAreDials, Dialers
<1>3. CASE Dial(o)
  <2>1. o \in Publishers /\ o \notin Dialers
    BY <1>3, ConnMoves DEF Dialers, Openers, ConnByPc
  <2>2. Dialers' = Dialers \cup {o}
    <3>1. \A q \in Publishers \ {o} : amqp'[q].conn = amqp[q].conn
      BY <1>3, OtherConns DEF Openers
    <3>2. amqp'[o].conn # "none"
      BY <1>3, ConnMoves
    <3> QED
      BY <2>1, <3>1, <3>2 DEF Dialers
  <2>3. Cardinality(Dialers') = Cardinality(Dialers) + 1
    BY <2>1, <2>2, OpenersFinite, FS_AddElement
  <2>4. overlaps' \in {overlaps, overlaps + 1}
    BY <1>3 DEF Dial, OverlapsAreDials
  <2>5. Cardinality(Dialers) \in Nat
    BY OpenersFinite, FS_CardinalityType
  <2> QED
    BY <2>3, <2>4, <2>5 DEF OverlapsAreDials
<1>4. CASE \/ Dialled(o) \/ ChannelOpened(o) \/ ChannelRefused(o)
           \/ DialFails(o) \/ Goodbye(o) \/ ChannelClosed(o)
  <2>1. \A q \in Openers : (amqp'[q].conn # "none") <=> (amqp[q].conn # "none")
    <3> SUFFICES ASSUME NEW q \in Openers
                 PROVE  (amqp'[q].conn # "none") <=> (amqp[q].conn # "none")
      OBVIOUS
    <3>1. CASE q # o
      BY <1>4, <3>1, OtherConns
    <3>2. CASE q = o
      BY <1>4, <3>2, ConnMoves
    <3> QED
      BY <3>1, <3>2
  <2>2. Dialers' = Dialers
    BY <2>1 DEF Dialers, Openers
  <2>3. overlaps' = overlaps
    BY <1>4 DEF Dialled, ChannelOpened, ChannelRefused, DialFails, Goodbye,
                ChannelClosed
  <2> QED
    BY <2>2, <2>3 DEF OverlapsAreDials
<1> QED
  BY <1>1, <1>2, <1>3, <1>4

-----------------------------------------------------------------------------
(* The invariants of the audit pipeline                                    *)

LEMMA AuditInvInit == ASSUME Init PROVE AuditInv
<1> AuditInit
  BY DEF Init
<1> Boot \in Openers
  BY DEF Openers
<1>1. AuditFields
  <2>1. amqp \in [Openers -> Amqp]
    BY DEF AuditInit, Amqp
  <2>2. publisher \in [Openers -> Publisher]
    BY DEF AuditInit, Publisher
  <2>3. mishaps \in [{"dial", "drop", "channel"} -> 0..MaxMishaps]
    BY AuditAssumption DEF AuditInit, NoMishap
  <2> QED
    BY <2>1, <2>2, <2>3 DEF AuditInit, AuditFields
<1>2. ConnByPc
  BY DEF AuditInit, ConnByPc
<1>3. ConnectedMeansOpen
  BY DEF AuditInit, ConnectedMeansOpen
<1>4. OverlapsAreDials
  BY OpenersFinite, FS_CardinalityType DEF AuditInit, OverlapsAreDials
<1>5. HeldIsCounted
  <2>1. overlaps = 0 /\ mishaps.channel = 0
    BY DEF AuditInit, NoMishap
  <2>2. CASE configured
    <3>1. OneInUse = 1
      BY <2>2, InUseIsOne DEF AuditInit, Connecting
    <3>2. Held = {Boot}
      BY <2>2 DEF AuditInit, Held, Connecting
    <3>3. Cardinality(Held) = 1
      BY <3>2, FS_Singleton
    <3> QED
      BY <2>1, <3>1, <3>3 DEF HeldIsCounted
  <2>3. CASE ~configured
    <3>1. Held = {}
      BY <2>3 DEF AuditInit, Held, Connecting
    <3> QED
      BY <2>1, <3>1, FS_EmptySet, InUseIsOne DEF HeldIsCounted
  <2> QED
    BY <2>2, <2>3
<1> QED
  BY <1>1, <1>2, <1>3, <1>4, <1>5 DEF AuditInv

LEMMA AuditInvNext == ASSUME AuditInv, [Next]_vars PROVE AuditInv'
<1>1. CASE AuditMove
  BY <1>1, AuditFieldsNext, ConnByPcNext, ConnectedNext, DialersNext,
     HeldIsCountedNext DEF AuditInv
<1>2. CASE UNCHANGED auditVars
  <2>1. AuditFields' /\ ConnByPc' /\ ConnectedMeansOpen'
    BY <1>2 DEF AuditInv, AuditFields, ConnByPc, ConnectedMeansOpen, auditVars
  <2>2. Dialers' = Dialers /\ Held' = Held /\ OneInUse' = OneInUse
    BY <1>2 DEF Dialers, Held, OneInUse, Usable, Connecting, auditVars
  <2>3. OverlapsAreDials' /\ HeldIsCounted'
    BY <1>2, <2>2 DEF AuditInv, OverlapsAreDials, HeldIsCounted, auditVars
  <2> QED
    BY <2>1, <2>3 DEF AuditInv
<1> QED
  BY <1>1, <1>2, ComponentMoves

THEOREM AuditInvariant == Spec => []AuditInv
BY AuditInvInit, AuditInvNext, PTL DEF Spec

(* Whenever the service believes it is connected its channel is an open    *)
(* one, whichever of several connections came or went, heard or unheard.   *)
THEOREM TrustedChannelIsOpen == Spec => []ConnectedMeansOpen
BY AuditInvariant, PTL DEF AuditInv

LEMMA LeaksFromHeld == ASSUME AuditInv PROVE LeaksAreCounted
<1> DEFINE Open == {o \in Openers : amqp[o].conn = "open"}
<1>1. Open \subseteq Held
  BY DEF Held
<1>2. Cardinality(Open) <= Cardinality(Held)
  BY <1>1, OpenersFinite, FS_Subset
<1>3. IsFiniteSet(Open)
  BY <1>1, OpenersFinite, FS_Subset
<1>4. Cardinality(Open) \in Nat /\ Cardinality(Held) \in Nat
  BY <1>3, HeldSize, FS_CardinalityType
<1>5. Cardinality(Held) <= OneInUse + overlaps + mishaps.channel
  BY DEF AuditInv, HeldIsCounted
<1>6. OneInUse \in {0, 1} /\ overlaps \in Nat /\ mishaps.channel \in Nat
  BY InUseIsOne DEF AuditInv, OverlapsAreDials, AuditFields
<1> HIDE DEF Open
<1>7. Cardinality(Open) <= 1 + overlaps + mishaps.channel
  BY <1>2, <1>4, <1>5, <1>6
<1> QED
  BY <1>7 DEF Open, LeaksAreCounted

(* The broker's connections that are open at once are one, and one more    *)
(* for every connect() that overlapped another and every lost channel.     *)
THEOREM LeaksHaveACause == Spec => []LeaksAreCounted
BY AuditInvariant, LeaksFromHeld, PTL

-----------------------------------------------------------------------------
(* The process                                                             *)

ProcessTypeOK == process \in {"running", "stopped", "failed"} /\ life \in Lives

LEMMA ProcessTypeNext == ASSUME ProcessTypeOK, [Next]_vars PROVE ProcessTypeOK'
<1>1. CASE \/ Startup \/ Outage \/ Sigterm \/ HandlerResumes
           \/ \E t \in Callers : RedisRequest(t) \/ Waiting(t) \/ Connects(t)
  <2>1. life' = life /\ process' \in {process, "failed"}
    BY <1>1 DEF Startup, Outage, Sigterm, HandlerResumes, RedisRequest, Waiting,
                Connects, Redis
  <2> QED
    BY <2>1 DEF ProcessTypeOK
<1>2. CASE ServerClosed \/ ForceClose
  BY <1>2 DEF ServerClosed, ForceClose, Exit, ProcessTypeOK
<1>3. CASE \/ \E p \in Publishers : AuditedRequest(p)
           \/ \E o \in Openers :
                Publishes(o) \/ BrokerTrouble(o) \/ UncaughtException(o)
  <2>1. life' = life /\ process' \in {process, "failed"}
    BY <1>3 DEF AuditedRequest, Publishes, BrokerTrouble, UncaughtException,
                Audit, Exit, lifeVars
  <2> QED
    BY <2>1 DEF ProcessTypeOK
<1>4. CASE UNCHANGED vars
  BY <1>4 DEF vars, lifeVars, ProcessTypeOK
<1> QED
  BY <1>1, <1>2, <1>3, <1>4 DEF Next

LEMMA TypeFromInvariants ==
  ASSUME RedisInv, AuditInv, ProcessTypeOK
  PROVE  TypeOK
<1>1. Dialers \in SUBSET Publishers
  BY DEF Dialers
<1>2. Cardinality(Dialers) <= Cardinality(Publishers)
  BY <1>1, AuditAssumption, FS_Subset
<1>3. Cardinality(Dialers) \in Nat /\ Cardinality(Publishers) \in Nat
  BY OpenersFinite, AuditAssumption, FS_CardinalityType
<1>4. overlaps \in 0..Cardinality(Publishers)
  BY <1>2, <1>3 DEF AuditInv, OverlapsAreDials
<1> QED
  BY <1>4 DEF RedisInv, AuditInv, AuditFields, AuditTypeOK, ProcessTypeOK, TypeOK

(* Every reachable state of the process has the types of TypeOK; that the  *)
(* overlaps are no more than the requests follows from who dialled.        *)
THEOREM TypeCorrect == Spec => []TypeOK
<1>1. Init => ProcessTypeOK
  BY DEF Init, ProcessTypeOK
<1> QED
  BY <1>1, ProcessTypeNext, RedisInvariant, AuditInvariant, TypeFromInvariants,
     PTL DEF Spec

=============================================================================
