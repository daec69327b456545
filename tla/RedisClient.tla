----------------------------- MODULE RedisClient -----------------------------
(***************************************************************************)
(* core/utils/redis-client.ts: the singleton that hands out the one Redis  *)
(* client of the API process, opens a new one when the last has given up,  *)
(* and closes it on shutdown. The client is the standalone one.            *)
(*                                                                         *)
(* A client tries to connect, waits and tries again while it is open; it   *)
(* is open from the call of connect() on, long before it is ready, and     *)
(* stays open through an outage until the reconnect strategy gives up. The *)
(* continuation of an awaited connect() runs in the step that settles it:  *)
(* no other event of the process comes in between.                         *)
(***************************************************************************)
EXTENDS Naturals

CONSTANTS
  Callers,     (* who calls getClient, once each; a client is named by the  *)
               (* caller that created it                                    *)
  NoClient,    (* null                                                      *)
  MaxRetries,  (* maxReconnectAttempts                                      *)
  MaxOutages   (* bound: how often Redis goes away                          *)

ASSUME RedisAssumption ==
  /\ NoClient \notin Callers
  /\ MaxRetries \in Nat
  /\ MaxOutages \in Nat

VARIABLES
  redisUp,       (* whether Redis accepts connections                       *)
  outages,       (* how often it went away                                  *)
  client,        (* this.client                                             *)
  isConnecting,  (* this.isConnecting                                       *)
  conn,          (* every client created so far                             *)
  caller,        (* where each call of getClient is, and what it returned   *)
  closing        (* where disconnect is                                     *)

redisVars ==
  <<redisUp, outages, client, isConnecting, conn, caller, closing>>

-----------------------------------------------------------------------------
(* quit: a QUIT command waits in the client's queue, then has its reply, or *)
(* is rejected.                                                            *)
Conn == [open : BOOLEAN, retries : 0..MaxRetries + 1,
         phase : {"none", "attempt", "backoff", "ready", "ended"},
         quit : {"none", "queued", "replied", "rejected"}]

Caller == [pc : {"idle", "connecting", "waiting", "got", "failed"},
           got : Callers \cup {NoClient}, wasOpen : BOOLEAN]

RedisInit ==
  /\ redisUp \in BOOLEAN
  /\ outages = 0
  /\ client = NoClient
  /\ isConnecting = FALSE
  /\ conn = [c \in Callers |-> [open |-> FALSE, retries |-> 0,
                                phase |-> "none", quit |-> "none"]]
  /\ caller = [t \in Callers |-> [pc |-> "idle", got |-> NoClient,
                                  wasOpen |-> FALSE]]
  /\ closing = [pc |-> "idle", target |-> NoClient]

MutantIsOpen(c) == c # NoClient /\ conn[c].phase = "ready"

IsOpen(c) == c # NoClient /\ conn[c].open

(* What getClient answers with.                                            *)
Got(c) == [pc |-> "got", got |-> c, wasOpen |-> IsOpen(c)]
Failed == [pc |-> "failed", got |-> NoClient, wasOpen |-> FALSE]

(* A new client: createStandaloneClient or createClusterClient.            *)
NewClient == [open |-> TRUE, retries |-> 0, phase |-> "attempt",
              quit |-> "none"]

-----------------------------------------------------------------------------
(* getClient                                                               *)

ReturnOpen(t) ==
  /\ caller[t].pc = "idle" /\ IsOpen(client)
  /\ caller' = [caller EXCEPT ![t] = Got(client)]
  /\ UNCHANGED <<redisUp, outages, client, isConnecting, conn, closing>>

(* Somebody is connecting already: wait for it, and look again.            *)
WaitForConnection(t) ==
  /\ caller[t].pc = "idle" /\ ~IsOpen(client) /\ isConnecting
  /\ caller' = [caller EXCEPT ![t].pc = "waiting"]
  /\ UNCHANGED <<redisUp, outages, client, isConnecting, conn, closing>>

Connect(t) ==
  /\ caller[t].pc = "idle" /\ ~IsOpen(client) /\ ~isConnecting
  /\ isConnecting' = TRUE
  /\ client' = t
  /\ conn' = [conn EXCEPT ![t] = NewClient]
  /\ caller' = [caller EXCEPT ![t].pc = "connecting"]
  /\ UNCHANGED <<redisUp, outages, closing>>

GetClient(t) == ReturnOpen(t) \/ WaitForConnection(t) \/ Connect(t)

(* The wait ends with the connection attempt, or after ten seconds.        *)
Waited(t) ==
  /\ caller[t].pc = "waiting"
  /\ caller' = [caller EXCEPT ![t] = IF IsOpen(client) THEN Got(client)
                                                       ELSE Failed]
  /\ UNCHANGED <<redisUp, outages, client, isConnecting, conn, closing>>

WaitOver(t) == ~isConnecting /\ Waited(t)
WaitTimeout(t) == isConnecting /\ Waited(t)

-----------------------------------------------------------------------------
MutantSettle(c, ok) ==
  IF caller[c].pc = "connecting"
  THEN isConnecting' = FALSE /\ caller' = [caller EXCEPT ![c] = Got(client)']
  ELSE UNCHANGED <<isConnecting, caller>>

(* A client of the redis package. Its connect() settles once: with ok when *)
(* it is ready, or found closed after a pause; without when it gives up.   *)
(* connect() of the singleton then returns the field client, whatever that *)
(* is by now.                                                              *)
Settle(c, ok) ==
  IF caller[c].pc = "connecting"
  THEN /\ isConnecting' = FALSE
       /\ caller' = [caller EXCEPT ![c] = IF ok THEN Got(client)' ELSE Failed]
  ELSE UNCHANGED <<isConnecting, caller>>

(* An error of a client that is closed rejects what is in its queue.       *)
Rejected(quit) == IF quit = "queued" THEN "rejected" ELSE quit

MutantGivesUp(c) == conn[c].retries > MaxRetries + 1

GivesUp(c) == conn[c].retries > MaxRetries

AttemptSucceeds(c) ==
  /\ conn[c].phase = "attempt" /\ redisUp
  /\ conn' = [conn EXCEPT ![c].phase = "ready"]
  /\ UNCHANGED <<redisUp, outages, client, closing>>
  /\ Settle(c, TRUE)

AttemptFails(c) ==
  /\ conn[c].phase = "attempt" /\ ~redisUp /\ ~GivesUp(c)
  /\ conn' = [conn EXCEPT ![c].phase = "backoff", ![c].retries = @ + 1,
                ![c].quit = IF conn[c].open THEN @ ELSE Rejected(@)]
  /\ UNCHANGED <<redisUp, outages, client, isConnecting, caller, closing>>

GiveUp(c) ==
  /\ conn[c].phase = "attempt" /\ ~redisUp /\ GivesUp(c)
  /\ conn' = [conn EXCEPT ![c].phase = "ended", ![c].open = FALSE,
                          ![c].quit = Rejected(@)]
  /\ UNCHANGED <<redisUp, outages, client, closing>>
  /\ Settle(c, FALSE)

RetryOrEnd(c) ==
  /\ conn[c].phase = "backoff"
  /\ conn' = [conn EXCEPT ![c].phase = IF conn[c].open THEN "attempt"
                                                        ELSE "ended"]
  /\ UNCHANGED <<redisUp, outages, client, closing>>
  /\ IF conn[c].open THEN UNCHANGED <<isConnecting, caller>>
                     ELSE Settle(c, TRUE)

(* A ready client loses its connection: it starts over, unless closed.     *)
LoseConnection(c) ==
  /\ conn[c].phase = "ready" /\ ~redisUp
  /\ conn' = IF conn[c].open
             THEN [conn EXCEPT ![c].phase = "attempt", ![c].retries = 0]
             ELSE [conn EXCEPT ![c].phase = "ended", ![c].quit = Rejected(@)]
  /\ UNCHANGED <<redisUp, outages, client, isConnecting, caller, closing>>

QuitReply(c) ==
  /\ conn[c].phase = "ready" /\ conn[c].quit = "queued" /\ redisUp
  /\ conn' = [conn EXCEPT ![c].phase = "ended", ![c].quit = "replied"]
  /\ UNCHANGED <<redisUp, outages, client, isConnecting, caller, closing>>

ClientStep(c) ==
  \/ AttemptSucceeds(c) \/ AttemptFails(c) \/ GiveUp(c) \/ RetryOrEnd(c)
  \/ LoseConnection(c) \/ QuitReply(c)

-----------------------------------------------------------------------------
(* disconnect: quit() of a client that is not open throws at once.         *)
Disconnect ==
  /\ closing.pc = "idle"
  /\ closing' = [pc |-> IF IsOpen(client) THEN "quitting" ELSE "done",
                 target |-> client]
  /\ client' = IF IsOpen(client) THEN client ELSE NoClient
  /\ conn' = IF IsOpen(client)
             THEN [conn EXCEPT ![client].open = FALSE, ![client].quit = "queued"]
             ELSE conn
  /\ UNCHANGED <<redisUp, outages, isConnecting, caller>>

(* The reply, or the failure, of QUIT: drop whatever client is there now.  *)
Disconnected ==
  /\ closing.pc = "quitting"
  /\ conn[closing.target].quit \in {"replied", "rejected"}
  /\ client' = NoClient
  /\ closing' = [closing EXCEPT !.pc = "done"]
  /\ UNCHANGED <<redisUp, outages, isConnecting, conn, caller>>

RedisGoesDown ==
  /\ redisUp /\ outages < MaxOutages
  /\ redisUp' = FALSE /\ outages' = outages + 1
  /\ UNCHANGED <<client, isConnecting, conn, caller, closing>>

RedisComesUp ==
  /\ ~redisUp /\ redisUp' = TRUE
  /\ UNCHANGED <<outages, client, isConnecting, conn, caller, closing>>

-----------------------------------------------------------------------------
RedisTypeOK ==
  /\ redisUp \in BOOLEAN
  /\ outages \in 0..MaxOutages
  /\ client \in Callers \cup {NoClient}
  /\ isConnecting \in BOOLEAN
  /\ conn \in [Callers -> Conn]
  /\ caller \in [Callers -> Caller]
  /\ closing \in [pc : {"idle", "quitting", "done"},
                  target : Callers \cup {NoClient}]

(* Until the process is told to stop it holds at most one open client, the *)
(* one in its field, through outages, give-ups and new connections.        *)
OneOpenClient ==
  closing.pc = "idle" =>
    \A c \in Callers : conn[c].open => client = c

(* What getClient answers with is a client, and an open one, or an error;  *)
(* only a shutdown in progress can put null or a closed one in its place.  *)
GotIsOpen ==
  \A t \in Callers :
    caller[t].pc = "got" /\ ~caller[t].wasOpen => closing.pc # "idle"

=============================================================================
