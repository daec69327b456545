---------------------------- MODULE ServerProcess ----------------------------
(***************************************************************************)
(* server.ts: the life of the API process around its two connections, to   *)
(* Redis and to the audit broker. It exits when the first connection to    *)
(* Redis fails, when an exception is caught by nobody, and after SIGTERM.  *)
(***************************************************************************)
EXTENDS RedisClient, AuditPipeline

CONSTANT
  Lives   (* the lives of a process to look at: which requests come,        *)
          (* whether Redis may be away, whether a broker is configured      *)

ASSUME ServerAssumption ==
  /\ Boot \in Callers
  /\ Lives \subseteq [requests : SUBSET ((Callers \cup Publishers) \ {Boot}),
                     outages : BOOLEAN, broker : BOOLEAN]

VARIABLES
  process,  (* running, or its exit code                                    *)
  life      (* the one of Lives that this is                                *)

lifeVars == <<process, life>>
vars == <<redisVars, auditVars, lifeVars>>

(* The rabbitmq service is made when app is imported, before the startup   *)
(* function runs; that one calls getClient before the server listens.      *)
Init ==
  /\ RedisInit /\ AuditInit
  /\ process = "running"
  /\ life \in Lives
  /\ configured = life.broker /\ (redisUp \/ life.outages)

Up == process = "running"

Exit(code) == process' = code /\ UNCHANGED life

-----------------------------------------------------------------------------
MutantStartupFails == FALSE

(* What Redis work does to the process: when connectRedis rejects, the     *)
(* startup function exits before anything else can happen.                 *)
StartupFails == caller'[Boot].pc = "failed"

Redis(step) ==
  /\ Up /\ step
  /\ process' = IF StartupFails THEN "failed" ELSE process
  /\ UNCHANGED <<auditVars, life>>

Audit(step) == Up /\ step /\ UNCHANGED <<redisVars, lifeVars>>

(* server.close has been called: no new requests.                          *)
Closed == closing.pc = "done"

Startup == Redis(GetClient(Boot))

Listening == caller[Boot].pc # "idle" /\ ~Closed

RedisRequest(t) == t \in life.requests /\ Listening /\ Redis(GetClient(t))
Waiting(t) == Redis(WaitOver(t) \/ WaitTimeout(t))
Connects(c) == Redis(ClientStep(c))

AuditedRequest(p) == p \in life.requests /\ Listening /\ Audit(Arrive(p))
Publishes(o) == Audit(PublisherStep(o))

Outage == life.outages /\ Redis(RedisGoesDown \/ RedisComesUp)

BrokerTrouble(o) == Audit(DialFails(o) \/ Drop(o) \/ ChannelClosed(o))

UncaughtException(o) ==
  Up /\ DropUnheard(o) /\ Exit("failed") /\ UNCHANGED redisVars

-----------------------------------------------------------------------------
(* SIGTERM, once                                                           *)

Sigterm == Redis(Disconnect)

(* The handler goes on, to server.close and the timer, in the same step.   *)
HandlerResumes == Redis(Disconnected)

(* The requests that server.close waits for.                               *)
Active ==
  {t \in Callers \ {Boot} : caller[t].pc \in {"connecting", "waiting"}} \cup
  {p \in Publishers : publisher[p].pc = "serving"}

ServerClosed ==
  /\ Up /\ Closed /\ Active = {}
  /\ Exit("stopped") /\ UNCHANGED <<redisVars, auditVars>>

ForceClose ==
  /\ Up /\ Closed
  /\ Exit("failed") /\ UNCHANGED <<redisVars, auditVars>>

-----------------------------------------------------------------------------
Next ==
  \/ Startup \/ Outage \/ Sigterm \/ HandlerResumes \/ ServerClosed \/ ForceClose
  \/ \E t \in Callers : RedisRequest(t) \/ Waiting(t) \/ Connects(t)
  \/ \E p \in Publishers : AuditedRequest(p)
  \/ \E o \in Openers : Publishes(o) \/ BrokerTrouble(o) \/ UncaughtException(o)

(* The event loop goes on: what was begun gets its reply or its timeout,   *)
(* timers fire. Nobody has to send a request or a signal, and neither an   *)
(* outage nor trouble of the broker has to come, or to end.                *)
Fairness ==
  /\ WF_vars(Startup)
  /\ WF_vars(HandlerResumes) /\ WF_vars(ServerClosed) /\ WF_vars(ForceClose)
  /\ \A t \in Callers : WF_vars(Waiting(t)) /\ WF_vars(Connects(t))
  /\ \A o \in Openers : WF_vars(Publishes(o))

Spec == Init /\ [][Next]_vars /\ Fairness

-----------------------------------------------------------------------------
TypeOK ==
  /\ RedisTypeOK /\ AuditTypeOK
  /\ process \in {"running", "stopped", "failed"}
  /\ life \in Lives

(* The departure from the middleware's own list of audited endpoints: a    *)
(* file that is downloaded as a stream leaves nothing in the trail.        *)
StreamPassesBy(p) == publisher[p].piped

(* Without trouble of the broker, and unless the process ends first, every *)
(* upload, download or delete that an identified user was told of reaches  *)
(* the audit broker, also those of the time when nothing was connected or  *)
(* two connections were being opened; but not a download that is streamed. *)
CleanAuditArrives ==
  \A p \in Publishers :
    publisher[p].due /\ configured ~>
      \/ publisher[p].pc = "delivered"
      \/ StreamPassesBy(p)
      \/ mishaps # NoMishap
      \/ ~Up

(* Startup comes to an end, whatever Redis does: a connection, or an exit. *)
StartupSettles == Up ~> caller[Boot].pc = "got" \/ ~Up

(* After SIGTERM the process ends: at the latest when "Could not close     *)
(* connections in time, forcefully shutting down" (server.ts) is logged.   *)
ShutdownEnds == closing.pc # "idle" ~> ~Up

=============================================================================
