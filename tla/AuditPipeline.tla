---------------------------- MODULE AuditPipeline ----------------------------
(***************************************************************************)
(* middleware/audit-middleware.ts, services/audit-service.ts and           *)
(* services/rabbitmq-service.ts: what a successful upload, download or     *)
(* delete leaves in the audit trail. The middleware looks at every answer  *)
(* that goes through send, which a file that is piped does not; an audited *)
(* one is described and published after it was sent, in the background.    *)
(* The service keeps one connection and one       *)
(* channel in its fields, opens them when it is made and again whenever    *)
(* they are gone, and hears of that through listeners.                     *)
(*                                                                         *)
(* A connection, with its channel, is named by who opened it. Two that are *)
(* opened at once write the same fields, each in its turn.                 *)
(***************************************************************************)
EXTENDS Naturals, FiniteSets

CONSTANTS
  Publishers,  (* the requests whose answers the middleware sees            *)
  Boot,        (* the constructor, which connects at once                   *)
  NoConn,      (* null                                                      *)
  MaxMishaps   (* bound: how often the broker lets a connection down        *)

Openers == Publishers \cup {Boot}

ASSUME AuditAssumption ==
  /\ IsFiniteSet(Publishers)
  /\ Boot \notin Publishers
  /\ NoConn \notin Openers
  /\ MaxMishaps \in Nat

VARIABLES
  configured,   (* validateEnvironmentVariables                             *)
  connection,   (* this.connection                                          *)
  channel,      (* this.channel                                             *)
  isConnected,  (* this.isConnected                                         *)
  amqp,         (* every connection opened so far                           *)
  publisher,    (* where each request, and the constructor, is              *)
  overlaps,     (* how often connect began while another one was under way  *)
  mishaps       (* how often dialling failed, a connection or a channel went *)

auditVars == <<configured, connection, channel, isConnected, amqp, publisher,
               overlaps, mishaps>>

(* heard: whether the connection has the listeners of connect.             *)
Amqp == [conn : {"none", "dialing", "open", "closed"},
         chan : {"none", "opening", "open", "closed"}, heard : BOOLEAN]

(* due: its answer is one that the audit trail has to show. piped: it was   *)
(* streamed. via: the channel its message was written to.                  *)
Publisher ==
  [pc : {"idle", "serving", "queued", "described", "connecting", "opening",
         "sent", "delivered", "lost", "done"},
   due : BOOLEAN, piped : BOOLEAN, via : Openers \cup {NoConn}]

Connecting(o) == publisher[o].pc \in {"connecting", "opening"}

NoMishap == [dial |-> 0, drop |-> 0, channel |-> 0]

AuditInit ==
  /\ configured \in BOOLEAN
  /\ connection = NoConn /\ channel = NoConn /\ isConnected = FALSE
  /\ amqp = [o \in Openers |->
               [conn |-> IF o = Boot /\ configured THEN "dialing" ELSE "none",
                chan |-> "none", heard |-> FALSE]]
  /\ publisher = [o \in Openers |->
                    [pc |-> CASE o # Boot -> "idle"
                              [] o = Boot /\ configured -> "connecting"
                              [] OTHER -> "done",
                     due |-> FALSE, piped |-> FALSE, via |-> NoConn]]
  /\ overlaps = 0 /\ mishaps = NoMishap

Mishap(kind) ==
  /\ mishaps.dial + mishaps.drop + mishaps.channel < MaxMishaps
  /\ mishaps' = [mishaps EXCEPT ![kind] = @ + 1]

Goes(o, pc) == publisher' = [publisher EXCEPT ![o].pc = pc]

-----------------------------------------------------------------------------
(* createAuditMiddleware                                                   *)

(* What a request may be for; AUDITED_ENDPOINTS has all but the other ones. *)
Kinds == {"Upload", "Download", "File Delete", "other"}
AuditedKinds == {"Upload", "Download", "File Delete"}

Statuses == {200, 299, 300, 404}

MutantShouldAudit(status) == status > 200 /\ status < 300

ShouldAudit(status) == status >= 200 /\ status < 300

(* Whether the middleware makes a message of this answer; known is whether *)
(* authenticate has left a user and a role behind.                         *)
Audited(kind, status, known) ==
  kind \in AuditedKinds /\ ShouldAudit(status) /\ known

(* A file that is downloaded without a presigned URL is piped into the     *)
(* response: nobody calls send, and the middleware never looks.            *)
MayBePiped(kind, status) == kind = "Download" /\ status = 200

Arrive(p) ==
  /\ publisher[p].pc = "idle"
  /\ Goes(p, "serving")
  /\ UNCHANGED <<configured, connection, channel, isConnected, amqp, overlaps,
                 mishaps>>

(* An answer is due in the trail when it tells an identified user that the *)
(* upload, download or delete was done, sent or piped.                     *)
Answer(p) ==
  /\ publisher[p].pc = "serving"
  /\ \E kind \in Kinds, status \in Statuses, known, piped \in BOOLEAN :
       /\ piped => MayBePiped(kind, status)
       /\ publisher' = [publisher EXCEPT
            ![p].pc = IF Audited(kind, status, known) /\ ~piped THEN "queued"
                                                                ELSE "done",
            ![p].due = kind \in AuditedKinds /\ status \in 200..299 /\ known,
            ![p].piped = piped]
  /\ UNCHANGED <<configured, connection, channel, isConnected, amqp, overlaps,
                 mishaps>>

(* AuditService.publishAuditMessage: a catalogue that does not answer is   *)
(* replaced by defaults, so that fetchAssetInfo always ends.               *)
Describe(p) ==
  /\ publisher[p].pc = "queued"
  /\ Goes(p, "described")
  /\ UNCHANGED <<configured, connection, channel, isConnected, amqp, overlaps,
                 mishaps>>

-----------------------------------------------------------------------------
(* RabbitMQService                                                         *)

MutantUsable == FALSE

Usable == isConnected /\ channel # NoConn

(* publish throws on a channel that is closed.                             *)
PublishOn(p, c) ==
  publisher' = [publisher EXCEPT ![p].pc = IF amqp[c].chan = "open" THEN "sent"
                                                                   ELSE "lost",
                                 ![p].via = c]

Skip(p) ==
  /\ publisher[p].pc = "described" /\ ~configured
  /\ Goes(p, "done")
  /\ UNCHANGED <<configured, connection, channel, isConnected, amqp, overlaps,
                 mishaps>>

Publish(p) ==
  /\ publisher[p].pc = "described" /\ configured /\ Usable
  /\ PublishOn(p, channel)
  /\ UNCHANGED <<configured, connection, channel, isConnected, amqp, overlaps,
                 mishaps>>

Dial(p) ==
  /\ publisher[p].pc = "described" /\ configured /\ ~Usable
  /\ Goes(p, "connecting")
  /\ amqp' = [amqp EXCEPT ![p].conn = "dialing"]
  /\ overlaps' = overlaps + (IF \E o \in Openers : Connecting(o) THEN 1 ELSE 0)
  /\ UNCHANGED <<configured, connection, channel, isConnected, mishaps>>

DialFails(o) ==
  /\ publisher[o].pc = "connecting" /\ Mishap("dial")
  /\ isConnected' = FALSE
  /\ amqp' = [amqp EXCEPT ![o].conn = "closed"]
  /\ Goes(o, "lost")
  /\ UNCHANGED <<configured, connection, channel, overlaps>>

Dialled(o) ==
  /\ publisher[o].pc = "connecting"
  /\ connection' = o
  /\ amqp' = [amqp EXCEPT ![o].conn = "open", ![o].chan = "opening"]
  /\ Goes(o, "opening")
  /\ UNCHANGED <<configured, channel, isConnected, overlaps, mishaps>>

(* The rest of connect: its listeners go to the connection that the field  *)
(* holds by now. The message, if there is one, follows at once.            *)
ChannelOpened(o) ==
  /\ publisher[o].pc = "opening" /\ amqp[o].chan = "opening"
  /\ channel' = o
  /\ isConnected' = TRUE
  /\ amqp' = [amqp EXCEPT ![o].chan = "open", ![connection].heard = TRUE]
  /\ publisher' = [publisher EXCEPT ![o].pc = IF o = Boot THEN "done" ELSE "sent",
                                    ![o].via = IF o = Boot THEN NoConn ELSE o]
  /\ UNCHANGED <<configured, connection, overlaps, mishaps>>

(* createChannel is rejected when its connection goes.                     *)
ChannelRefused(o) ==
  /\ publisher[o].pc = "opening" /\ amqp[o].chan = "closed"
  /\ isConnected' = FALSE
  /\ Goes(o, "lost")
  /\ UNCHANGED <<configured, connection, channel, amqp, overlaps, mishaps>>

(* What was written reaches the broker, or goes with its channel.          *)
Deliver(p) ==
  /\ publisher[p].pc = "sent"
  /\ Goes(p, IF amqp[publisher[p].via].chan = "open" THEN "delivered" ELSE "lost")
  /\ UNCHANGED <<configured, connection, channel, isConnected, amqp, overlaps,
                 mishaps>>

PublisherStep(o) ==
  \/ Answer(o) \/ Describe(o) \/ Skip(o) \/ Publish(o) \/ Dial(o)
  \/ Dialled(o) \/ ChannelOpened(o) \/ ChannelRefused(o) \/ Deliver(o)

-----------------------------------------------------------------------------
(* The broker                                                              *)

(* The listeners of a channel are in place as soon as it is open.          *)
Hears(o) == amqp[o].heard \/ amqp[o].chan = "open"

Goodbye(o) ==
  /\ amqp[o].conn = "open" /\ Mishap("drop")
  /\ amqp' = [amqp EXCEPT ![o].conn = "closed", ![o].chan = "closed"]
  /\ isConnected' = IF Hears(o) THEN FALSE ELSE isConnected
  /\ UNCHANGED <<configured, connection, channel, publisher, overlaps>>

(* A broker that shuts down says so: close events. A connection that       *)
(* breaks has an error event first, which a listener must hear ...         *)
Drop(o) == Goodbye(o)

(* ... or else it is thrown, as an uncaught exception of the process.      *)
DropUnheard(o) == ~amqp[o].heard /\ Goodbye(o)

MutantChannelClosed(o) ==
  /\ amqp[o].chan = "open" /\ Mishap("channel")
  /\ amqp' = [amqp EXCEPT ![o].chan = "closed"]
  /\ UNCHANGED <<configured, connection, channel, isConnected, publisher,
                 overlaps>>

(* The broker closes a channel, not its connection: no such exchange.      *)
ChannelClosed(o) ==
  /\ amqp[o].chan = "open" /\ Mishap("channel")
  /\ amqp' = [amqp EXCEPT ![o].chan = "closed"]
  /\ isConnected' = FALSE
  /\ UNCHANGED <<configured, connection, channel, publisher, overlaps>>

-----------------------------------------------------------------------------
AuditTypeOK ==
  /\ configured \in BOOLEAN /\ isConnected \in BOOLEAN
  /\ connection \in Openers \cup {NoConn} /\ channel \in Openers \cup {NoConn}
  /\ amqp \in [Openers -> Amqp]
  /\ publisher \in [Openers -> Publisher]
  /\ overlaps \in 0..Cardinality(Publishers)
  /\ mishaps \in [{"dial", "drop", "channel"} -> 0..MaxMishaps]

(* A publisher that trusts the fields writes to a channel that is open,    *)
(* whichever connections came and went in between, heard or not.           *)
ConnectedMeansOpen ==
  isConnected => channel # NoConn /\ amqp[channel].chan = "open"

(* The service holds one connection; what it leaks beyond that it leaks by *)
(* connecting twice at once, or by giving up a connection with a channel.  *)
LeaksAreCounted ==
  Cardinality({o \in Openers : amqp[o].conn = "open"})
    <= 1 + overlaps + mishaps.channel

=============================================================================
