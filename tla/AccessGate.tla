----------------------------- MODULE AccessGate -----------------------------
(***************************************************************************)
(* middleware/auth.ts: who may do what with the databank. The checks of    *)
(* tokens and roles are local; ownership and policy are asked of the       *)
(* catalogue, grants of the ACL service, and both can change, or fail to   *)
(* answer, between two questions of one request.                           *)
(*                                                                         *)
(* A verdict passes the request on to the next middleware, refuses it with *)
(* a status, or names the next service to ask: "item" (checkItemAccess),   *)
(* "read" (checkItemAccessWithDatabankAccess), "acl" (databankAccess) and  *)
(* "owner" (checkIsOwner).                                                 *)
(***************************************************************************)
EXTENDS Naturals

CONSTANTS
  Users,
  Roles,       (* the roles in each user's token                            *)
  Token,       (* what each user sends: a good token, a bad one, or none    *)
  Owners       (* bound: the users that the catalogue names as an owner     *)

ASSUME GateAssumption ==
  /\ Roles \in [Users -> SUBSET {"provider", "consumer", "admin"}]
  /\ Token \in [Users -> {"good", "bad", "none"}]
  /\ Owners \subseteq Users

VARIABLES
  config,  (* PROVIDER of the storage, AUTH_ENABLED and AUTHZ_ENABLED       *)
  item,    (* the databank in the catalogue                                 *)
  acl      (* the users with a grant                                        *)

gateVars == <<config, item, acl>>

Config == [provider : {"aws", "minio"}, auth : BOOLEAN, authz : BOOLEAN]

Item == [listed : BOOLEAN, policy : {"OPEN", "PRIVATE", "RESTRICTED"},
         owner : Owners]

Pass == [to |-> "pass", status |-> 0]
Refuse(status) == [to |-> "refuse", status |-> status]
AskFor(service) == [to |-> service, status |-> 0]

-----------------------------------------------------------------------------
ExtractToken(u) == Token[u] # "none"
DecodeToken(u) == Token[u] = "good"

(* Whoever has both is known by an id and roles.                           *)
ExtractUserInfo(u) == ExtractToken(u) /\ DecodeToken(u)

Authenticate(u) == IF config.auth /\ ~ExtractUserInfo(u) THEN 401 ELSE 0

(* Where admins are allowed the code looks at no role any more.            *)
Authorize(u, allowed) ==
  IF \/ ~config.auth \/ ~config.authz
     \/ Roles[u] \cap allowed \cap {"provider", "consumer"} # {}
     \/ "admin" \in allowed
  THEN 0 ELSE 403

(* What GET /item says: an item, an empty result or 404, or else a failure *)
(* that looks like the service's (5xx, no answer, HTML) or the caller's.   *)
Replies(fails) ==
  CASE fails -> {"unavailable", "invalid"}
    [] ~fails /\ item.listed -> {"item"}
    [] OTHER -> {"none", "unavailable"}

CatalogueFailure(reply) == Refuse(IF reply = "invalid" THEN 400 ELSE 503)

CheckItemAccess(reply) ==
  IF reply = "item" THEN Pass ELSE CatalogueFailure(reply)

CheckItemAccessWithDatabankAccess(u, reply) ==
  CASE reply # "item" -> CatalogueFailure(reply)
    [] reply = "item" /\ item.policy \in {"OPEN", "PRIVATE"} -> Pass
    [] OTHER -> IF Token[u] = "none" THEN Refuse(401) ELSE AskFor("acl")

(* Without authentication no user id is known.                             *)
BeforeOwner == IF config.auth THEN AskFor("owner") ELSE Refuse(401)

MutantDatabankAccess(u, fails) == IF u \in acl \/ fails THEN Pass ELSE BeforeOwner

(* No grant, and no answer, leave it to the owner's check.                 *)
DatabankAccess(u, fails) == IF u \in acl /\ ~fails THEN Pass ELSE BeforeOwner

CheckIsOwner(u, reply) ==
  CASE reply = "item" -> IF item.owner = u THEN Pass ELSE Refuse(403)
    [] reply = "none" -> Refuse(403)
    [] OTHER -> CatalogueFailure(reply)

(* The first question of a gate, or none.                                  *)
FirstQuestion(gate) ==
  CASE ~config.authz \/ gate = "none" -> Pass
    [] config.authz /\ gate = "owner" -> BeforeOwner
    [] OTHER -> AskFor(gate)

-----------------------------------------------------------------------------
(* The outside world.                                                      *)
CatalogueChanges == item' \in Item /\ item' # item /\ UNCHANGED <<config, acl>>

GrantChanges ==
  \E u \in {v \in Users : ExtractUserInfo(v)} :
    /\ acl' = IF u \in acl THEN acl \ {u} ELSE acl \cup {u}
    /\ UNCHANGED <<config, item>>

=============================================================================
