---------------------------- MODULE AccessRights ----------------------------
(***************************************************************************)
(* Who may have a request carried out, as the documents say it and not the *)
(* routes: ENDPOINT_AUTH.md, API_ROLES.md and the comment above the gates  *)
(* of middleware/auth.ts. What the code lets through beside that is named, *)
(* one departure by one, with the words it goes against; AccessGate is the *)
(* code itself.                                                            *)
(***************************************************************************)
EXTENDS AccessGate, Sequences

(* ENDPOINT_AUTH.md:84-92, the summary by check; a preview of a parquet    *)
(* file is a preview, a signed download is a download.                     *)
DocumentedCheck ==
  [metadata |-> "none", list |-> "item", listAll |-> "item",
   preview |-> "item", parquet |-> "item",
   download |-> "read", presign |-> "read", access |-> "read",
   zip |-> "read", report |-> "read",
   delete |-> "owner", complete |-> "owner",
   assetUpload |-> "role", assetLink |-> "role"]

(* ENDPOINT_AUTH.md:41-78, the roles in the lists of endpoints.            *)
DocumentedRoles(route) ==
  CASE route = "complete" -> {"provider"}
    [] route = "assetLink" -> {"provider", "admin"}
    [] route = "assetUpload" -> {"provider", "consumer", "admin"}
    [] OTHER -> {"provider", "consumer"}

-----------------------------------------------------------------------------
IsKnown(u) == config.auth => Token[u] = "good"

(* ENDPOINT_AUTH.md:14: the user has at least one of the given roles.      *)
HasRole(u, route) ==
  config.auth /\ config.authz => Roles[u] \cap DocumentedRoles(route) # {}

IsPublic == item.listed /\ item.policy = "OPEN"
IsOwner(u) == config.auth /\ item.listed /\ item.owner = u

(* auth.ts:367-371 and ENDPOINT_AUTH.md:16-18: an OPEN databank is public; *)
(* any other takes a grant, or ownership.                                  *)
MayAccess(u, check) ==
  config.authz =>
    CASE check \in {"item", "read"} -> IsPublic \/ u \in acl \/ IsOwner(u)
      [] check = "owner" -> IsOwner(u)
      [] OTHER -> TRUE

(* ENDPOINT_AUTH.md:78: an asset is for its owner, or for an admin.        *)
OwnAsset(a) ==
  a.route = "assetLink" => "admin" \in Roles[a.user] \/ Head(a.key) = a.user

-----------------------------------------------------------------------------
(* Departures of the code.                                                 *)

(* ENDPOINT_AUTH.md:68 has three checks for the report; it has none.       *)
ReportIsPublic(a) == a.route = "report"

(* ENDPOINT_AUTH.md:14, API_ROLES.md:123: without the role, 403. Where     *)
(* admins are let in, no role is looked at (auth.ts:164).                  *)
NoRoleIsLookedAt(a) == "admin" \in DocumentedRoles(a.route)

(* auth.ts:369-371 and 439: what is not public is delegated to the owner   *)
(* and ACL check. It is let through, as ENDPOINT_AUTH.md:15 has it.        *)
NonPublicPasses(a) == DocumentedCheck[a.route] = "item" /\ item.listed

(* ENDPOINT_AUTH.md:16: what is not public runs databankAccess. A PRIVATE  *)
(* databank is let through before (auth.ts:557).                           *)
PrivatePasses(a) ==
  DocumentedCheck[a.route] = "read" /\ item.listed /\ item.policy = "PRIVATE"

-----------------------------------------------------------------------------
MayPass(a) ==
  \/ DocumentedCheck[a.route] = "none"
  \/ ReportIsPublic(a)
  \/ /\ IsKnown(a.user)
     /\ HasRole(a.user, a.route) \/ NoRoleIsLookedAt(a)
     /\ \/ MayAccess(a.user, DocumentedCheck[a.route])
        \/ NonPublicPasses(a) \/ PrivatePasses(a)
     /\ OwnAsset(a)

=============================================================================
