---------------------------- MODULE MCApiRequests ----------------------------
(***************************************************************************)
(* An instance of ApiRequests for TLC, in two families of scenarios: one   *)
(* request of any user, under any configuration and policy; and the        *)
(* owner's requests, beside one that changes what they are about.          *)
(***************************************************************************)
EXTENDS ApiRequests

CONSTANTS r1, r2

(* d/f, d/p, d/s/, d/s/g, the archive, the report and two assets, of which *)
(* one is yet to come.                                                     *)
F == <<"d", "f">>
P == <<"d", "p">>
M == <<"d", "s", "">>
G == <<"d", "s", "g">>
Link == <<"assets", "owner", "a">>
Later == <<"assets", "owner", "b">>
MCZip == <<"zips", "d">>
MCReport == <<"reports", "d">>
MCOrder == <<Link, Later, F, P, M, G, MCReport, MCZip>>

MCUsers == {"owner", "member", "other", "admin", "guest", "nobody", "silent"}

MCRoles ==
  [u \in MCUsers |-> CASE u = "owner" -> {"provider"}
                       [] u \in {"member", "other"} -> {"consumer"}
                       [] u = "admin" -> {"admin"}
                       [] OTHER -> {}]

MCToken ==
  [u \in MCUsers |-> CASE u = "nobody" -> "bad" [] u = "silent" -> "none"
                       [] OTHER -> "good"]

MCItem(policy, owner) == [listed |-> TRUE, policy |-> policy, owner |-> owner]

KeyFor(route) ==
  CASE route \in {"list", "listAll"} -> <<>>
    [] route = "assetLink" -> <<"owner", "a">>
    [] route = "assetUpload" -> <<"owner", "b">>
    [] OTHER -> <<"f">>

MCAsk(route, user, key, body, max) ==
  [route |-> route, user |-> user, key |-> key, body |-> body, max |-> max]

Everything == ToSet(MCOrder) \ {Later}

Scenario(c, i, bucketful, spent, asks) ==
  [config |-> c, item |-> i, acl |-> {"member"}, bucket |-> bucketful,
   spent |-> spent, asks |-> asks]

One(a) == [r \in {r1} |-> a]
Two(a, b) == [r \in {r1, r2} |-> IF r = r1 THEN a ELSE b]

Access ==
  {Scenario([provider |-> "aws", auth |-> auth, authz |-> authz], i, Everything, 0,
            One(MCAsk(route, u, KeyFor(route), body, 9))) :
     auth \in BOOLEAN, authz \in BOOLEAN,
     i \in {MCItem("OPEN", "owner"), MCItem("RESTRICTED", "owner"),
            [MCItem("PRIVATE", "owner") EXCEPT !.listed = FALSE]},
     route \in DOMAIN Route, u \in MCUsers, body \in {"good"}}
  \cup
  {Scenario([provider |-> "aws", auth |-> TRUE, authz |-> TRUE],
            MCItem("OPEN", "owner"), Everything, 0,
            One(MCAsk(route, "owner", KeyFor(route), body, 9))) :
     route \in DOMAIN Route,
     body \in {"bad", "large", "type"}}

Owner(route, key, max) == MCAsk(route, "owner", key, "good", max)

OwnerAsks ==
  {Owner(route, key, max) : route \in {"list", "listAll"},
                            key \in {<<>>, <<"s">>}, max \in {1, 2, 4}}
  \cup
  {Owner("listAll", key, 2) : key \in {<<"d">>, <<"d", "">>, <<"s", "">>}}
  \cup
  {Owner(route, key, 9) : route \in (Reading \cup Writing \cup {"delete", "presign"})
                                       \ {"zip", "report", "assetUpload", "assetLink"},
                          key \in {<<"f">>, <<"d", "f">>, <<"s", "g">>}}
  \cup
  {Owner(route, KeyFor(route), 9) : route \in {"zip", "report", "assetLink"}}

Beside ==
  {Owner(route, key, 9) : route \in {"delete", "complete"},
                          key \in {<<"f">>, <<"d", "s", "g">>}}
  \cup {Owner("parquet", <<"f">>, 9)}

Files ==
  {Scenario([provider |-> p, auth |-> TRUE, authz |-> TRUE],
            MCItem("OPEN", "owner"), bucketful,
            IF a.route \in {"zip", "report"} THEN 0 ELSE 1, Two(a, b)) :
     p \in {"aws", "minio"}, bucketful \in {Everything, {P}, {M, G, P}},
     a \in OwnerAsks, b \in Beside}

MCScenarios == Access \cup Files

=============================================================================
