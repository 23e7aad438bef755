----------------------------- MODULE RolePolicy -----------------------------
(***************************************************************************)
(* The role policy of Warden: which scopes a role grants and which scopes  *)
(* an action needs.  No state: the policy in force is a variable of the    *)
(* modules that use these operators.                                       *)
(*                                                                         *)
(* A scope such as "chathub:read" is the pair of its audience and what it  *)
(* permits there.  "saker:tool:execute" and "saker:tool:approve" are       *)
(* <<"saker", "execute">> and <<"saker", "approve">>,                      *)
(* "webhub:notifications:write" is <<"webhub", "notify">>.                 *)
(***************************************************************************)
EXTENDS FiniteSets

Of(audience, permits) == {audience} \X permits

\* The scopes that administrators hold.  Those of knowhub are not among them.
AllScopes ==
    UNION {Of("sakerweb", {"read", "write", "run", "terminal"}),
           Of("synapse", {"read", "write", "admin"}),
           Of("saker", {"run", "execute", "approve"}),
           Of("chathub", {"read", "write", "admin"}),
           Of("filehub", {"read", "upload", "write", "admin"}),
           Of("skillhub", {"read", "write", "publish", "admin"}),
           Of("filestore", {"read", "write", "admin"}),
           Of("webhub", {"notify"}),
           Of("aihub", {"read", "invoke", "admin"}),
           Of("stockhub", {"read", "retrieve", "upload", "write", "review", "admin"}),
           Of("warden", {"read", "write", "admin"})}

\* A token for an audience asks for these scopes when no action says otherwise.
DefaultScopesForAudience(audience) ==
    CASE audience = "sakerweb" -> Of(audience, {"read", "write", "run", "terminal"})
      [] audience = "saker" -> Of(audience, {"run", "execute"})
      [] audience = "filehub" -> Of(audience, {"read", "upload", "write"})
      [] audience \in {"skillhub", "chathub", "filestore"} -> Of(audience, {"read", "write"})
      [] audience = "webhub" -> Of(audience, {"notify"})
      [] audience = "aihub" -> Of(audience, {"read", "invoke"})
      [] audience \in {"stockhub", "knowhub"} -> Of(audience, {"read", "retrieve"})
      [] audience = "warden" -> Of(audience, {"read"})
      [] OTHER -> {}

\* The words that ask for each scope of an audience; knowhub has none.
Words(audience) ==
    CASE audience = "chathub" ->
           [read |-> {"read", "list"}, write |-> {"write", "run", "delete", "archive"},
            admin |-> {"admin"}]
      [] audience = "filehub" ->
           [read |-> {"read", "list"}, upload |-> {"upload", "create"},
            write |-> {"write", "update", "delete"}, admin |-> {"admin"}]
      [] audience = "skillhub" ->
           [read |-> {"read", "list"}, write |-> {"write", "update"},
            publish |-> {"publish"}, admin |-> {"admin"}]
      [] audience = "saker" ->
           [run |-> {"run"}, execute |-> {"tool:execute", "execute"},
            approve |-> {"tool:approve", "approve"}]
      [] audience = "sakerweb" ->
           [read |-> {"read", "list", "get", "view"},
            write |-> {"write", "create", "update", "delete"},
            run |-> {"run"}, terminal |-> {"terminal"}]
      [] audience = "filestore" ->
           [read |-> {"read", "list"}, write |-> {"write", "upload", "delete"},
            admin |-> {"admin"}]
      [] audience = "synapse" ->
           [read |-> {"read", "list"}, write |-> {"write", "update"}, admin |-> {"admin"}]
      [] audience = "webhub" -> [notify |-> {"notifications:write", "notify", "write"}]
      [] audience = "aihub" ->
           [read |-> {"read", "list"},
            invoke |-> {"invoke", "run", "write", "update", "delete"}, admin |-> {"admin"}]
      [] audience = "stockhub" ->
           [read |-> {"read", "list", "search"}, retrieve |-> {"retrieve"},
            upload |-> {"upload", "create"},
            write |-> {"write", "update", "delete", "archive"},
            review |-> {"review", "publish"}, admin |-> {"admin"}]
      [] audience = "warden" ->
           [read |-> {"read", "list"}, write |-> {"write", "update", "delete"},
            admin |-> {"admin"}]
      [] OTHER -> [none |-> {}]

scopesForAction(audience, action) ==
    Of(audience, {p \in DOMAIN Words(audience) : action \in Words(audience)[p]})

----------------------------------------------------------------------------
Administrators == {"platform.owner", "platform.admin", "tenant.owner", "tenant.admin"}

KnownRoles == Administrators \cup
    {"tenant.operator", "tenant.viewer", "team.admin", "team.editor", "team.viewer",
     "app.saker.runner", "app.sakerweb.viewer", "app.sakerweb.user", "app.sakerweb.operator",
     "app.chathub.user", "app.filehub.editor", "app.skillhub.publisher",
     "app.aihub.user", "app.aihub.viewer", "app.aihub.admin", "frontend.user"}

Shorthand ==
    [owner |-> "tenant.owner", admin |-> "tenant.admin", operator |-> "tenant.operator",
     viewer |-> "tenant.viewer", user |-> "frontend.user",
     moderator |-> "app.skillhub.publisher"]

\* The role a key names, if any: the one element of the set.
NormalizeRoleKey(role) ==
    IF role \in KnownRoles THEN {role}
    ELSE IF role \in DOMAIN Shorthand THEN {Shorthand[role]} ELSE {}

roleKeys(roles) == UNION {NormalizeRoleKey(role) : role \in roles}

OperatorScopes ==
    ({"synapse", "chathub", "skillhub", "filestore", "warden"} \X {"read", "write"}) \cup
    UNION {Of("sakerweb", {"read", "write", "run"}), Of("filehub", {"read", "upload", "write"}),
           Of("saker", {"run", "execute"}), Of("aihub", {"read", "invoke"}),
           Of("stockhub", {"read", "retrieve", "upload", "write"})}

ViewerScopes ==
    {<<"stockhub", "retrieve">>} \cup
    {"sakerweb", "synapse", "chathub", "filehub", "skillhub", "filestore", "aihub", "stockhub",
     "warden"} \X {"read"}

GrantOf(role) ==
    CASE role \in Administrators -> AllScopes
      [] role = "tenant.operator" -> OperatorScopes
      [] role = "tenant.viewer" -> ViewerScopes
      [] role = "team.admin" ->
           Of("chathub", {"read", "write"}) \cup Of("filehub", {"read", "upload", "write"})
      [] role = "team.editor" ->
           Of("chathub", {"read", "write"}) \cup Of("filehub", {"read", "upload"})
      [] role = "team.viewer" -> {"chathub", "filehub"} \X {"read"}
      [] role = "app.saker.runner" -> Of("saker", {"run", "execute"})
      [] role = "app.sakerweb.viewer" -> Of("sakerweb", {"read"})
      [] role = "app.sakerweb.user" -> Of("sakerweb", {"read", "write", "run"})
      [] role = "app.sakerweb.operator" -> Of("sakerweb", {"read", "write", "run", "terminal"})
      [] role = "app.chathub.user" -> Of("chathub", {"read", "write"})
      [] role = "app.filehub.editor" -> Of("filehub", {"read", "upload", "write"})
      [] role = "app.skillhub.publisher" -> Of("skillhub", {"read", "publish", "write"})
      [] role = "app.aihub.user" -> Of("aihub", {"read", "invoke"})
      [] role = "app.aihub.viewer" -> Of("aihub", {"read"})
      [] role = "app.aihub.admin" -> Of("aihub", {"read", "invoke", "admin"})
      [] role = "frontend.user" ->
           Of("aihub", {"read", "invoke"}) \cup Of("stockhub", {"read", "retrieve"})
           \cup {"synapse", "warden"} \X {"read"}

DefaultRoleScopes == [role \in KnownRoles |-> GrantOf(role)]

\* A configuration maps role keys to scopes; one with an unknown key is refused.
\* Of two keys of one role, a full key and its shorthand, the one that Go's map
\* iteration yields last wins: Winners are the possible outcomes.
Winners(config) ==
    LET keys == DOMAIN config
        named == roleKeys(keys)
    IN  IF \E k \in keys : NormalizeRoleKey(k) = {} THEN {}
        ELSE {w \in [named -> keys] : \A k \in named : NormalizeRoleKey(w[k]) = {k}}

\* An empty configuration gives the default policy.
NewPolicy(config, winner) ==
    IF DOMAIN config = {} THEN DefaultRoleScopes
    ELSE [k \in DOMAIN winner |-> config[winner[k]]]

----------------------------------------------------------------------------
\* Roles that are unknown, or that the policy does not mention, grant nothing.
ScopesForRoles(policy, roles) ==
    UNION {policy[k] : k \in roleKeys(roles) \cap DOMAIN policy}

\* What the actions need; what the audience has by default if none is known.
Requested(audience, actions) ==
    LET needed == UNION {scopesForAction(audience, a) : a \in actions}
    IN  IF needed = {} THEN DefaultScopesForAudience(audience) ELSE needed

ScopesForActions(policy, roles, audience, actions) ==
    Requested(audience, actions) \cap ScopesForRoles(policy, roles)

\* Any role but that of the front end opens the console.
ConsoleAccess(roles) == roleKeys(roles) \ {"frontend.user"} # {}

canManageServiceAccounts(roles) == roleKeys(roles) \cap Administrators # {}

\* An application is shown to whoever may do something in it; publishing alone
\* does not count.
AppsForScopes(scopes) ==
    LET entries == {"chathub", "filehub", "skillhub"} \X {"read", "write", "admin"}
                   \cup {<<"filehub", "upload">>}
    IN  {s[1] : s \in entries \cap scopes}
=============================================================================
