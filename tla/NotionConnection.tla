---- MODULE NotionConnection ----
(***************************************************************************)
(* The Notion connection of one agency: notion-oauth.service.ts and its    *)
(* controllers.  A token stands for the workspace it opens, and so does a  *)
(* base id: the base with the title of the template in that workspace.     *)
(* A step is what a request does between two awaits.                       *)
(***************************************************************************)
EXTENDS Common

CONSTANTS
    Users,
    Workspaces,     \* Notion workspaces a user may choose
    ConnectionIds,  \* row ids: a uuid is never given twice
    Callbacks,      \* concurrent calls of the OAuth callback
    Resolutions     \* concurrent calls of resolveDatabaseId

VARIABLES
    connection,     \* the row of agency_notion_connections, or None
    granted,        \* history: the workspaces whose token a callback gave each row
    owners,         \* the users with an OWNER membership
    oauthStates,    \* the users with a signed state that is still valid
    callback,       \* the callbacks under way
    resolution      \* the resolutions under way

connectionVars == <<connection, granted, owners, oauthStates, callback, resolution>>

Targets == {"content", "curation"}
Connection ==
    [id : ConnectionIds, token : Workspaces, shown : Workspaces,    \* workspaceName
     base : [Targets -> Workspaces \cup {None}]]
Callback ==
    [pc : {"owner", "exchange", "find", "save"}, user : Users,
     token : Workspaces \cup {None}, row : ConnectionIds \cup {None}]
\* What resolveDatabaseId selects of the row, and saves.
Resolution ==
    [pc : {"search", "save"}, target : Targets, id : ConnectionIds,
     token : Workspaces, base : [Targets -> Workspaces \cup {None}]]

ASSUME ConnectionAssumption ==
    None \notin Workspaces \cup ConnectionIds \cup Connection \cup Callback \cup Resolution

ConnectionTypeOK ==
    /\ connection \in Connection \cup {None}
    /\ granted \in [ConnectionIds -> SUBSET Workspaces]
    /\ owners \subseteq Users
    /\ oauthStates \subseteq Users
    /\ callback \in [Callbacks -> Callback \cup {None}]
    /\ resolution \in [Resolutions -> Resolution \cup {None}]

ConnectionInit ==
    /\ connection = None
    /\ granted = [i \in ConnectionIds |-> {}]
    /\ owners \in SUBSET Users
    /\ oauthStates = {}
    /\ callback = [c \in Callbacks |-> None]
    /\ resolution = [r \in Resolutions |-> None]

-----------------------------------------------------------------------------
(* Connecting: buildAuthorizeUrl and handleCallback.                        *)

AuthorizeUrl(u) ==
    /\ u \in owners
    /\ oauthStates' = oauthStates \cup {u}
    /\ UNCHANGED <<connection, granted, owners, callback, resolution>>

\* STATE_TTL_SECONDS have passed since the last one was signed.
StateExpires(u) ==
    /\ u \in oauthStates
    /\ oauthStates' = oauthStates \ {u}
    /\ UNCHANGED <<connection, granted, owners, callback, resolution>>

CallbackAt(c, pc) == callback[c] # None /\ callback[c].pc = pc
SetCallback(c, task) ==
    /\ callback' = [callback EXCEPT ![c] = task]
    /\ UNCHANGED <<owners, oauthStates, resolution>>

\* verifyState.  Nothing records that a state has served.
CallbackVerify(c, u) ==
    /\ callback[c] = None
    /\ u \in oauthStates
    /\ SetCallback(c, [pc |-> "owner", user |-> u, token |-> None, row |-> None])
    /\ UNCHANGED <<connection, granted>>

CallbackOwner(c) ==
    /\ CallbackAt(c, "owner")
    /\ SetCallback(c, IF callback[c].user \in owners
                      THEN [callback[c] EXCEPT !.pc = "exchange"] ELSE None)
    /\ UNCHANGED <<connection, granted>>

\* The user chose a workspace in Notion; the exchange may fail or be rejected.
CallbackExchange(c) ==
    /\ CallbackAt(c, "exchange")
    /\ \/ \E w \in Workspaces :
            SetCallback(c, [callback[c] EXCEPT !.pc = "find", !.token = w])
       \/ SetCallback(c, None)
    /\ UNCHANGED <<connection, granted>>

CallbackFind(c) ==
    /\ CallbackAt(c, "find")
    /\ SetCallback(c, [callback[c] EXCEPT
                         !.pc = "save",
                         !.row = IF connection = None THEN None ELSE connection.id])
    /\ UNCHANGED <<connection, granted>>

Unnamed(row, w) == [row EXCEPT !.token = w, !.shown = None]    \* wrong: the name is lost
UpToken(row, w) == [row EXCEPT !.token = w]     \* wrong: the former name stays shown
Reconnected(row, w) == [row EXCEPT !.token = w, !.shown = w]
NewConnection(i, w) ==
    [id |-> i, token |-> w, shown |-> w, base |-> [t \in Targets |-> None]]
Stands(i) == connection # None /\ connection.id = i

\* The save of upsertConnection: an UPDATE of the row found, without its base
\* ids, or an INSERT.  A row that is gone would be inserted without its agency,
\* and a second row breaks the unique index: both throw.
CallbackSave(c) ==
    LET w == callback[c].token
        i == callback[c].row
    IN /\ CallbackAt(c, "save")
       /\ SetCallback(c, None)
       /\ \/ /\ Stands(i)
             /\ connection' = Reconnected(connection, w)
             /\ granted' = [granted EXCEPT ![i] = @ \cup {w}]
          \/ /\ i = None /\ connection = None
             /\ \E new \in ConnectionIds :
                  /\ granted[new] = {}
                  /\ connection' = NewConnection(new, w)
                  /\ granted' = [granted EXCEPT ![new] = {w}]
          \/ /\ ~Stands(i) /\ (i = None => connection # None)
             /\ UNCHANGED <<connection, granted>>

Disconnect ==
    /\ connection # None
    /\ connection' = None
    /\ UNCHANGED <<granted, owners, oauthStates, callback, resolution>>

-----------------------------------------------------------------------------
(* Finding a base: resolveDatabaseId.                                       *)

ResolutionAt(r, pc) == resolution[r] # None /\ resolution[r].pc = pc
SetResolution(r, task) ==
    /\ resolution' = [resolution EXCEPT ![r] = task]
    /\ UNCHANGED <<granted, owners, oauthStates, callback>>

\* Without a connection, or with the id in the row, it returns at once.
ResolveFind(r, t) ==
    /\ resolution[r] = None
    /\ connection # None /\ connection.base[t] = None
    /\ SetResolution(r, [pc |-> "search", target |-> t, id |-> connection.id,
                         token |-> connection.token, base |-> connection.base])
    /\ UNCHANGED connection

\* discoverDatabaseId searches with the token read before; a failure or no
\* match is null.
ResolveSearch(r) ==
    LET found == [resolution[r] EXCEPT
                    !.pc = "save", !.base[resolution[r].target] = resolution[r].token]
    IN /\ ResolutionAt(r, "search")
       /\ SetResolution(r, found) \/ SetResolution(r, None)
       /\ UNCHANGED connection

\* The save writes back every column selected, the token among them.
WrittenBack(r) ==
    [connection EXCEPT !.token = resolution[r].token, !.base = resolution[r].base]
ResolveSaveByAgency(r) ==       \* wrong: whatever connection the agency has now
    /\ ResolutionAt(r, "save")
    /\ connection' = IF connection = None THEN None ELSE WrittenBack(r)
    /\ SetResolution(r, None)
ResolveSave(r) ==
    /\ ResolutionAt(r, "save")
    /\ connection' = IF Stands(resolution[r].id) THEN WrittenBack(r) ELSE connection
    /\ SetResolution(r, None)

-----------------------------------------------------------------------------

\* Memberships are the business of AgencyMembers.
ChangeOwners(u) ==
    /\ owners' = IF u \in owners THEN owners \ {u} ELSE owners \cup {u}
    /\ UNCHANGED <<connection, granted, oauthStates, callback, resolution>>

\* A signed state outlives the process: its secret is configuration.
ConnectionStop ==
    /\ callback' = [c \in Callbacks |-> None]
    /\ resolution' = [r \in Resolutions |-> None]
    /\ UNCHANGED <<connection, granted, owners, oauthStates>>

CallbackStep(c) ==
    \/ \E u \in Users : CallbackVerify(c, u)
    \/ CallbackOwner(c) \/ CallbackExchange(c) \/ CallbackFind(c) \/ CallbackSave(c)

ResolutionStep(r) ==
    \/ \E t \in Targets : ResolveFind(r, t)
    \/ ResolveSearch(r) \/ ResolveSave(r)

ConnectionNext ==
    \/ \E u \in Users : AuthorizeUrl(u) \/ StateExpires(u) \/ ChangeOwners(u)
    \/ \E c \in Callbacks : CallbackStep(c)
    \/ \E r \in Resolutions : ResolutionStep(r)
    \/ Disconnect \/ ConnectionStop

ConnectionSpec == ConnectionInit /\ [][ConnectionNext]_connectionVars

-----------------------------------------------------------------------------
(* Properties.                                                             *)

\* Disconnecting forgets: the token, the name and the base ids of a connection
\* are of workspaces a callback connected since that connection was made.  No
\* request that was under way when the owner disconnected brings an older one
\* back, however many connections follow.
DisconnectForgets ==
    connection # None =>
        ({connection.token, connection.shown} \cup {connection.base[t] : t \in Targets}) \ {None}
            \subseteq granted[connection.id]

\* The workspace an owner reads in the settings is the one the agency's token
\* opens, as long as no callback saves while a base is being searched.
SearchMeetsCallback ==
    /\ \E c \in Callbacks : CallbackAt(c, "save")
    /\ \E r \in Resolutions : resolution[r] # None
TokenIsShown == connection # None => connection.token = connection.shown
SerialTokenIsShown == []~SearchMeetsCallback => []TokenIsShown
====
