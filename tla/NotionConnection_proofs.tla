---- MODULE NotionConnection_proofs ----
(***************************************************************************)
(* Proofs about NotionConnection, for every value of its constants.        *)
(***************************************************************************)
EXTENDS NotionConnection, TLAPS

-----------------------------------------------------------------------------
(* Types.                                                                    *)

\* A callback that has exchanged its code holds a token.
TokenHeld ==
    \A c \in Callbacks :
        CallbackAt(c, "find") \/ CallbackAt(c, "save") => callback[c].token # None
TInv == ConnectionTypeOK /\ TokenHeld

LEMMA TInit == ConnectionInit => TInv
  BY DEF ConnectionInit, TInv, ConnectionTypeOK, TokenHeld, CallbackAt

\* A callback that goes on stays typed and holds a token when it should.
LEMMA CallbackSet ==
    ASSUME TInv, NEW c \in Callbacks, NEW task \in Callback \cup {None}, SetCallback(c, task),
           task # None /\ task.pc \in {"find", "save"} => task.token # None
    PROVE  callback' \in [Callbacks -> Callback \cup {None}] /\ TokenHeld'
  BY DEF TInv, ConnectionTypeOK, SetCallback, TokenHeld, CallbackAt

LEMMA CallbackFields ==
    ASSUME TInv, NEW c \in Callbacks, callback[c] # None
    PROVE  /\ callback[c] \in Callback /\ callback[c].user \in Users
           /\ callback[c].token \in Workspaces \cup {None}
           /\ callback[c].row \in ConnectionIds \cup {None}
  BY DEF TInv, ConnectionTypeOK, Callback

LEMMA ResolutionFields ==
    ASSUME TInv, NEW r \in Resolutions, resolution[r] # None
    PROVE  /\ resolution[r] \in Resolution /\ resolution[r].target \in Targets
           /\ resolution[r].id \in ConnectionIds /\ resolution[r].token \in Workspaces
           /\ resolution[r].base \in [Targets -> Workspaces \cup {None}]
  BY DEF TInv, ConnectionTypeOK, Resolution

LEMMA StandingConnection ==
    ASSUME TInv, connection # None
    PROVE  /\ connection \in Connection /\ connection.id \in ConnectionIds
           /\ connection.token \in Workspaces /\ connection.shown \in Workspaces
           /\ connection.base \in [Targets -> Workspaces \cup {None}]
  BY DEF TInv, ConnectionTypeOK, Connection

LEMMA SavedConnectionType ==
    ASSUME TInv, NEW w \in Workspaces
    PROVE  /\ connection # None => Reconnected(connection, w) \in Connection
           /\ \A i \in ConnectionIds : NewConnection(i, w) \in Connection
           /\ \A r \in Resolutions :
                connection # None /\ resolution[r] # None => WrittenBack(r) \in Connection
  BY StandingConnection, ResolutionFields
  DEF Connection, Reconnected, NewConnection, WrittenBack

LEMMA CallbackType ==
    ASSUME TInv, NEW c \in Callbacks, CallbackStep(c) PROVE TInv'
  <1>1. ASSUME NEW u \in Users, CallbackVerify(c, u) PROVE TInv'
    <2>1. [pc |-> "owner", user |-> u, token |-> None, row |-> None] \in Callback
      BY DEF Callback
    <2>2. callback' \in [Callbacks -> Callback \cup {None}] /\ TokenHeld'
      BY <1>1, <2>1, CallbackSet DEF CallbackVerify
    <2> QED
      BY <1>1, <2>2 DEF CallbackVerify, SetCallback, TInv, ConnectionTypeOK
  <1>2. CASE CallbackOwner(c)
    <2>1. [callback[c] EXCEPT !.pc = "exchange"] \in Callback
      BY <1>2, CallbackFields DEF CallbackOwner, CallbackAt, Callback
    <2>2. [callback[c] EXCEPT !.pc = "exchange"].pc = "exchange"
      BY <1>2, CallbackFields DEF CallbackOwner, CallbackAt, Callback
    <2>3. callback' \in [Callbacks -> Callback \cup {None}] /\ TokenHeld'
      BY <1>2, <2>1, <2>2, CallbackSet DEF CallbackOwner
    <2> QED
      BY <1>2, <2>3 DEF CallbackOwner, SetCallback, TInv, ConnectionTypeOK
  <1>3. CASE CallbackExchange(c)
    <2>1. ASSUME NEW w \in Workspaces
          PROVE  /\ [callback[c] EXCEPT !.pc = "find", !.token = w] \in Callback
                 /\ [callback[c] EXCEPT !.pc = "find", !.token = w].token # None
      BY <1>3, CallbackFields, ConnectionAssumption DEF CallbackExchange, CallbackAt, Callback
    <2>2. callback' \in [Callbacks -> Callback \cup {None}] /\ TokenHeld'
      BY <1>3, <2>1, CallbackSet DEF CallbackExchange
    <2> QED
      BY <1>3, <2>2 DEF CallbackExchange, SetCallback, TInv, ConnectionTypeOK
  <1>4. CASE CallbackFind(c)
    <2> DEFINE row == IF connection = None THEN None ELSE connection.id
               task == [callback[c] EXCEPT !.pc = "save", !.row = row]
    <2>1. row \in ConnectionIds \cup {None}
      BY StandingConnection
    <2>2. task \in Callback /\ task.token = callback[c].token
      BY <1>4, <2>1, CallbackFields DEF CallbackFind, CallbackAt, Callback
    <2>3. task.token # None
      BY <1>4, <2>2 DEF CallbackFind, TInv, TokenHeld
    <2>4. callback' \in [Callbacks -> Callback \cup {None}] /\ TokenHeld'
      BY <1>4, <2>2, <2>3, CallbackSet DEF CallbackFind
    <2> QED
      BY <1>4, <2>4 DEF CallbackFind, SetCallback, TInv, ConnectionTypeOK
  <1>5. CASE CallbackSave(c)
    <2>1. callback[c].token \in Workspaces /\ callback[c].row \in ConnectionIds \cup {None}
      BY <1>5, CallbackFields DEF CallbackSave, CallbackAt, TInv, TokenHeld
    <2>2. callback' \in [Callbacks -> Callback \cup {None}] /\ TokenHeld'
      BY <1>5, CallbackSet DEF CallbackSave
    <2>3. connection' \in Connection \cup {None} /\ granted' \in [ConnectionIds -> SUBSET Workspaces]
      BY <1>5, <2>1, SavedConnectionType DEF CallbackSave, Stands, TInv, ConnectionTypeOK
    <2> QED
      BY <1>5, <2>2, <2>3 DEF CallbackSave, SetCallback, TInv, ConnectionTypeOK
  <1> QED
    BY <1>1, <1>2, <1>3, <1>4, <1>5 DEF CallbackStep

LEMMA ResolutionType ==
    ASSUME TInv, NEW r \in Resolutions, ResolutionStep(r) PROVE TInv'
  <1>1. ASSUME NEW task \in Resolution \cup {None}, NEW row \in Connection \cup {None},
               SetResolution(r, task), connection' = row
        PROVE  TInv'
    BY <1>1 DEF SetResolution, TInv, ConnectionTypeOK, TokenHeld, CallbackAt
  <1>2. connection \in Connection \cup {None} /\ None \in Resolution \cup {None}
    BY DEF TInv, ConnectionTypeOK
  <1>3. ASSUME NEW t \in Targets, ResolveFind(r, t) PROVE TInv'
    <2>1. [pc |-> "search", target |-> t, id |-> connection.id, token |-> connection.token,
           base |-> connection.base] \in Resolution
      BY <1>3, StandingConnection DEF ResolveFind, Resolution
    <2> QED
      BY <1>1, <1>2, <1>3, <2>1 DEF ResolveFind
  <1>4. CASE ResolveSearch(r)
    <2> DEFINE found == [resolution[r] EXCEPT
                            !.pc = "save", !.base[resolution[r].target] = resolution[r].token]
    <2>1. found \in Resolution
      BY <1>4, ResolutionFields DEF ResolveSearch, ResolutionAt, Resolution
    <2> QED
      BY <1>1, <1>2, <1>4, <2>1 DEF ResolveSearch
  <1>5. CASE ResolveSave(r)
    <2>1. connection' \in Connection \cup {None}
      BY <1>2, <1>5, ResolutionFields, SavedConnectionType
      DEF ResolveSave, ResolutionAt, Stands
    <2> QED
      BY <1>1, <1>2, <1>5, <2>1 DEF ResolveSave
  <1> QED
    BY <1>3, <1>4, <1>5 DEF ResolutionStep

LEMMA TStep == TInv /\ [ConnectionNext]_connectionVars => TInv'
  <1> SUFFICES ASSUME TInv, [ConnectionNext]_connectionVars PROVE TInv'
    OBVIOUS
  <1>1. ASSUME NEW u \in Users, AuthorizeUrl(u) \/ StateExpires(u) \/ ChangeOwners(u) PROVE TInv'
    BY <1>1 DEF AuthorizeUrl, StateExpires, ChangeOwners, TInv, ConnectionTypeOK, TokenHeld, CallbackAt
  <1>2. CASE Disconnect
    BY <1>2 DEF Disconnect, TInv, ConnectionTypeOK, TokenHeld, CallbackAt
  <1>3. CASE ConnectionStop
    BY <1>3 DEF ConnectionStop, TInv, ConnectionTypeOK, TokenHeld, CallbackAt
  <1>4. CASE UNCHANGED connectionVars
    BY <1>4 DEF connectionVars, TInv, ConnectionTypeOK, TokenHeld, CallbackAt
  <1> QED
    BY <1>1, <1>2, <1>3, <1>4, CallbackType, ResolutionType DEF ConnectionNext

LEMMA TAlways == ConnectionSpec => []TInv
  BY TInit, TStep, PTL DEF ConnectionSpec

\* Every variable of the connection keeps its type.
THEOREM ConnectionTypeCorrect == ConnectionSpec => []ConnectionTypeOK
  BY TAlways, PTL DEF TInv

-----------------------------------------------------------------------------
(* Disconnecting forgets.                                                    *)

\* What the row and every copy of it hold comes from workspaces granted to that
\* very row.
BasesOf(base, i) == \A t \in Targets : base[t] # None => base[t] \in granted[i]
RowGranted ==
    connection # None =>
        /\ connection.token \in granted[connection.id]
        /\ connection.shown \in granted[connection.id]
        /\ BasesOf(connection.base, connection.id)
CopiesGranted ==
    \A r \in Resolutions : resolution[r] # None =>
        /\ resolution[r].token \in granted[resolution[r].id]
        /\ BasesOf(resolution[r].base, resolution[r].id)
GInv == RowGranted /\ CopiesGranted

LEMMA GInit == ConnectionInit => GInv
  BY DEF ConnectionInit, GInv, RowGranted, CopiesGranted

\* What has been granted stays granted.
LEMMA MoreGranted ==
    ASSUME TInv, NEW base \in [Targets -> Workspaces \cup {None}], NEW i \in ConnectionIds,
           BasesOf(base, i), granted[i] \subseteq granted'[i]
    PROVE  \A t \in Targets : base[t] # None => base[t] \in granted'[i]
  BY DEF BasesOf

LEMMA GCallbackSave ==
    ASSUME TInv, GInv, NEW c \in Callbacks, CallbackSave(c) PROVE GInv'
  <1> DEFINE w == callback[c].token
             i == callback[c].row
  <1>1. w \in Workspaces /\ i \in ConnectionIds \cup {None} /\ UNCHANGED resolution
    BY CallbackFields DEF CallbackSave, CallbackAt, SetCallback, TInv, TokenHeld
  <1>2. \A k \in ConnectionIds : granted[k] \subseteq granted'[k]
    BY <1>1 DEF CallbackSave, TInv, ConnectionTypeOK
  <1>3. CopiesGranted'
    BY <1>1, <1>2, ResolutionFields DEF GInv, CopiesGranted, BasesOf
  <1>4. CASE Stands(i) /\ connection' = Reconnected(connection, w)
             /\ granted' = [granted EXCEPT ![i] = @ \cup {w}]
    <2>1. connection # None /\ connection.id = i /\ i \in ConnectionIds
      BY <1>4, StandingConnection DEF Stands
    <2>2. /\ connection'.id = i /\ connection'.token = w /\ connection'.shown = w
          /\ connection'.base = connection.base
      BY <1>4, <2>1, StandingConnection DEF Reconnected, Connection
    <2>3. w \in granted'[i]
      BY <1>4, <2>1 DEF TInv, ConnectionTypeOK
    <2> QED
      BY <1>2, <1>3, <2>1, <2>2, <2>3 DEF GInv, RowGranted, BasesOf
  <1>5. ASSUME NEW new \in ConnectionIds, connection' = NewConnection(new, w),
               granted' = [granted EXCEPT ![new] = {w}]
        PROVE  GInv'
    <2>1. w \in granted'[new]
      BY <1>5 DEF TInv, ConnectionTypeOK
    <2>2. /\ connection'.id = new /\ connection'.token = w /\ connection'.shown = w
          /\ \A t \in Targets : connection'.base[t] = None
      BY <1>5 DEF NewConnection
    <2> QED
      BY <1>3, <2>1, <2>2 DEF GInv, RowGranted, BasesOf
  <1>6. CASE UNCHANGED <<connection, granted>>
    BY <1>3, <1>6 DEF GInv, RowGranted, BasesOf
  <1> QED
    BY <1>4, <1>5, <1>6 DEF CallbackSave

LEMMA GResolution ==
    ASSUME TInv, GInv, NEW r \in Resolutions, ResolutionStep(r) PROVE GInv'
  <1>0. UNCHANGED granted /\ \A q \in Resolutions : q # r => resolution'[q] = resolution[q]
    BY DEF ResolutionStep, ResolveFind, ResolveSearch, ResolveSave, SetResolution,
           TInv, ConnectionTypeOK
  <1>1. ASSUME NEW t \in Targets, ResolveFind(r, t) PROVE GInv'
    <2>1. resolution'[r] = [pc |-> "search", target |-> t, id |-> connection.id,
                            token |-> connection.token, base |-> connection.base]
      BY <1>1 DEF ResolveFind, SetResolution, TInv, ConnectionTypeOK
    <2> QED
      BY <1>0, <1>1, <2>1 DEF ResolveFind, GInv, RowGranted, CopiesGranted, BasesOf
  <1>2. CASE ResolveSearch(r)
    <2> DEFINE old == resolution[r]
               found == [old EXCEPT !.pc = "save", !.base[old.target] = old.token]
    <2>1. /\ old \in Resolution /\ old.base \in [Targets -> Workspaces \cup {None}]
          /\ old.token \in granted[old.id] /\ BasesOf(old.base, old.id)
      BY <1>2, ResolutionFields DEF ResolveSearch, ResolutionAt, GInv, CopiesGranted
    <2>2. /\ found.id = old.id /\ found.token = old.token
          /\ \A t \in Targets : found.base[t] \in {old.base[t], old.token}
      BY <2>1 DEF Resolution
    <2>3. resolution'[r] \in {found, None}
      BY <1>2 DEF ResolveSearch, SetResolution, TInv, ConnectionTypeOK
    <2>4. resolution'[r] # None =>
            /\ resolution'[r].token \in granted[resolution'[r].id]
            /\ BasesOf(resolution'[r].base, resolution'[r].id)
      BY <2>1, <2>2, <2>3 DEF BasesOf
    <2> QED
      BY <1>0, <1>2, <2>4 DEF ResolveSearch, GInv, RowGranted, CopiesGranted, BasesOf
  <1>3. CASE ResolveSave(r)
    <2>1. resolution'[r] = None
      BY <1>3 DEF ResolveSave, SetResolution, TInv, ConnectionTypeOK
    <2>2. CopiesGranted'
      BY <1>0, <2>1 DEF GInv, CopiesGranted, BasesOf
    <2>3. CASE Stands(resolution[r].id)
      <3>1. /\ resolution[r].token \in granted[resolution[r].id]
            /\ BasesOf(resolution[r].base, resolution[r].id)
        BY <1>3 DEF ResolveSave, ResolutionAt, GInv, CopiesGranted
      <3>2. /\ connection'.id = connection.id /\ connection'.shown = connection.shown
            /\ connection'.token = resolution[r].token /\ connection'.base = resolution[r].base
            /\ connection # None /\ connection.id = resolution[r].id
        BY <1>3, <2>3, StandingConnection DEF ResolveSave, Stands, WrittenBack, Connection
      <3> QED
        BY <1>0, <2>2, <3>1, <3>2 DEF GInv, RowGranted, BasesOf
    <2>4. CASE UNCHANGED connection
      BY <1>0, <2>2, <2>4 DEF GInv, RowGranted, BasesOf
    <2> QED
      BY <1>3, <2>3, <2>4 DEF ResolveSave
  <1> QED
    BY <1>1, <1>2, <1>3 DEF ResolutionStep

LEMMA GStep == TInv /\ GInv /\ [ConnectionNext]_connectionVars => GInv'
  <1> SUFFICES ASSUME TInv, GInv, [ConnectionNext]_connectionVars PROVE GInv'
    OBVIOUS
  <1>1. CASE UNCHANGED <<connection, granted, resolution>>
    BY <1>1 DEF GInv, RowGranted, CopiesGranted, BasesOf
  <1>2. CASE Disconnect
    BY <1>2 DEF Disconnect, GInv, RowGranted, CopiesGranted, BasesOf
  <1>3. CASE ConnectionStop
    BY <1>3 DEF ConnectionStop, GInv, RowGranted, CopiesGranted, BasesOf
  <1>4. ASSUME NEW c \in Callbacks, CallbackStep(c) PROVE GInv'
    BY <1>1, <1>4, GCallbackSave
    DEF CallbackStep, CallbackVerify, CallbackOwner, CallbackExchange, CallbackFind, SetCallback
  <1> QED
    BY <1>1, <1>2, <1>3, <1>4, GResolution
    DEF ConnectionNext, AuthorizeUrl, StateExpires, ChangeOwners, connectionVars

\* A connection holds nothing of an earlier one, whatever requests were under
\* way when that was disconnected.
THEOREM DisconnectingForgets == ConnectionSpec => []DisconnectForgets
  <1>1. GInv => DisconnectForgets
    BY DEF GInv, RowGranted, BasesOf, DisconnectForgets
  <1> QED
    BY <1>1, GInit, GStep, TAlways, PTL DEF ConnectionSpec

-----------------------------------------------------------------------------
(* The workspace shown.                                                      *)

\* A base search that will save holds the token of the row.
SInv ==
    /\ TokenIsShown
    /\ \A r \in Resolutions :
         resolution[r] # None /\ Stands(resolution[r].id) => resolution[r].token = connection.token

LEMMA SInit == ConnectionInit => SInv
  BY DEF ConnectionInit, SInv, TokenIsShown, Stands

LEMMA SCallbackSave ==
    ASSUME TInv, SInv, ~SearchMeetsCallback, NEW c \in Callbacks, CallbackSave(c) PROVE SInv'
  <1>1. (\A r \in Resolutions : resolution[r] = None) /\ UNCHANGED resolution
    BY DEF SearchMeetsCallback, CallbackSave, SetCallback
  <1>2. connection' # None => connection'.token = connection'.shown
    <2>1. ASSUME NEW w, connection # None
          PROVE  Reconnected(connection, w).token = Reconnected(connection, w).shown
      BY <2>1, StandingConnection DEF Reconnected, Connection
    <2>2. ASSUME NEW w, NEW i PROVE NewConnection(i, w).token = NewConnection(i, w).shown
      BY DEF NewConnection
    <2> QED
      BY <2>1, <2>2 DEF CallbackSave, Stands, SInv, TokenIsShown
  <1> QED
    BY <1>1, <1>2 DEF SInv, TokenIsShown

LEMMA SResolution ==
    ASSUME TInv, SInv, NEW r \in Resolutions, ResolutionStep(r) PROVE SInv'
  <1>0. \A q \in Resolutions : q # r => resolution'[q] = resolution[q]
    BY DEF ResolutionStep, ResolveFind, ResolveSearch, ResolveSave, SetResolution,
           TInv, ConnectionTypeOK
  <1>1. ASSUME NEW t \in Targets, ResolveFind(r, t) PROVE SInv'
    <2>1. resolution'[r].token = connection.token
      BY <1>1 DEF ResolveFind, SetResolution, TInv, ConnectionTypeOK
    <2> QED
      BY <1>0, <1>1, <2>1 DEF ResolveFind, SInv, TokenIsShown, Stands
  <1>2. CASE ResolveSearch(r)
    <2> DEFINE old == resolution[r]
               found == [old EXCEPT !.pc = "save", !.base[old.target] = old.token]
    <2>a. resolution'[r] \in {found, None}
      BY <1>2 DEF ResolveSearch, SetResolution, TInv, ConnectionTypeOK
    <2>b. found.id = old.id /\ found.token = old.token
      BY <1>2, ResolutionFields DEF ResolveSearch, ResolutionAt, Resolution
    <2>1. resolution'[r] # None =>
            resolution'[r].id = resolution[r].id /\ resolution'[r].token = resolution[r].token
      BY <2>a, <2>b
    <2>2. resolution[r] # None /\ UNCHANGED connection
      BY <1>2 DEF ResolveSearch, ResolutionAt
    <2> QED
      BY <1>0, <2>1, <2>2 DEF SInv, TokenIsShown, Stands
  <1>3. CASE ResolveSave(r)
    <2>1. resolution'[r] = None /\ resolution[r] # None
      BY <1>3 DEF ResolveSave, ResolutionAt, SetResolution, TInv, ConnectionTypeOK
    <2>2. CASE Stands(resolution[r].id)
      <3>1. /\ connection'.id = connection.id /\ connection'.shown = connection.shown
            /\ connection'.token = resolution[r].token /\ connection # None
        BY <1>3, <2>2, StandingConnection DEF ResolveSave, Stands, WrittenBack, Connection
      <3>2. connection'.token = connection.token
        BY <2>1, <2>2, <3>1 DEF SInv
      <3> QED
        BY <1>0, <2>1, <3>1, <3>2 DEF SInv, TokenIsShown, Stands
    <2>3. CASE UNCHANGED connection
      BY <1>0, <2>1, <2>3 DEF SInv, TokenIsShown, Stands
    <2> QED
      BY <1>3, <2>2, <2>3 DEF ResolveSave
  <1> QED
    BY <1>1, <1>2, <1>3 DEF ResolutionStep

LEMMA SStep ==
    TInv /\ SInv /\ ~SearchMeetsCallback /\ [ConnectionNext]_connectionVars => SInv'
  <1> SUFFICES ASSUME TInv, SInv, ~SearchMeetsCallback, [ConnectionNext]_connectionVars
               PROVE  SInv'
    OBVIOUS
  <1>1. CASE UNCHANGED <<connection, resolution>>
    BY <1>1 DEF SInv, TokenIsShown, Stands
  <1>2. CASE Disconnect
    BY <1>2 DEF Disconnect, SInv, TokenIsShown, Stands
  <1>3. CASE ConnectionStop
    BY <1>3 DEF ConnectionStop, SInv, TokenIsShown
  <1>4. ASSUME NEW c \in Callbacks, CallbackStep(c) PROVE SInv'
    BY <1>1, <1>4, SCallbackSave
    DEF CallbackStep, CallbackVerify, CallbackOwner, CallbackExchange, CallbackFind, SetCallback
  <1> QED
    BY <1>1, <1>2, <1>3, <1>4, SResolution
    DEF ConnectionNext, AuthorizeUrl, StateExpires, ChangeOwners, connectionVars

\* As long as no callback saves during a search, the token opens the workspace
\* the settings show.
THEOREM SerialSearchesKeepToken == ConnectionSpec => SerialTokenIsShown
  <1>1. SInv => TokenIsShown
    BY DEF SInv
  <1> QED
    BY <1>1, SInit, SStep, TAlways, PTL DEF ConnectionSpec, SerialTokenIsShown

====
