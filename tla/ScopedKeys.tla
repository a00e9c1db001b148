----------------------------- MODULE ScopedKeys ------------------------------
(***************************************************************************)
(* The session-scoped MCP keys of a SimulationClient (sim/client.py) and   *)
(* the clients that hold them (sim/mcp.py): granting, using, revoking, and *)
(* closing the client that tracks them.  A request may be refused, and its *)
(* answer may be lost after the service acted on it.                       *)
(***************************************************************************)
EXTENDS Naturals, FiniteSets

CONSTANTS Keys, MaxCloses        \* MaxCloses: bound of the model on client.close()

VARIABLES keys,        \* what the service holds: "none", "live" or "gone"
          scoped,      \* the SessionMCPClient of a key: "none", "open", "closed", "revoked"
          gateway,     \* the Mcp-Session-Id a client has seen first, 0 for none
          heard,       \* the gateway sessions whose answers a client accepted
          tracked,     \* _mcp_clients
          dropped,     \* history: keys without a client whose grant was lost, or was refused and
                       \* could not be revoked
          todo,        \* the clients that close() has yet to visit
          pending,     \* revocation_pending of close()
          http,        \* the transport that the SimulationClient owns
          work,        \* what the client is doing
          closes       \* calls of close()

keyVars == <<keys, scoped, gateway, heard, tracked, dropped, todo, pending, http, work, closes>>

GatewayIds == {1, 2}

KeysInit == /\ keys = [k \in Keys |-> "none"] /\ scoped = [k \in Keys |-> "none"]
            /\ gateway = [k \in Keys |-> 0] /\ heard = [k \in Keys |-> {}]
            /\ tracked = {} /\ dropped = {} /\ todo = {} /\ pending = {}
            /\ http = "open" /\ work = "idle" /\ closes = 0

\* the outcomes of DELETE /v1/api-keys/k: TRUE when the client learns of a success
Revocation(k, done) ==
  IF http = "closed" THEN ~done /\ UNCHANGED keys
  ELSE \/ done /\ keys' = [keys EXCEPT ![k] = "gone"]
       \/ ~done /\ keys' \in {keys, [keys EXCEPT ![k] = "gone"]}

(* mcp_session: the key, then the checks of the grant. *)
GrantFails(k) ==
  /\ work = "idle" /\ keys[k] = "none" /\ http = "open"
  /\ \/ UNCHANGED <<keys, dropped>>
     \/ keys' = [keys EXCEPT ![k] = "live"] /\ dropped' = dropped \cup {k}  \* or without id
  /\ UNCHANGED <<scoped, gateway, heard, tracked, todo, pending, http, work, closes>>

Grant(k) ==
  /\ work = "idle" /\ keys[k] = "none" /\ http = "open"
  /\ keys' = [keys EXCEPT ![k] = "live"]
  /\ scoped' = [scoped EXCEPT ![k] = "open"]
  /\ tracked' = tracked \cup {k}
  /\ UNCHANGED <<gateway, heard, dropped, todo, pending, http, work, closes>>

\* a grant for another session or of another kind: the key is revoked, if it can be
GrantMalformed(k) ==
  /\ work = "idle" /\ keys[k] = "none" /\ http = "open"
  /\ \/ keys' = [keys EXCEPT ![k] = "gone"] /\ UNCHANGED dropped
     \/ keys' \in {[keys EXCEPT ![k] = "live"], [keys EXCEPT ![k] = "gone"]}
        /\ dropped' = dropped \cup {k}
  /\ UNCHANGED <<scoped, gateway, heard, tracked, todo, pending, http, work, closes>>

(* SessionMCPClient.call_tool *)
CallTool(k) ==
  /\ work = "idle" /\ scoped[k] = "open" /\ http = "open"
  /\ \E id \in GatewayIds \cup {0}, parses \in BOOLEAN :   \* id 0: no such header
       /\ gateway' = [gateway EXCEPT ![k] = IF @ = 0 THEN id ELSE @]
       /\ heard' = IF parses /\ id # 0 /\ gateway[k] \in {0, id}
                   THEN [heard EXCEPT ![k] = @ \cup {id}] ELSE heard
  /\ UNCHANGED <<keys, scoped, tracked, dropped, todo, pending, http, work, closes>>

(* SessionMCPClient.close, on its own and from SimulationClient.close *)
Revoke(k, done) ==
  IF scoped[k] = "revoked" THEN done /\ UNCHANGED <<keys, scoped>>
  ELSE /\ Revocation(k, done)
       /\ scoped' = [scoped EXCEPT ![k] = IF done THEN "revoked" ELSE "closed"]

CloseKey(k) ==
  /\ work = "idle" /\ scoped[k] # "none"
  /\ \E done \in BOOLEAN : Revoke(k, done)
  /\ UNCHANGED <<gateway, heard, tracked, dropped, todo, pending, http, work, closes>>

Close == /\ work = "idle" /\ closes < MaxCloses
         /\ work' = "closing" /\ closes' = closes + 1
         /\ todo' = tracked /\ pending' = {}
         /\ UNCHANGED <<keys, scoped, gateway, heard, tracked, dropped, http>>

CloseNext(k) ==
  /\ work = "closing" /\ k \in todo
  /\ todo' = todo \ {k}
  /\ \E done \in BOOLEAN : /\ Revoke(k, done)
                           /\ pending' = IF done THEN pending ELSE pending \cup {k}
  /\ UNCHANGED <<gateway, heard, tracked, dropped, http, work, closes>>

\* A change of the code: close ends whatever became of the revocations.
CloseEndsAnyway == /\ work = "closing" /\ todo = {}
                   /\ tracked' = {} /\ http' = "closed"
                   /\ work' = "idle"
                   /\ UNCHANGED <<keys, scoped, gateway, heard, dropped, todo, pending, closes>>

CloseEnds == /\ work = "closing" /\ todo = {}
             /\ tracked' = pending
             /\ http' = IF pending = {} THEN "closed" ELSE http
             /\ work' = "idle"
             /\ UNCHANGED <<keys, scoped, gateway, heard, dropped, todo, pending, closes>>

KeyStep(k) == \/ GrantFails(k) \/ Grant(k) \/ GrantMalformed(k)
              \/ CallTool(k) \/ CloseKey(k) \/ CloseNext(k)
KeysNext   == (\E k \in Keys : KeyStep(k)) \/ Close \/ CloseEnds
KeysSpec   == KeysInit /\ [][KeysNext]_keyVars

\* A live key is tracked, so that close() can be repeated until it is revoked,
\* or it is one that was never handed out: its grant was lost on the way, or was
\* refused by the checks of mcp_session and the attempt to revoke it failed,
\* which is passed over, so that nothing revokes it before it expires.  A client
\* that calls itself revoked has no live key; and the transport is closed only
\* when no tracked key is left (close, mcp_session and SessionMCPClient.close).
NoKeyForgotten ==
  /\ \A k \in Keys : /\ keys[k] = "live" => k \in tracked \cup dropped
                     /\ k \in dropped => scoped[k] = "none"
                     /\ scoped[k] = "revoked" => keys[k] = "gone"
  /\ http = "closed" => tracked = {}

\* The answers that one client accepts come from one gateway session, also when
\* the gateway changes or omits its header in between (_preserve_mcp_session).
OneGatewaySession == \A k \in Keys : Cardinality(heard[k]) <= 1

\* Both hold together: no live key that was handed out is out of sight, and one
\* gateway session for each client (mcp_session, SessionMCPClient).
KeysStayInSight == NoKeyForgotten /\ OneGatewaySession
=============================================================================
