---------------------------- MODULE MCWebSocket ----------------------------
(* WebSocket between a client and the session of a server.                 *)
EXTENDS WebSocket

MCPeers == {"client", "server"}

MCClocks == "client" :> {"close", "delay", "ping"} @@ "server" :> {"idle"}
MCCalls == "client" :> {"receive", "ping", "shutdown", "close"}
           @@ "server" :> {"receive", "send", "shutdown"}
MCSlotCalls == "client" :> {"receive", "shutdown", "close"} @@ "server" :> {"receive"}
=============================================================================
