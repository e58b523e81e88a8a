------------------------------ MODULE MCTypeScript ------------------------------
(***************************************************************************)
(* The TypeScript client, transports and servers, the dual dialect stream  *)
(* and the MCP session, one part at a time: the parts share no state here, *)
(* so a behaviour runs one of them and the others rest in a state in which *)
(* nothing of theirs is fair.                                              *)
(***************************************************************************)
EXTENDS TsClient, TsTransport, TsServer, DualDialect, McpStdio

VARIABLE part   \* the part that runs

vars == <<part, clientVars, transportVars, serverVars, dialectVars, mcpVars>>

ClientRests == ClientInit /\ duplex = FALSE /\ reuse = FALSE
TransportRests == TransportInit /\ kind = "tcp"
ServerRests == ServerInit /\ serving = "tcp"
DialectRests == DialectInit /\ preferred = "jsonrpc"

Init ==
  \/ /\ part = "client"
     /\ ClientInit /\ TransportRests /\ ServerRests /\ DialectRests /\ McpInit
  \/ /\ part = "transport"
     /\ ClientRests /\ TransportInit /\ ServerRests /\ DialectRests /\ McpInit
  \/ /\ part = "server"
     /\ ClientRests /\ TransportRests /\ ServerInit /\ DialectRests /\ McpInit
  \/ /\ part = "dialects"
     /\ ClientRests /\ TransportRests /\ ServerRests /\ DialectInit /\ McpInit
  \/ /\ part = "mcp"
     /\ ClientRests /\ TransportRests /\ ServerRests /\ DialectRests /\ McpInit

\* All connections but the first one send a document at most.
ServerBound == \A k \in Peers \ {FirstPeer} : conn'[k].accepted <= 1

Next ==
  \/ /\ part = "client" /\ ClientNext
     /\ UNCHANGED <<part, transportVars, serverVars, dialectVars, mcpVars>>
  \/ /\ part = "transport" /\ TransportNext
     /\ UNCHANGED <<part, clientVars, serverVars, dialectVars, mcpVars>>
  \/ /\ part = "server" /\ ServerNext /\ ServerBound
     /\ UNCHANGED <<part, clientVars, transportVars, dialectVars, mcpVars>>
  \/ /\ part = "dialects" /\ DialectNext
     /\ UNCHANGED <<part, clientVars, transportVars, serverVars, mcpVars>>
  \/ /\ part = "mcp" /\ McpNext
     /\ UNCHANGED <<part, clientVars, transportVars, serverVars, dialectVars>>

Spec == Init /\ [][Next]_vars /\ ClientFairness /\ TransportFairness /\ ServerFairness /\ McpFairness
=================================================================================
