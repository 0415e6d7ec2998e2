------------------------------ MODULE Connections ------------------------------
(***************************************************************************)
(* The WebSocket connections the server may have (ConnId).  What the       *)
(* transport, the session manager, the subscription manager and the        *)
(* outbound stack know of a client, they know by its connection.           *)
(***************************************************************************)
CONSTANT Conns
================================================================================
