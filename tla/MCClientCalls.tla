---------------------------- MODULE MCClientCalls ----------------------------
(* ClientCalls for TLC: one transport of each kind, a socket before HTTP in *)
(* the composite.                                                           *)
EXTENDS ClientCalls, TLC

CONSTANTS http, ws, reconnecting

AllTransports == {http, ws, reconnecting}
KindOf == (http :> "http") @@ (ws :> "ws") @@ (reconnecting :> "reconnecting")
WsThenHttp == <<ws, http>>
=============================================================================
