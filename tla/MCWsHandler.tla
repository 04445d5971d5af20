----------------------------- MODULE MCWsHandler -----------------------------
(* Small instances of WsHandler: two of the four channels. *)
EXTENDS WsHandler

SomeStates == {"DISCONNECT", "WAITING", "UNKNOWN"}
SomeNumbers == {"", "101"}
=============================================================================
