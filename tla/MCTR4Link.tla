------------------------------ MODULE MCTR4Link ------------------------------
(* Small instances of TR4Link: two of the four channels. *)
EXTENDS TR4Link

CONSTANT h1

\* dial and cid are treated alike everywhere: one of them stands for both.
OneString == <<"dial">>
OneContent == [f \in {"state", "dial"} |-> {"on"}]
=============================================================================
