----------------------------- MODULE MCSettings -----------------------------
(***************************************************************************)
(* A small instance of Settings: ACCOUNT and two channel tables, which     *)
(* share a key and of which one has a second (SERVER is made like them).   *)
(***************************************************************************)
EXTENDS Settings, TLC

CONSTANTS h1, h2

Channels == <<"CH0", "CH1">>
NameAndStatus == ("CH0" :> <<"Name", "Status">>) @@ ("CH1" :> <<"Name">>)
HandleSymmetry == Permutations(Handles)

\* Bound: the accounts are at work only as long as no key table has been made (an
\* operation of the one touches nothing of the other); making ACCOUNT and its
\* administrator is not restricted.
AccountsAtWork ==
  lastId > 1 \/ \E h \in Handles : listed[h] # {} \/ edited[h] # 0 \/ pc[h] = "delete"
AccountsAlone == AccountsAtWork => KeyTables \cap exists = {}

MCSpec == Init /\ [][Next /\ AccountsAlone']_vars
=============================================================================
