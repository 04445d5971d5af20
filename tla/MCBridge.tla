------------------------------ MODULE MCBridge ------------------------------
(***************************************************************************)
(* A small instance of Bridge: one channel, with a state that may be       *)
(* REC_UNKNOWN, and one string.                                            *)
(***************************************************************************)
EXTENDS Bridge

CONSTANT h1

OneString == <<"dial">>
Unknown == {"unknown"}
StateOrDial == [f \in {"state", "dial"} |-> {"on"} \cup IF f = "state" THEN Unknown ELSE {}]

\* Bound: at any time one entry at most has a value other than its first one, in the table,
\* on its way there or to a browser, or with a browser.  A receive can always bring nothing,
\* so no thread is kept from going on.
UsedFor(e) ==
  sent[e] \cup {table[e], IF todo # <<>> /\ todo[1] = e THEN value ELSE Unset}
          \cup UNION {{last[h][e], view[h][e], IF Visited(h) = e THEN got[h] ELSE None}
                        : h \in Handlers}
OneAtATime ==
  \A e, f \in Entries : e = f \/ UsedFor(e) \cup {None, Unset} = {None, Unset}
                              \/ UsedFor(f) \cup {None, Unset} = {None, Unset}

MCSpec == BInit /\ [][BNext /\ OneAtATime']_bvars /\ BFairness
=============================================================================
