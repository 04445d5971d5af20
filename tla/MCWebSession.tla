---------------------------- MODULE MCWebSession ----------------------------
(***************************************************************************)
(* A small instance of WebSession: the three pages and a style sheet exist.  *)
(***************************************************************************)
EXTENDS WebSession, TLC

CONSTANTS t1, t2

Present == {Top("Default"), Top("DefaultError"), Top("Channel"), Top("css"),
            [dir |-> "sub", page |-> "Channel"]}
Sub(page) == [dir |-> "sub", page |-> page]
By(method, to) == [method |-> method, to |-> to]
Some == {By("POST right", Top("Default")), By("POST wrong", Top("Default")),
         By("POST right", Top("Channel")), By("PUT", Top("Default")), By("GET upgrade", Top("ws")),
         Get(Top("")), Get(Top("Default")), Get(Top("Default?Logout")), Get(Top("DefaultError")),
         Get(Top("Channel")), Get(Top("css")), Get(Top("ogg")), Get(Top("ws")), Get(Top("other")),
         Get(Sub("Channel")), Get(Sub("Default"))}
=============================================================================
