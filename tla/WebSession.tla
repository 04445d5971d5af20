----------------------------- MODULE WebSession -----------------------------
(***************************************************************************)
(* Requests of one browser with several tabs, and what                     *)
(* CClientHandlerFactory and CClientHandler answer: login, logout, pages.  *)
(* Every request has a handler object and a thread of its own, and the     *)
(* server keeps nothing between requests but the account table: the        *)
(* session is the browser's cookie Session.                                *)
(*                                                                         *)
(* The browser is external: a request carries the cookie jar as it is when *)
(* it is sent, an answer changes the jar when it arrives, and a redirect,  *)
(* whose target the code gives without a path, is followed after that,     *)
(* within the directory of the address it answers.                         *)
(***************************************************************************)
EXTENDS Naturals

CONSTANTS
  Tabs,
  Files,    \* the addresses for which there is a file
  Wishes,   \* the requests that users make
  MaxAsks   \* bound: what the user asks for, and changes of the jar by others

\* An address: its directory, and its last part by what the code tests it for.
Htm == {"Default", "Default?Logout", "DefaultError", "Channel"}
Assets == {"css", "ogg"}
Addresses == [dir : {"top", "sub"}, page : Htm \cup Assets \cup {"", "ws", "other"}]
Top(page) == [dir |-> "top", page |-> page]

Methods == {"GET", "POST right", "POST wrong", "PUT", "GET upgrade"}
Requests == [method : Methods, to : Addresses]
Get(to) == [method |-> "GET", to |-> to]

ASSUME FilesAssumption ==
  /\ {Top("Default"), Top("DefaultError"), Top("Channel")} \subseteq Files
  /\ Files \subseteq Addresses /\ Wishes \subseteq Requests /\ MaxAsks \in Nat

Cookies == {"absent", "Login", "else"}
NoCookie == "keep"
Answers == [kind : {"page", "redirect", "failure", "silence", "socket"}, to : Addresses,
            cookie : {NoCookie, "Login", "absent"}]

VARIABLES
  jar,        \* the browser's cookie Session
  pc,         \* pc[t]: "idle", "asked", "answered", "redirected", "shown", "failed", "live"
  request,    \* request[t]: the request of t
  carried,    \* carried[t]: the cookie it carries
  answer,     \* answer[t]: the answer under way, then the one shown
  goal,       \* history: the page that t's login or logout was to lead to
  disturbed,  \* history: the tabs beside whose redirects another changed the jar
  accepted,   \* history: a login was accepted
  forged,     \* history: the browser got the cookie "Login" from somebody else
  asks        \* what the user, or another server on this host, has done so far

vars == <<jar, pc, request, carried, answer, goal, disturbed, accepted, forged, asks>>

NoGoal == ""
Answer(kind, to, cookie) == [kind |-> kind, to |-> to, cookie |-> cookie]
Page(to) == Answer("page", to, NoCookie)
Failure(to) == Answer("failure", to, NoCookie)
Silence(to) == Answer("silence", to, NoCookie)
Socket(to) == Answer("socket", to, NoCookie)
RedirectWith(from, page, cookie) == Answer("redirect", [dir |-> from.dir, page |-> page], cookie)
Redirect(from, page) == RedirectWith(from, page, NoCookie)

Init ==
  /\ jar = "absent" /\ accepted = FALSE /\ forged = FALSE /\ asks = 0 /\ disturbed = {}
  /\ pc = [t \in Tabs |-> "idle"]
  /\ request = [t \in Tabs |-> Get(Top(""))]
  /\ carried = [t \in Tabs |-> "absent"]
  /\ answer = [t \in Tabs |-> Page(Top(""))]
  /\ goal = [t \in Tabs |-> NoGoal]

-----------------------------------------------------------------------------
(* The server                                                              *)

\* sendFile; the server answers an exception it throws with an error.
SendFile(to) == IF to \in Files THEN Page(to) ELSE Failure(to)

SomeCookie(cookie) == cookie # "absent"
LoggedIn(cookie) == cookie = "Login"

AnyCookieDefault(to, cookie) ==
  IF SomeCookie(cookie) THEN Redirect(to, "Channel") ELSE SendFile(Top("Default"))
ProcessDefault(to, cookie) ==
  IF LoggedIn(cookie) THEN Redirect(to, "Channel") ELSE SendFile(Top("Default"))

\* Its cookies have the age 0.
LogoutForgotten(to) == Redirect(to, "Default")
ProcessLogout(to) == RedirectWith(to, "Default", "absent")

\* No also when its SELECT fails.
CheckIfUserExists(m) == IF m = "POST right" THEN BOOLEAN ELSE {FALSE}

Accepted(to) == RedirectWith(to, "Channel", "Login")
ProcessLogin(m, to) ==
  {IF ok THEN Accepted(to) ELSE Redirect(to, "DefaultError") : ok \in CheckIfUserExists(m)}

\* The exception of a missing .ogg file is caught here, and nothing is sent.
ProcessOtherReqs(to, cookie) ==
  CASE to.page = "ogg" -> IF to \in Files THEN Page(to) ELSE Silence(to)
    [] to.page \in Assets \ {"ogg"} -> SendFile(to)
    [] to.page \in Htm -> IF LoggedIn(cookie) THEN SendFile(to) ELSE Redirect(to, "Default")
    [] to.page = "ws" -> Redirect(to, "Default")
    [] OTHER -> Silence(to)

HandleGet(to, cookie) ==
  CASE to = Top("DefaultError") -> SendFile(to)
    [] to \in {Top(""), Top("Default")} -> ProcessDefault(to, cookie)
    [] to = Top("Default?Logout") -> ProcessLogout(to)
    [] OTHER -> ProcessOtherReqs(to, cookie)

HandlePost(m, to) == IF to = Top("Default") THEN ProcessLogin(m, to) ELSE {Silence(to)}

\* createRequestHandler looks at the Upgrade header only; a method that is none of the
\* two is not answered.
HandleRequest(m, to, cookie) ==
  CASE m = "GET upgrade" -> {Socket(to), Failure(to)}
    [] m = "GET" -> {HandleGet(to, cookie)}
    [] m \in {"POST right", "POST wrong"} -> HandlePost(m, to)
    [] OTHER -> {Silence(to)}

Handle(t) ==
  /\ pc[t] = "asked"
  /\ \E a \in HandleRequest(request[t].method, request[t].to, carried[t]) :
       /\ answer' = [answer EXCEPT ![t] = a]
       /\ accepted' = (accepted \/ a.cookie = "Login")
       /\ IF a.kind = "redirect" /\ (request[t].method # "GET" \/ request[t].to = Top("Default?Logout"))
            THEN goal' = [goal EXCEPT ![t] = a.to.page]
            ELSE UNCHANGED goal
  /\ pc' = [pc EXCEPT ![t] = "answered"]
  /\ UNCHANGED <<jar, request, carried, disturbed, forged, asks>>

-----------------------------------------------------------------------------
(* The browser                                                             *)

Send(t, r) ==
  /\ request' = [request EXCEPT ![t] = r]
  /\ carried' = [carried EXCEPT ![t] = jar]
  /\ pc' = [pc EXCEPT ![t] = "asked"]

\* The user asks for something, also in a tab that still waits for an answer.
Ask(t, r) ==
  /\ asks < MaxAsks /\ asks' = asks + 1
  /\ Send(t, r) /\ UNCHANGED <<jar, answer, accepted, forged>>
  /\ goal' = [goal EXCEPT ![t] = NoGoal] /\ disturbed' = disturbed \ {t}

Arrive(t) ==
  /\ pc[t] = "answered"
  /\ jar' = IF answer[t].cookie = NoCookie THEN jar ELSE answer[t].cookie
  /\ disturbed' = IF jar' = jar THEN disturbed ELSE disturbed \cup (Tabs \ {t})
  /\ pc' = [pc EXCEPT ![t] = CASE answer[t].kind = "redirect" -> "redirected"
                              [] answer[t].kind = "page" -> "shown"
                              [] answer[t].kind = "socket" -> "live"
                              [] OTHER -> "failed"]
  /\ UNCHANGED <<request, carried, answer, goal, accepted, forged, asks>>

\* By then the jar may have been changed by another tab.
Follow(t) ==
  /\ pc[t] = "redirected" /\ Send(t, Get(answer[t].to))
  /\ UNCHANGED <<jar, answer, goal, disturbed, accepted, forged, asks>>

\* Another server on this host, or the user, sets a cookie of the same name.  Its value
\* may be "Login": the cookie of a login is the same for everybody, and can be had without.
Meddle ==
  /\ asks < MaxAsks /\ asks' = asks + 1
  /\ \E c \in {"else", "Login"} : jar' = c /\ forged' = (forged \/ c = "Login")
  /\ disturbed' = Tabs
  /\ UNCHANGED <<pc, request, carried, answer, goal, accepted>>

Next ==
  \/ \E t \in Tabs : Handle(t) \/ Arrive(t) \/ Follow(t) \/ \E r \in Wishes : Ask(t, r)
  \/ Meddle

\* Every request gets its thread, and every answer arrives.
Fairness == \A t \in Tabs : WF_vars(Handle(t)) /\ WF_vars(Arrive(t)) /\ WF_vars(Follow(t))

Spec == Init /\ [][Next]_vars /\ Fairness

-----------------------------------------------------------------------------
(* Properties                                                              *)

TypeOK ==
  /\ jar \in Cookies /\ carried \in [Tabs -> Cookies]
  /\ pc \in [Tabs -> {"idle", "asked", "answered", "redirected", "shown", "failed", "live"}]
  /\ request \in [Tabs -> Requests] /\ answer \in [Tabs -> Answers]
  /\ goal \in [Tabs -> {NoGoal, "Channel", "Default", "DefaultError"}]
  /\ disturbed \subseteq Tabs /\ accepted \in BOOLEAN /\ forged \in BOOLEAN

\* A login that is accepted ends at the channels, one that is refused at the error page,
\* and a logout at the login form, through all redirects and the cookies they carry,
\* unless another tab or server changes the cookie in between.
ReachesGoal ==
  \A t \in Tabs : goal[t] # NoGoal /\ t \notin disturbed =>
    /\ pc[t] # "failed"
    /\ pc[t] = "shown" => answer[t].to = Top(goal[t])

\* Pages behind the login are shown only in answer to a request that carried the cookie of
\* a login, whichever tab asks and in whatever order answers arrive; and that cookie a
\* browser has only after a login of its own, or from somebody who sets it without: the
\* server knows who logged in by the constant Session=Login and nothing else.
Public == {Top("Default"), Top("DefaultError")}
PagesAfterLogin ==
  /\ \A t \in Tabs : pc[t] = "shown" /\ answer[t].to.page \in Htm /\ answer[t].to \notin Public
                       => carried[t] = "Login"
  /\ ~accepted /\ ~forged => jar # "Login" /\ \A t \in Tabs : carried[t] # "Login"

\* Without the cookie, an .htm address in a directory is answered with a redirect to
\* Default.htm in the same directory, which is such an address again.
Astray(t) == request[t].to.dir = "sub" /\ jar # "Login"

\* The redirects of ProcessDefault and ProcessOtherReqs to each other come to an end:
\* a tab does not load for ever, for any cookie, except when it has gone astray.
RedirectsEnd == \A t \in Tabs : []<>(pc[t] \notin {"asked", "answered", "redirected"} \/ Astray(t))
=============================================================================
