-------------------------- MODULE WebSessionProofs --------------------------
(***************************************************************************)
(* Proofs about WebSession for every set of tabs, files and wishes.        *)
(*                                                                         *)
(* What the server answers is settled in lemmas on HandleRequest alone.    *)
(* The invariant then follows a login or logout from the answer that sets  *)
(* the cookie over the redirect to the page, and keeps account of who can  *)
(* have the cookie "Login" at all.                                         *)
(***************************************************************************)
EXTENDS WebSession, TLAPS

\* Nobody has the cookie before a login was accepted or it was forged.
Barred ==
  ~accepted /\ ~forged =>
    jar # "Login" /\ \A t \in Tabs : carried[t] # "Login" /\ answer[t].cookie # "Login"

\* What is answered or shown from behind the login was asked for with the cookie.
Behind ==
  \A t \in Tabs : pc[t] \in {"answered", "shown"} /\ answer[t].kind = "page"
                    /\ answer[t].to.page \in Htm /\ answer[t].to \notin Public
                    => carried[t] = "Login"

\* The cookie with which the page g is answered.
Admits(g, cookie) ==
  /\ g = "Channel" => cookie = "Login"
  /\ g = "Default" => cookie # "Login"

\* The answer that leads to g, and the cookie it sets.
LeadsTo(a, g) ==
  /\ a.kind = "redirect" /\ a.to = Top(g)
  /\ g = "Channel" => a.cookie = "Login"
  /\ g = "Default" => a.cookie = "absent"

\* How far a tab is on the way to its goal.
OnTheWay(t) ==
  CASE pc[t] = "asked" -> request[t] = Get(Top(goal[t])) /\ Admits(goal[t], carried[t])
    [] pc[t] = "answered" -> LeadsTo(answer[t], goal[t]) \/ answer[t] = Page(Top(goal[t]))
    [] pc[t] = "redirected" -> LeadsTo(answer[t], goal[t]) /\ Admits(goal[t], jar)
    [] OTHER -> pc[t] = "shown" /\ answer[t] = Page(Top(goal[t]))

Homeward == \A t \in Tabs : goal[t] # NoGoal /\ t \notin disturbed => OnTheWay(t)

ShownPages == \A t \in Tabs : pc[t] = "shown" => answer[t].kind = "page"

SessionInv == TypeOK /\ Barred /\ Behind /\ Homeward /\ ShownPages

-----------------------------------------------------------------------------
(* What the server answers                                                 *)

Goals == {"Channel", "Default", "DefaultError"}

LEMMA AnswerForms ==
  ASSUME NEW to, NEW page
  PROVE  /\ Page(to) = [kind |-> "page", to |-> to, cookie |-> NoCookie]
         /\ Failure(to) = [kind |-> "failure", to |-> to, cookie |-> NoCookie]
         /\ Silence(to) = [kind |-> "silence", to |-> to, cookie |-> NoCookie]
         /\ Socket(to) = [kind |-> "socket", to |-> to, cookie |-> NoCookie]
         /\ Redirect(to, page) = [kind |-> "redirect", to |-> [dir |-> to.dir, page |-> page],
                                  cookie |-> NoCookie]
BY DEF Page, Failure, Silence, Socket, Redirect, RedirectWith, Answer

LEMMA Tops ==
  ASSUME NEW page
  PROVE  Top(page).dir = "top" /\ Top(page).page = page
BY DEF Top

LEMMA TopAddress ==
  ASSUME NEW page \in Htm \cup Assets \cup {"", "ws", "other"}
  PROVE  Top(page) \in Addresses
BY DEF Top, Addresses

LEMMA AddressParts ==
  ASSUME NEW to \in Addresses
  PROVE  to.dir \in {"top", "sub"} /\ to.page \in Htm \cup Assets \cup {"", "ws", "other"}
BY DEF Addresses

LEMMA AddressOf ==
  ASSUME NEW dir \in {"top", "sub"}, NEW page \in Htm \cup Assets \cup {"", "ws", "other"}
  PROVE  [dir |-> dir, page |-> page] \in Addresses
BY DEF Addresses

LEMMA AnswerParts ==
  ASSUME NEW kind, NEW to, NEW cookie
  PROVE  /\ Answer(kind, to, cookie).kind = kind /\ Answer(kind, to, cookie).to = to
         /\ Answer(kind, to, cookie).cookie = cookie
BY DEF Answer

LEMMA AnswerIn ==
  ASSUME NEW kind \in {"page", "redirect", "failure", "silence", "socket"},
         NEW to \in Addresses, NEW cookie \in {NoCookie, "Login", "absent"}
  PROVE  Answer(kind, to, cookie) \in Answers
BY DEF Answer, Answers

LEMMA TopsDiffer ==
  ASSUME NEW page, NEW other, page # other
  PROVE  Top(page) # Top(other)
BY Tops

Named == {Top("DefaultError"), Top(""), Top("Default"), Top("Default?Logout")}

\* The branches of HandleGet, told apart.
LEMMA GetBranches ==
  ASSUME NEW to \in Addresses, NEW cookie \in Cookies
  PROVE  /\ to = Top("DefaultError") => HandleGet(to, cookie) = SendFile(to)
         /\ to = Top("") \/ to = Top("Default") => HandleGet(to, cookie) = ProcessDefault(to, cookie)
         /\ to = Top("Default?Logout") => HandleGet(to, cookie) = ProcessLogout(to)
         /\ to \notin Named => HandleGet(to, cookie) = ProcessOtherReqs(to, cookie)
<1>1. /\ Top("DefaultError") # Top("") /\ Top("DefaultError") # Top("Default")
      /\ Top("DefaultError") # Top("Default?Logout") /\ Top("") # Top("Default?Logout")
      /\ Top("Default") # Top("Default?Logout")
  <2>1. /\ "DefaultError" # "" /\ "DefaultError" # "Default" /\ "DefaultError" # "Default?Logout"
        /\ "" # "Default?Logout" /\ "Default" # "Default?Logout"
    OBVIOUS
  <2> QED BY <2>1, TopsDiffer
<1> QED BY <1>1 DEF HandleGet, Named

LEMMA OtherBranches ==
  ASSUME NEW to \in Addresses, NEW cookie \in Cookies
  PROVE  LET a == ProcessOtherReqs(to, cookie) IN
         \/ to.page \in Assets /\ a \in {Page(to), Failure(to), Silence(to)}
         \/ to.page \in Htm /\ a = IF cookie = "Login" THEN SendFile(to) ELSE Redirect(to, "Default")
         \/ to.page \in {"", "ws", "other"} /\ a \in {Redirect(to, "Default"), Silence(to)}
<1>1. to.page \in Htm \cup Assets \cup {"", "ws", "other"}
  BY AddressParts
<1>2. CASE to.page = "ogg"
  <2>1. ProcessOtherReqs(to, cookie) = IF to \in Files THEN Page(to) ELSE Silence(to)
    BY <1>2 DEF ProcessOtherReqs, Assets, Htm
  <2> QED BY <1>2, <2>1 DEF Assets
<1>3. CASE to.page = "css"
  <2>1. ProcessOtherReqs(to, cookie) = SendFile(to)
    BY <1>3 DEF ProcessOtherReqs, Assets, Htm
  <2>2. SendFile(to) = IF to \in Files THEN Page(to) ELSE Failure(to)
    BY DEF SendFile
  <2> QED BY <1>3, <2>1, <2>2 DEF Assets
<1>4. CASE to.page \in Htm
  BY <1>4 DEF ProcessOtherReqs, Assets, Htm, LoggedIn
<1>5. CASE to.page \in {"", "ws", "other"}
  BY <1>5 DEF ProcessOtherReqs, Assets, Htm
<1> QED BY <1>1, <1>2, <1>3, <1>4, <1>5 DEF Assets

LEMMA PageParts ==
  ASSUME NEW to \in Addresses
  PROVE  /\ Page(to) \in Answers /\ Page(to).kind = "page" /\ Page(to).to = to
         /\ Page(to).cookie = NoCookie /\ NoCookie # "Login"
BY AnswerParts, AnswerIn DEF Page, NoCookie

\* Each form of answer that a GET gets: its parts, and what it means.
GoodAnswer(a, to, cookie) ==
  /\ a \in Answers /\ a.cookie # "Login"
  /\ a.kind = "page" /\ a.to.page \in Htm /\ cookie # "Login"
       => a.to = Top("Default") \/ a.to = Top("DefaultError")
  /\ to = Top("Default?Logout") => LeadsTo(a, "Default")
  /\ \A g \in Goals : to = Top(g) /\ Admits(g, cookie) => a = Page(Top(g))

LEMMA GetForms ==
  ASSUME NEW to \in Addresses, NEW cookie \in Cookies
  PROVE  GoodAnswer(HandleGet(to, cookie), to, cookie)
<1>1. /\ Top("Default") \in Addresses /\ Top("DefaultError") \in Addresses /\ Top("") \in Addresses
      /\ Top("Channel") \in Addresses /\ Top("Default?Logout") \in Addresses
  BY TopAddress DEF Htm
<1>2. {Top("Default"), Top("DefaultError"), Top("Channel")} \subseteq Files
  BY FilesAssumption
<1>3. CASE to = Top("DefaultError")
  <2>1. HandleGet(to, cookie) = Page(to)
    BY <1>2, <1>3, GetBranches DEF SendFile
  <2>2. \A g \in Goals : to = Top(g) => g = "DefaultError"
    BY <1>3, Tops
  <2>3. to # Top("Default?Logout")
    BY <1>3, Tops
  <2> QED BY <1>1, <1>3, <2>1, <2>2, <2>3, PageParts DEF GoodAnswer
<1>4. CASE to = Top("") \/ to = Top("Default")
  <2>1. \A g \in Goals : to = Top(g) => g = "Default"
    BY <1>4, Tops DEF Goals
  <2>2. to # Top("Default?Logout")
    <3>1. "Default" # "Default?Logout" /\ "" # "Default?Logout"
      OBVIOUS
    <3> QED BY <1>4, <3>1, TopsDiffer
  <2>3. CASE cookie = "Login"
    <3>1. HandleGet(to, cookie) = Redirect(to, "Channel")
      BY <1>4, <2>3, GetBranches DEF ProcessDefault, LoggedIn
    <3>2. [dir |-> to.dir, page |-> "Channel"] \in Addresses
      BY AddressParts, AddressOf DEF Htm
    <3> QED BY <2>1, <2>2, <2>3, <3>1, <3>2, AnswerParts, AnswerIn
            DEF GoodAnswer, Redirect, RedirectWith, NoCookie, Admits
  <2>4. CASE cookie # "Login"
    <3>1. HandleGet(to, cookie) = Page(Top("Default"))
      BY <1>2, <1>4, <2>4, GetBranches DEF ProcessDefault, LoggedIn, SendFile
    <3> QED BY <1>1, <2>1, <2>2, <3>1, PageParts DEF GoodAnswer
  <2> QED BY <2>3, <2>4
<1>5. CASE to = Top("Default?Logout")
  <2>1. HandleGet(to, cookie) = RedirectWith(to, "Default", "absent")
    BY <1>5, GetBranches DEF ProcessLogout
  <2>2. [dir |-> to.dir, page |-> "Default"] = Top("Default")
    BY <1>5, Tops DEF Top
  <2>3. \A g \in Goals : to # Top(g)
    BY <1>5, Tops DEF Goals
  <2>4. HandleGet(to, cookie) = Answer("redirect", Top("Default"), "absent")
    BY <2>1, <2>2 DEF RedirectWith
  <2>5. HandleGet(to, cookie) \in Answers
    BY <1>1, <2>4, AnswerIn
  <2> QED BY <2>3, <2>4, <2>5, AnswerParts DEF GoodAnswer, LeadsTo
<1>6. CASE to \notin Named
  <2>1. HandleGet(to, cookie) = ProcessOtherReqs(to, cookie)
    BY <1>6, GetBranches
  <2>2. to # Top("Default?Logout") /\ \A g \in Goals : to = Top(g) => g = "Channel"
    BY <1>6 DEF Goals, Named
  <2>3. [dir |-> to.dir, page |-> "Default"] \in Addresses
    BY AddressParts, AddressOf DEF Htm
  <2>4. CASE to.page \in Assets /\ HandleGet(to, cookie) \in {Page(to), Failure(to), Silence(to)}
    <3>1. to.page \notin Htm /\ to # Top("Channel")
      BY <2>4, Tops DEF Assets, Htm
    <3> QED BY <2>2, <2>4, <3>1, AnswerParts, AnswerIn DEF GoodAnswer, Page, Failure, Silence, NoCookie
  <2>5. CASE HandleGet(to, cookie) = SendFile(to) /\ cookie = "Login"
    BY <1>2, <2>2, <2>5, AnswerParts, AnswerIn DEF GoodAnswer, SendFile, Page, Failure, NoCookie
  <2>6. CASE HandleGet(to, cookie) = Redirect(to, "Default") /\ (cookie # "Login" \/ to # Top("Channel"))
    BY <2>2, <2>3, <2>6, AnswerParts, AnswerIn DEF GoodAnswer, Redirect, RedirectWith, NoCookie, Admits
  <2>7. CASE HandleGet(to, cookie) = Silence(to) /\ to # Top("Channel")
    BY <2>2, <2>7, AnswerParts, AnswerIn DEF GoodAnswer, Silence, NoCookie
  <2>8. to.page \in {"", "ws", "other"} => to # Top("Channel")
    BY Tops
  <2> QED BY <2>1, <2>4, <2>5, <2>6, <2>7, <2>8, OtherBranches
<1> QED BY <1>3, <1>4, <1>5, <1>6 DEF Named

\* The same of any request.
LEMMA RequestForms ==
  ASSUME NEW m \in Methods, NEW to \in Addresses, NEW cookie \in Cookies,
         NEW a \in HandleRequest(m, to, cookie)
  PROVE  /\ a \in Answers
         /\ cookie # "Login" /\ a.kind = "page" /\ a.to.page \in Htm
              => a.to = Top("Default") \/ a.to = Top("DefaultError")
         /\ a.kind = "redirect" /\ (m # "GET" \/ to = Top("Default?Logout"))
              => a.to.page \in Goals /\ LeadsTo(a, a.to.page)
         /\ \A g \in Goals : m = "GET" /\ to = Top(g) /\ Admits(g, cookie) => a = Page(Top(g))
<1>1. CASE m = "GET"
  <2>1. a = HandleGet(to, cookie)
    BY <1>1 DEF HandleRequest
  <2>2. GoodAnswer(a, to, cookie)
    BY <2>1, GetForms
  <2>3. LeadsTo(a, "Default") => a.to.page = "Default"
    BY Tops DEF LeadsTo
  <2> QED BY <1>1, <2>2, <2>3 DEF GoodAnswer, Goals
<1>2. CASE m = "GET upgrade"
  <2>1. a = Socket(to) \/ a = Failure(to)
    BY <1>2 DEF HandleRequest
  <2>2. a \in Answers /\ a.kind \in {"socket", "failure"}
    BY <2>1, AnswerParts, AnswerIn DEF Socket, Failure
  <2> QED BY <1>2, <2>2
<1>3. CASE m \notin {"GET", "GET upgrade"} /\ a = Silence(to)
  <2>1. a = Silence(to)
    BY <1>3
  <2>2. a \in Answers /\ a.kind = "silence"
    BY <2>1, AnswerParts, AnswerIn DEF Silence
  <2> QED BY <1>3, <2>2
<1>4. CASE m \in {"POST right", "POST wrong"} /\ to = Top("Default") /\ a \in ProcessLogin(m, to)
  <2>1. /\ Top("Channel") \in Addresses /\ Top("DefaultError") \in Addresses
        /\ to.dir = "top"
    BY <1>4, Tops, TopAddress DEF Htm
  <2>2. a = Accepted(to) \/ a = Redirect(to, "DefaultError")
    BY <1>4 DEF ProcessLogin
  <2>3. CASE a = Accepted(to)
    <3>1. a = Answer("redirect", Top("Channel"), "Login")
      BY <2>1, <2>3 DEF Accepted, RedirectWith, Top
    <3>2. a \in Answers /\ a.kind = "redirect" /\ a.to = Top("Channel") /\ a.cookie = "Login"
      BY <2>1, <3>1, AnswerParts, AnswerIn
    <3> QED BY <1>4, <3>2, Tops DEF LeadsTo, Goals
  <2>4. CASE a = Redirect(to, "DefaultError")
    <3>1. a = Answer("redirect", Top("DefaultError"), NoCookie)
      BY <2>1, <2>4 DEF Redirect, RedirectWith, Top
    <3>2. a \in Answers /\ a.kind = "redirect" /\ a.to = Top("DefaultError")
      BY <2>1, <3>1, AnswerParts, AnswerIn
    <3> QED BY <1>4, <3>2, Tops DEF LeadsTo, Goals
  <2> QED BY <2>2, <2>3, <2>4
<1>5. CASE m = "PUT"
  BY <1>3, <1>5 DEF HandleRequest
<1>6. CASE m \in {"POST right", "POST wrong"}
  <2>1. a \in HandlePost(m, to)
    BY <1>6 DEF HandleRequest
  <2> QED BY <1>3, <1>4, <1>6, <2>1 DEF HandlePost
<1> QED BY <1>1, <1>2, <1>5, <1>6 DEF Methods

-----------------------------------------------------------------------------
(* The invariant                                                           *)

LEMMA InitSessionInv == Init => SessionInv
<1> SUFFICES ASSUME Init PROVE SessionInv
  OBVIOUS
<1>1. Top("") \in Addresses
  BY TopAddress
<1>2. Get(Top("")) \in Requests
  BY <1>1 DEF Get, Requests, Methods
<1>3. TypeOK
  <2>1. Page(Top("")) \in Answers
    BY <1>1, PageParts
  <2> QED BY <1>2, <2>1 DEF Init, TypeOK, Cookies
<1>4. Barred /\ Behind
  <2>1. Page(Top("")).cookie # "Login"
    BY <1>1, PageParts
  <2>2. Barred
    BY <2>1 DEF Init, Barred
  <2>3. \A t \in Tabs : pc[t] \notin {"answered", "shown"}
    BY DEF Init
  <2>4. Behind
    BY <2>3, Zenon DEF Behind
  <2> QED BY <2>2, <2>4
<1>5. Homeward /\ ShownPages
  BY DEF Init, Homeward, ShownPages
<1> QED BY <1>3, <1>4, <1>5 DEF SessionInv

LEMMA HandleKeeps ==
  ASSUME SessionInv, NEW t \in Tabs, Handle(t) PROVE SessionInv'
<1>1. TypeOK /\ Barred /\ Behind /\ Homeward /\ ShownPages
  BY DEF SessionInv
<1>2. PICK a \in HandleRequest(request[t].method, request[t].to, carried[t]) :
        /\ answer' = [answer EXCEPT ![t] = a] /\ accepted' = (accepted \/ a.cookie = "Login")
        /\ IF a.kind = "redirect" /\ (request[t].method # "GET" \/ request[t].to = Top("Default?Logout"))
             THEN goal' = [goal EXCEPT ![t] = a.to.page] ELSE UNCHANGED goal
  BY DEF Handle
<1>3. /\ pc[t] = "asked" /\ pc' = [pc EXCEPT ![t] = "answered"]
      /\ UNCHANGED <<jar, request, carried, disturbed, forged, asks>>
  BY DEF Handle
<1>4. /\ request[t].method \in Methods /\ request[t].to \in Addresses /\ carried[t] \in Cookies
  BY <1>1 DEF TypeOK, Requests
<1>5. a \in Answers
  BY <1>4, RequestForms
<1>6. /\ goal' \in [Tabs -> {NoGoal, "Channel", "Default", "DefaultError"}]
      /\ \A u \in Tabs : u # t => goal'[u] = goal[u]
      /\ goal'[t] # NoGoal /\ t \notin disturbed => OnTheWay(t)'
  <2>1. pc'[t] = "answered" /\ answer'[t] = a
    BY <1>1, <1>2, <1>3 DEF TypeOK
  <2>2. CASE a.kind = "redirect" /\ (request[t].method # "GET" \/ request[t].to = Top("Default?Logout"))
    <3>1. goal' = [goal EXCEPT ![t] = a.to.page] /\ a.to.page \in Goals /\ LeadsTo(a, a.to.page)
      BY <1>2, <1>4, <2>2, RequestForms
    <3>2. goal'[t] = a.to.page
      BY <1>1, <3>1 DEF TypeOK
    <3>3. OnTheWay(t)'
      BY <2>1, <3>1, <3>2 DEF OnTheWay
    <3> QED BY <1>1, <3>1, <3>3 DEF TypeOK, Goals
  <2>3. CASE ~(a.kind = "redirect" /\ (request[t].method # "GET" \/ request[t].to = Top("Default?Logout")))
    <3>1. UNCHANGED goal
      BY <1>2, <2>3
    <3>2. ASSUME goal[t] # NoGoal, t \notin disturbed PROVE OnTheWay(t)'
      <4>1. request[t] = Get(Top(goal[t])) /\ Admits(goal[t], carried[t])
        BY <1>1, <1>3, <3>2 DEF Homeward, OnTheWay
      <4>2. request[t].method = "GET" /\ request[t].to = Top(goal[t])
        BY <4>1 DEF Get
      <4>3. goal[t] \in Goals
        BY <1>1, <3>2 DEF TypeOK, Goals
      <4>4. a = Page(Top(goal[t]))
        BY <1>4, <4>1, <4>2, <4>3, RequestForms
      <4> QED BY <2>1, <3>1, <4>4 DEF OnTheWay
    <3> QED BY <1>1, <3>1, <3>2 DEF TypeOK
  <2> QED BY <2>2, <2>3
<1>7. TypeOK'
  <2>1. answer' \in [Tabs -> Answers] /\ accepted' \in BOOLEAN
    BY <1>1, <1>2, <1>5 DEF TypeOK
  <2>2. pc' \in [Tabs -> {"idle", "asked", "answered", "redirected", "shown", "failed", "live"}]
    BY <1>1, <1>3 DEF TypeOK
  <2> QED BY <1>1, <1>3, <1>6, <2>1, <2>2 DEF TypeOK
<1>8. Barred' /\ Behind'
  <2>1. ~accepted' => ~accepted /\ a.cookie # "Login"
    BY <1>2
  <2>2. carried[t] # "Login" /\ a.kind = "page" /\ a.to.page \in Htm => a.to \in Public
    BY <1>4, RequestForms DEF Public
  <2>3. Barred'
    BY <1>1, <1>2, <1>3, <2>1 DEF Barred, TypeOK
  <2>4. Behind'
    BY <1>1, <1>2, <1>3, <2>2 DEF Behind, TypeOK
  <2> QED BY <2>3, <2>4
<1>9. Homeward'
  <2>1. ASSUME NEW u \in Tabs, u # t, goal'[u] # NoGoal, u \notin disturbed' PROVE OnTheWay(u)'
    <3>1. /\ goal'[u] = goal[u] /\ pc'[u] = pc[u] /\ answer'[u] = answer[u] /\ request'[u] = request[u]
          /\ carried'[u] = carried[u] /\ jar' = jar
      BY <1>1, <1>2, <1>3, <1>6, <2>1 DEF TypeOK
    <3> QED BY <1>1, <1>3, <2>1, <3>1 DEF Homeward, OnTheWay
  <2>2. goal'[t] # NoGoal /\ t \notin disturbed' => OnTheWay(t)'
    BY <1>3, <1>6
  <2> QED BY <2>1, <2>2 DEF Homeward
<1>10. ShownPages'
  BY <1>1, <1>2, <1>3 DEF ShownPages, TypeOK
<1> QED BY <1>7, <1>8, <1>9, <1>10 DEF SessionInv

LEMMA AskKeeps ==
  ASSUME SessionInv, NEW t \in Tabs, NEW r \in Wishes, Ask(t, r) PROVE SessionInv'
<1>1. TypeOK /\ Barred /\ Behind /\ Homeward /\ ShownPages
  BY DEF SessionInv
<1>2. /\ request' = [request EXCEPT ![t] = r] /\ carried' = [carried EXCEPT ![t] = jar]
      /\ pc' = [pc EXCEPT ![t] = "asked"] /\ goal' = [goal EXCEPT ![t] = NoGoal]
      /\ disturbed' = disturbed \ {t} /\ UNCHANGED <<jar, answer, accepted, forged>>
  BY DEF Ask, Send
<1>3. TypeOK'
  <2>1. r \in Requests
    BY FilesAssumption
  <2> QED BY <1>1, <1>2, <2>1 DEF TypeOK
<1>4. Barred' /\ Behind'
  <2>1. Barred'
    BY <1>1, <1>2 DEF Barred, TypeOK
  <2>2. \A u \in Tabs : pc'[u] \in {"answered", "shown"} =>
          pc'[u] = pc[u] /\ carried'[u] = carried[u] /\ answer'[u] = answer[u]
    BY <1>1, <1>2 DEF TypeOK
  <2>3. Behind'
    BY <1>1, <2>2, Zenon DEF Behind
  <2> QED BY <2>1, <2>3
<1>5. Homeward'
  <2> SUFFICES ASSUME NEW u \in Tabs, goal'[u] # NoGoal, u \notin disturbed' PROVE OnTheWay(u)'
    BY DEF Homeward
  <2>1. u # t
    BY <1>1, <1>2 DEF TypeOK
  <2>2. /\ goal'[u] = goal[u] /\ pc'[u] = pc[u] /\ answer'[u] = answer[u] /\ request'[u] = request[u]
        /\ carried'[u] = carried[u] /\ u \notin disturbed
    BY <1>1, <1>2, <2>1 DEF TypeOK
  <2> QED BY <1>1, <1>2, <2>2 DEF Homeward, OnTheWay
<1>6. ShownPages'
  BY <1>1, <1>2 DEF ShownPages, TypeOK
<1> QED BY <1>3, <1>4, <1>5, <1>6 DEF SessionInv

LEMMA ArriveKeeps ==
  ASSUME SessionInv, NEW t \in Tabs, Arrive(t) PROVE SessionInv'
<1>1. TypeOK /\ Barred /\ Behind /\ Homeward /\ ShownPages
  BY DEF SessionInv
<1>2. /\ pc[t] = "answered" /\ jar' = IF answer[t].cookie = NoCookie THEN jar ELSE answer[t].cookie
      /\ disturbed' = IF jar' = jar THEN disturbed ELSE disturbed \cup (Tabs \ {t})
      /\ UNCHANGED <<request, carried, answer, goal, accepted, forged>>
  BY DEF Arrive
<1>3. \E step \in {"redirected", "shown", "live", "failed"} :
        /\ pc' = [pc EXCEPT ![t] = step]
        /\ answer[t].kind = "redirect" <=> step = "redirected"
        /\ answer[t].kind = "page" <=> step = "shown"
  <2>1. CASE answer[t].kind = "redirect"
    BY <2>1 DEF Arrive
  <2>2. CASE answer[t].kind = "page"
    BY <2>2 DEF Arrive
  <2>3. CASE answer[t].kind = "socket"
    BY <2>3 DEF Arrive
  <2>4. CASE answer[t].kind \notin {"redirect", "page", "socket"}
    BY <2>4 DEF Arrive
  <2> QED BY <2>1, <2>2, <2>3, <2>4
<1>4. answer[t].cookie \in {NoCookie, "Login", "absent"}
  BY <1>1 DEF TypeOK, Answers
<1>5. TypeOK'
  <2>1. jar' \in Cookies /\ disturbed' \subseteq Tabs
    BY <1>1, <1>2, <1>4 DEF TypeOK, Cookies
  <2>2. pc' \in [Tabs -> {"idle", "asked", "answered", "redirected", "shown", "failed", "live"}]
    BY <1>1, <1>3 DEF TypeOK
  <2> QED BY <1>1, <1>2, <2>1, <2>2 DEF TypeOK
<1>6. Barred' /\ Behind'
  BY <1>1, <1>2, <1>3 DEF Barred, Behind, TypeOK
<1>7. ASSUME NEW u \in Tabs, u # t, goal'[u] # NoGoal, u \notin disturbed' PROVE OnTheWay(u)'
  <2>1. pc'[u] = pc[u] /\ u \notin disturbed /\ jar' = jar
    BY <1>1, <1>2, <1>3, <1>7 DEF TypeOK
  <2> QED BY <1>1, <1>2, <1>7, <2>1 DEF Homeward, OnTheWay
<1>8. ASSUME goal'[t] # NoGoal, t \notin disturbed' PROVE OnTheWay(t)'
  <2>1. LeadsTo(answer[t], goal[t]) \/ answer[t] = Page(Top(goal[t]))
    BY <1>1, <1>2, <1>8 DEF Homeward, OnTheWay
  <2>2. CASE LeadsTo(answer[t], goal[t])
    <3>1. pc'[t] = "redirected"
      BY <1>1, <1>3, <2>2 DEF LeadsTo, TypeOK
    <3>2. Admits(goal[t], jar')
      BY <1>2, <2>2 DEF LeadsTo, Admits, NoCookie
    <3> QED BY <1>2, <2>2, <3>1, <3>2 DEF OnTheWay
  <2>3. CASE answer[t] = Page(Top(goal[t]))
    <3>1. pc'[t] = "shown"
      BY <1>1, <1>3, <2>3, AnswerParts DEF Page, TypeOK
    <3> QED BY <1>2, <2>3, <3>1 DEF OnTheWay
  <2> QED BY <2>1, <2>2, <2>3
<1>9. ShownPages'
  BY <1>1, <1>2, <1>3 DEF ShownPages, TypeOK
<1> QED BY <1>5, <1>6, <1>7, <1>8, <1>9 DEF SessionInv, Homeward

LEMMA FollowKeeps ==
  ASSUME SessionInv, NEW t \in Tabs, Follow(t) PROVE SessionInv'
<1>1. TypeOK /\ Barred /\ Behind /\ Homeward /\ ShownPages
  BY DEF SessionInv
<1>2. /\ pc[t] = "redirected" /\ request' = [request EXCEPT ![t] = Get(answer[t].to)]
      /\ carried' = [carried EXCEPT ![t] = jar] /\ pc' = [pc EXCEPT ![t] = "asked"]
      /\ UNCHANGED <<jar, answer, goal, disturbed, accepted, forged>>
  BY DEF Follow, Send
<1>3. TypeOK'
  <2>1. answer[t].to \in Addresses
    BY <1>1 DEF TypeOK, Answers
  <2>2. Get(answer[t].to) \in Requests
    BY <2>1 DEF Get, Requests, Methods
  <2> QED BY <1>1, <1>2, <2>2 DEF TypeOK
<1>4. Barred' /\ Behind'
  <2>1. Barred'
    BY <1>1, <1>2 DEF Barred, TypeOK
  <2>2. \A u \in Tabs : pc'[u] \in {"answered", "shown"} =>
          pc'[u] = pc[u] /\ carried'[u] = carried[u] /\ answer'[u] = answer[u]
    BY <1>1, <1>2 DEF TypeOK
  <2>3. Behind'
    BY <1>1, <2>2, Zenon DEF Behind
  <2> QED BY <2>1, <2>3
<1>5. Homeward'
  <2> SUFFICES ASSUME NEW u \in Tabs, goal[u] # NoGoal, u \notin disturbed PROVE OnTheWay(u)'
    BY <1>2 DEF Homeward
  <2>1. CASE u = t
    <3>1. LeadsTo(answer[t], goal[t]) /\ Admits(goal[t], jar)
      BY <1>1, <1>2, <2>1 DEF Homeward, OnTheWay
    <3>2. request'[t] = Get(Top(goal[t])) /\ carried'[t] = jar /\ pc'[t] = "asked"
      BY <1>1, <1>2, <3>1 DEF LeadsTo, TypeOK
    <3> QED BY <1>2, <2>1, <3>1, <3>2 DEF OnTheWay
  <2>2. CASE u # t
    <3>1. pc'[u] = pc[u] /\ request'[u] = request[u] /\ carried'[u] = carried[u]
      BY <1>1, <1>2, <2>2 DEF TypeOK
    <3> QED BY <1>1, <1>2, <3>1 DEF Homeward, OnTheWay
  <2> QED BY <2>1, <2>2
<1>6. ShownPages'
  BY <1>1, <1>2 DEF ShownPages, TypeOK
<1> QED BY <1>3, <1>4, <1>5, <1>6 DEF SessionInv

LEMMA NextSessionInv == SessionInv /\ [Next]_vars => SessionInv'
<1> SUFFICES ASSUME SessionInv, [Next]_vars PROVE SessionInv'
  OBVIOUS
<1>1. CASE Meddle
  <2>1. TypeOK'
    BY <1>1 DEF SessionInv, Meddle, TypeOK, Cookies
  <2>2. Barred' /\ Behind' /\ Homeward' /\ ShownPages'
    BY <1>1 DEF SessionInv, Meddle, Barred, Behind, Homeward, ShownPages
  <2> QED BY <2>1, <2>2 DEF SessionInv
<1>2. CASE UNCHANGED vars
  BY <1>2 DEF SessionInv, vars, TypeOK, Barred, Behind, Homeward, OnTheWay, ShownPages
<1> QED BY <1>1, <1>2, HandleKeeps, ArriveKeeps, FollowKeeps, AskKeeps DEF Next

-----------------------------------------------------------------------------

\* SessionInv holds throughout.
THEOREM SessionInductive == Spec => []SessionInv
BY InitSessionInv, NextSessionInv, PTL DEF Spec

\* No page but the login form and the error page is shown but to a request with the cookie
\* of a login, which nobody has before a login was accepted or the cookie was forged.
THEOREM LoginFirst == Spec => []PagesAfterLogin
<1>1. SessionInv => PagesAfterLogin
  BY DEF SessionInv, Barred, Behind, ShownPages, PagesAfterLogin
<1> QED BY SessionInductive, <1>1, PTL

\* A login or logout beside which nobody changes the cookie ends at its page.
THEOREM GoalReached == Spec => []ReachesGoal
<1>1. SessionInv => ReachesGoal
  <2> SUFFICES ASSUME SessionInv, NEW t \in Tabs, goal[t] # NoGoal, t \notin disturbed
               PROVE  pc[t] # "failed" /\ (pc[t] = "shown" => answer[t].to = Top(goal[t]))
    BY DEF ReachesGoal
  <2>1. OnTheWay(t)
    BY DEF SessionInv, Homeward
  <2>2. pc[t] # "failed" /\ (pc[t] = "shown" => answer[t] = Page(Top(goal[t])))
    BY <2>1 DEF OnTheWay
  <2> QED BY <2>2, AnswerParts DEF Page
<1> QED BY SessionInductive, <1>1, PTL

-----------------------------------------------------------------------------
(* The redirects come to an end                                            *)

\* Where redirects lead, and that a browser follows nothing else.
Targets == {"Channel", "Default", "DefaultError"}
Followed ==
  \A t \in Tabs :
    /\ answer[t].kind = "redirect" => answer[t].to.page \in Targets
    /\ pc[t] = "redirected" => answer[t].kind = "redirect"

\* For a cookie that stays, and but for an address in a directory without a login, the
\* target of a redirect redirects once more at most.
OnceMore ==
  \A t \in Tabs :
    pc[t] = "redirected" /\ (answer[t].to.dir = "top" \/ jar = "Login") =>
      LET next == HandleGet(answer[t].to, jar) IN
      next.kind = "redirect" => HandleGet(next.to, jar).kind # "redirect"

LEMMA RedirectParts ==
  ASSUME NEW from, NEW page
  PROVE  /\ Redirect(from, page).kind = "redirect"
         /\ Redirect(from, page).to.page = page
         /\ from.dir = "top" => Redirect(from, page).to = Top(page)
BY AnswerParts DEF Redirect, RedirectWith, Top

\* What is sent is no redirect.
LEMMA FileSent ==
  ASSUME NEW to
  PROVE  SendFile(to).kind # "redirect"
BY AnswerParts DEF SendFile, Page, Failure

LEMMA AddressIsTop ==
  ASSUME NEW to \in Addresses, to.dir = "top"
  PROVE  to = Top(to.page)
BY DEF Addresses, Top

\* The answers to the addresses that redirects lead to.
LEMMA TargetAnswers ==
  ASSUME NEW cookie \in Cookies, NEW to \in Addresses, to.page \in Targets
  PROVE  /\ to = Top("DefaultError") => HandleGet(to, cookie).kind # "redirect"
         /\ to = Top("Default") /\ cookie # "Login" => HandleGet(to, cookie).kind # "redirect"
         /\ to = Top("Default") /\ cookie = "Login" => HandleGet(to, cookie) = Redirect(to, "Channel")
         /\ to = Top("Channel") /\ cookie # "Login" => HandleGet(to, cookie) = Redirect(to, "Default")
         /\ to \notin Named /\ cookie = "Login" => HandleGet(to, cookie).kind # "redirect"
         /\ Top("Channel") \notin Named
<1>1. Top("Channel") \notin Named
  <2>1. /\ "Channel" # "DefaultError" /\ "Channel" # "" /\ "Channel" # "Default"
        /\ "Channel" # "Default?Logout"
    OBVIOUS
  <2> QED BY <2>1, TopsDiffer DEF Named
<1>2. to \notin Named =>
        HandleGet(to, cookie) = IF cookie = "Login" THEN SendFile(to) ELSE Redirect(to, "Default")
  <2>1. to.page \in Htm /\ to.page \notin Assets /\ to.page \notin {"", "ws", "other"}
    BY DEF Targets, Htm, Assets
  <2> QED BY <2>1, GetBranches, OtherBranches
<1>3. to = Top("DefaultError") => HandleGet(to, cookie) = SendFile(to)
  BY GetBranches
<1>4. to = Top("Default") =>
        HandleGet(to, cookie) = IF cookie = "Login" THEN Redirect(to, "Channel")
                                                    ELSE SendFile(Top("Default"))
  BY GetBranches DEF ProcessDefault, LoggedIn
<1> QED BY <1>1, <1>2, <1>3, <1>4, FileSent

\* From a target, one redirect more at most.
LEMMA TargetsSettle ==
  ASSUME NEW cookie \in Cookies, NEW to \in Addresses, to.page \in Targets,
         to.dir = "top" \/ cookie = "Login", HandleGet(to, cookie).kind = "redirect"
  PROVE  HandleGet(HandleGet(to, cookie).to, cookie).kind # "redirect"
<1>1. Top("Channel") \in Addresses /\ Top("Default") \in Addresses
  BY TopAddress DEF Htm
<1>2. Top("Channel").page \in Targets /\ Top("Default").page \in Targets
  BY Tops DEF Targets
<1>3. CASE to = Top("Default") /\ cookie = "Login"
  <2>1. HandleGet(to, cookie) = Redirect(to, "Channel") /\ to.dir = "top"
    BY <1>3, TargetAnswers, Tops
  <2>2. HandleGet(to, cookie).to = Top("Channel")
    BY <2>1, RedirectParts
  <2> QED BY <1>1, <1>2, <1>3, <2>2, TargetAnswers
<1>4. CASE to = Top("Channel") /\ cookie # "Login"
  <2>1. HandleGet(to, cookie) = Redirect(to, "Default") /\ to.dir = "top"
    BY <1>4, TargetAnswers, Tops
  <2>2. HandleGet(to, cookie).to = Top("Default")
    BY <2>1, RedirectParts
  <2> QED BY <1>1, <1>2, <1>4, <2>2, TargetAnswers
<1>5. CASE cookie = "Login" /\ to # Top("Default")
  <2>1. to # Top("") /\ to # Top("Default?Logout")
    BY Tops DEF Targets
  <2> QED BY <1>5, <2>1, TargetAnswers DEF Named
<1>6. CASE to.dir = "top" /\ to # Top("Channel") /\ cookie # "Login"
  <2>1. to = Top("Default") \/ to = Top("DefaultError")
    BY <1>6, AddressIsTop DEF Targets
  <2> QED BY <1>6, <2>1, TargetAnswers
<1> QED BY <1>3, <1>4, <1>5, <1>6

\* A redirect, whatever the request, leads to a target.
LEMMA RedirectsToTargets ==
  ASSUME NEW m \in Methods, NEW to \in Addresses, NEW cookie \in Cookies,
         NEW a \in HandleRequest(m, to, cookie), a.kind = "redirect"
  PROVE  a.to.page \in Targets
<1>1. CASE m # "GET" \/ to = Top("Default?Logout")
  BY <1>1, RequestForms DEF Goals, Targets
<1>2. CASE m = "GET" /\ to # Top("Default?Logout")
  <2>1. a = HandleGet(to, cookie)
    BY <1>2 DEF HandleRequest
  <2>2. CASE to \in {Top(""), Top("Default"), Top("DefaultError")}
    <3>1. a = Redirect(to, "Channel") \/ a = SendFile(to) \/ a = SendFile(Top("Default"))
      BY <2>1, <2>2, GetBranches DEF ProcessDefault
    <3>2. a = Redirect(to, "Channel")
      BY <3>1, FileSent
    <3> QED BY <3>2, RedirectParts DEF Targets
  <2>3. CASE to \notin Named
    <3>1. a \in {Page(to), Failure(to), Silence(to), SendFile(to), Redirect(to, "Default")}
      BY <2>1, <2>3, GetBranches, OtherBranches
    <3>2. /\ Page(to).kind = "page" /\ Failure(to).kind = "failure"
          /\ Silence(to).kind = "silence"
      BY AnswerParts DEF Page, Failure, Silence
    <3>3. a = Redirect(to, "Default")
      BY <3>1, <3>2, FileSent
    <3> QED BY <3>3, RedirectParts DEF Targets
  <2> QED BY <1>2, <2>2, <2>3 DEF Named
<1> QED BY <1>1, <1>2

LEMMA InitFollowed == Init => Followed
<1>1. Page(Top("")).kind = "page"
  BY TopAddress, PageParts
<1> QED BY <1>1 DEF Init, Followed

LEMMA StepFollowed == SessionInv /\ Followed /\ [Next]_vars => Followed'
<1> SUFFICES ASSUME SessionInv, Followed, [Next]_vars PROVE Followed'
  OBVIOUS
<1>1. TypeOK
  BY DEF SessionInv
<1>2. ASSUME NEW t \in Tabs, Handle(t) PROVE Followed'
  <2>1. PICK a \in HandleRequest(request[t].method, request[t].to, carried[t]) :
          answer' = [answer EXCEPT ![t] = a]
    BY <1>2 DEF Handle
  <2>2. /\ request[t].method \in Methods /\ request[t].to \in Addresses /\ carried[t] \in Cookies
    BY <1>1 DEF TypeOK, Requests
  <2>3. a.kind = "redirect" => a.to.page \in Targets
    BY <2>2, RedirectsToTargets
  <2> QED BY <1>1, <1>2, <2>1, <2>3 DEF Handle, Followed, TypeOK
<1>3. ASSUME NEW t \in Tabs, Arrive(t) PROVE Followed'
  <2>1. pc'[t] = "redirected" => answer[t].kind = "redirect"
    BY <1>1, <1>3 DEF Arrive, TypeOK
  <2>2. \A u \in Tabs : u # t => pc'[u] = pc[u]
    BY <1>1, <1>3 DEF Arrive, TypeOK
  <2> QED BY <1>3, <2>1, <2>2 DEF Arrive, Followed
<1>4. ASSUME NEW t \in Tabs, Follow(t) \/ \E r \in Wishes : Ask(t, r) PROVE Followed'
  BY <1>1, <1>4 DEF Follow, Ask, Send, Followed, TypeOK
<1>5. CASE Meddle \/ UNCHANGED vars
  BY <1>5 DEF Meddle, vars, Followed
<1> QED BY <1>2, <1>3, <1>4, <1>5 DEF Next

\* ProcessDefault and ProcessOtherReqs send a browser to each other once at most, for any
\* cookie, as long as it stays the same and no login is missing below a directory.
THEOREM RedirectsSettle == Spec => []OnceMore
<1>1. Spec => []Followed
  BY SessionInductive, InitFollowed, StepFollowed, PTL DEF Spec
<1>2. SessionInv /\ Followed => OnceMore
  <2> SUFFICES ASSUME SessionInv, Followed, NEW t \in Tabs, pc[t] = "redirected",
                      answer[t].to.dir = "top" \/ jar = "Login",
                      HandleGet(answer[t].to, jar).kind = "redirect"
               PROVE  HandleGet(HandleGet(answer[t].to, jar).to, jar).kind # "redirect"
    BY DEF OnceMore
  <2>1. answer[t].to \in Addresses /\ jar \in Cookies /\ answer[t].to.page \in Targets
    BY DEF SessionInv, TypeOK, Answers, Followed
  <2> QED BY <2>1, TargetsSettle
<1> QED BY <1>1, <1>2, SessionInductive, PTL
=============================================================================
