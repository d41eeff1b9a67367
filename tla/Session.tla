------------------------------- MODULE Session ------------------------------
(***************************************************************************)
(* How a user comes by a session, keeps it and loses it: routes/auth.ts,   *)
(* requireSession.ts, requireAuthProof.ts and authNonceStore.ts on the     *)
(* server; walletContext.tsx, login.tsx, ProtectedRoute.tsx, navbar.tsx    *)
(* and the apiFetch family in the browser.                                 *)
(*                                                                         *)
(* The tabs of one browser share its cookie jar and talk to one wallet.    *)
(* A request carries the cookie the jar held when it was sent; its         *)
(* response changes the jar when it arrives, whatever has happened since,  *)
(* and whether or not the page that asked is still there.                  *)
(*                                                                         *)
(* Request r, if it carries a proof, carries proof r; if it is a login     *)
(* that succeeds, it makes session r.                                      *)
(***************************************************************************)
EXTENDS Integers, FiniteSets

CONSTANTS
  Tabs,
  InUse,          \* bound: in the other tabs, loaded before, the user only
                  \* logs out
  Identities,     \* identity keys a wallet may have
  OldUser,        \* whose session there may be to begin with
  None,
  MaxRequests,    \* bound: requests but the one each page load begins with
  MaxHandshakes,  \* bound: promises ensureWallet() has in flight in a page
  MaxEvents,      \* bound: page loads by the user, sessions that expire,
                  \* changes of the wallet, and faults
  MaxFaults       \* bound: lost and duplicated messages, failing calls

ASSUME TabsAssumption == InUse \subseteq Tabs
ASSUME UserAssumption == OldUser \in Identities
ASSUME BoundsAssumption ==
  MaxRequests \in Nat /\ MaxHandshakes \in Nat /\ MaxEvents \in Nat /\ MaxFaults \in Nat

Requests == 1 .. MaxRequests

Handshakes == 1 .. MaxHandshakes

Old == 0                                \* a session from before

ASSUME NoneAssumption == None \notin Identities \cup Tabs \cup Requests \cup Handshakes \cup {Old}

Sessions == Requests \cup {Old}

Guarded == {"read", "stepup"}           \* routes behind requireSession

Kinds == Guarded \cup {"login", "logout", "preflight"}

VARIABLES
  jar,          \* the cookie `verified`: a session, or None
  user,         \* user[s]: the payload of the JWT of session s
  expired,      \* the sessions whose JWT has expired
  nonces,       \* auth_nonces: the proofs that have been consumed
  wallet,       \* the wallet's identity
  stage,        \* stage[r]: where request r is
  req,          \* req[r]: what request r carries, and the tab that asked
  answer,       \* answer[r]: its status and its Set-Cookie
  check,        \* check[t]: the check-session request of t's page load
  status, path, \* AuthContext.status, and whether t is on /login
  key, memo,    \* userPubKey and initPromiseRef
  asking,       \* asking[t]: the wallet handshakes in flight
  handler,      \* handler[h]: the login handler of a page, and its effects
  acts,         \* history: how often proof r was acted upon
  redirects,    \* history: navigateToLogin since a session was last confirmed
  loggedOut,    \* history: the tabs that logged out since they were loaded
  events, faults

cookies == <<jar, user, expired>>
messages == <<stage, req, answer>>
page == <<status, path>>
connection == <<key, memo, asking>>
history == <<acts, redirects, loggedOut>>
bounds == <<events, faults>>

vars == <<cookies, nonces, wallet, messages, check, page, connection, handler, history, bounds>>

Blank == [kind |-> "none", tab |-> None, cookie |-> None, claim |-> None, signer |-> None]

NoAnswer == [code |-> "none", cookie |-> "keep"]

Off == [at |-> "off", on |-> None, claim |-> None]

Handlers == Tabs \X {"login", "effect"}

\* The check-session request of a page load, on its way and when it is over.
Asked(cookie) == [at |-> "sent", cookie |-> cookie, code |-> "none"]

Decided == [at |-> "done", cookie |-> None, code |-> "none"]

StatusOf(cookie) == IF cookie = None THEN "idle" ELSE "authenticated"

\* What Login and ProtectedRoute render once the status is known.
PathOf(s) == IF s = "authenticated" THEN "protected" ELSE "login"

Init ==
  /\ jar \in {None, Old}
  /\ user = [s \in Sessions |-> IF s = Old THEN OldUser ELSE None]
  /\ expired = {}
  /\ nonces = {}
  /\ wallet \in Identities
  /\ stage = [r \in Requests |-> "unsent"]
  /\ req = [r \in Requests |-> Blank]
  /\ answer = [r \in Requests |-> NoAnswer]
  /\ \E where \in {"login", "protected"} :
       /\ check = [t \in Tabs |-> IF t \in InUse THEN Asked(jar) ELSE Decided]
       /\ status = [t \in Tabs |-> IF t \in InUse THEN "restoring" ELSE StatusOf(jar)]
       /\ path = [t \in Tabs |-> IF t \in InUse THEN where ELSE PathOf(StatusOf(jar))]
  /\ key = [t \in Tabs |-> None]
  /\ memo = [t \in Tabs |-> None]
  /\ asking = [t \in Tabs |-> {}]
  /\ handler = [h \in Handlers |-> Off]
  /\ acts = [r \in Requests |-> 0]
  /\ redirects = [t \in Tabs |-> 0]
  /\ loggedOut = {}
  /\ events = 0 /\ faults = 0

Event == events < MaxEvents /\ events' = events + 1

Fault == Event /\ faults < MaxFaults /\ faults' = faults + 1

Live(s) == s # None /\ s \notin expired
-----------------------------------------------------------------------------
(***************************************************************************)
(* The page of a tab.                                                      *)
(***************************************************************************)

\* setStatus, and where the tab then is.
Land(t, s) ==
  /\ status' = [status EXCEPT ![t] = s]
  /\ path' = [path EXCEPT ![t] = PathOf(s)]

\* apiFetch: a 401 takes the page to /login unless it is there.
Redirects(t, code) == code = "unauthorized" /\ path[t] # "login"

\* A new document: nothing of the old page is left to hear an answer, and
\* AuthContextProvider asks check-session with the cookie of the jar.
Load(t, where) ==
  /\ status' = [status EXCEPT ![t] = "restoring"]
  /\ path' = [path EXCEPT ![t] = where]
  /\ check' = [check EXCEPT ![t] = Asked(jar')]
  /\ key' = [key EXCEPT ![t] = None]
  /\ memo' = [memo EXCEPT ![t] = None]
  /\ asking' = [asking EXCEPT ![t] = {}]
  /\ handler' = [h \in Handlers |-> IF h[1] = t THEN Off ELSE handler[h]]
  /\ loggedOut' = loggedOut \ {t}

\* What is left of the requests when `gone` are over and t's page is gone.
Orphaned(t, gone) ==
  [r \in Requests |-> IF r \in gone THEN Blank
                      ELSE IF req[r].tab = t THEN [req[r] EXCEPT !.tab = None] ELSE req[r]]

\* The user opens or reloads a page.
Reload(t) ==
  /\ Event
  /\ UNCHANGED cookies
  /\ \E where \in {"login", "protected"} : Load(t, where)
  /\ req' = Orphaned(t, {})
  /\ UNCHANGED <<nonces, wallet, stage, answer, acts, redirects, faults>>

\* navigateToLogin().
NavigateToLogin(t) ==
  /\ Load(t, "login")
  /\ redirects' = [redirects EXCEPT ![t] = @ + 1]

\* The server has told t's page that there is a session.
Enter(t) ==
  /\ Land(t, "authenticated")
  /\ redirects' = [redirects EXCEPT ![t] = 0]

\* Mutant of CheckSession: no session is answered with a 401.
CheckSessionUnauthorized(t) ==
  /\ check[t].at = "sent"
  /\ check' = [check EXCEPT ![t].at = "answered",
                            ![t].code = IF Live(check[t].cookie) THEN "alive" ELSE "unauthorized"]
  /\ UNCHANGED <<cookies, nonces, wallet, messages, page, connection, handler, history, bounds>>

\* GET /check-session: always 200, and no Set-Cookie.
CheckSession(t) ==
  /\ check[t].at = "sent"
  /\ check' = [check EXCEPT ![t].at = "answered",
                            ![t].code = IF Live(check[t].cookie) THEN "alive" ELSE "dead"]
  /\ UNCHANGED <<cookies, nonces, wallet, messages, page, connection, handler, history, bounds>>

CheckDone(t) == check' = [check EXCEPT ![t] = Decided]

\* Mutant of CheckFails: there is no catch.
CheckFailsUncaught(t) ==
  /\ check[t].at # "done"
  /\ Fault
  /\ CheckDone(t)
  /\ UNCHANGED <<cookies, nonces, wallet, messages, page, connection, handler, history>>

\* The check is lost, or its answer, or the answer is no JSON: 'idle'.
CheckFails(t) ==
  /\ check[t].at # "done"
  /\ Fault
  /\ CheckDone(t)
  /\ Land(t, "idle")
  /\ UNCHANGED <<cookies, nonces, wallet, messages, connection, handler, history>>

\* The effect of AuthContextProvider: whatever the status is by now, it
\* becomes what the answer says.
Restore(t) ==
  /\ check[t].at = "answered"
  /\ UNCHANGED cookies
  /\ IF Redirects(t, check[t].code)
     THEN NavigateToLogin(t) /\ req' = Orphaned(t, {})
     ELSE /\ CheckDone(t)
          /\ IF check[t].code = "alive" THEN Enter(t) ELSE Land(t, "idle") /\ UNCHANGED redirects
          /\ UNCHANGED <<req, connection, handler, loggedOut>>
  /\ UNCHANGED <<nonces, wallet, stage, answer, acts, bounds>>
-----------------------------------------------------------------------------
(***************************************************************************)
(* ensureWallet() and those who await it: the Login button, and the        *)
(* effects of a protected page, which then make a step-up call.            *)
(***************************************************************************)
Unsent == {r \in Requests : stage[r] = "unsent"}

IsNext(r) == r \in Unsent /\ \A other \in Unsent : r <= other

Memoised(t) == memo[t] # None

EnsureWallet(h) ==
  LET t == h[1]
  IN /\ handler[h].at = "off"
     /\ IF key[t] # None
        THEN /\ handler' = [handler EXCEPT ![h] = [at |-> "sign", on |-> None, claim |-> key[t]]]
             /\ UNCHANGED <<memo, asking>>
        ELSE IF Memoised(t)
        THEN /\ handler' = [handler EXCEPT ![h] = [at |-> "wallet", on |-> memo[t], claim |-> None]]
             /\ UNCHANGED <<memo, asking>>
        ELSE \E n \in Handshakes \ asking[t] :
               /\ \A other \in 1 .. n - 1 : other \in asking[t]
               /\ handler' = [handler EXCEPT ![h] = [at |-> "wallet", on |-> n, claim |-> None]]
               /\ memo' = [memo EXCEPT ![t] = n]
               /\ asking' = [asking EXCEPT ![t] = @ \cup {n}]
     /\ UNCHANGED <<cookies, nonces, wallet, messages, check, page, key, history, bounds>>

\* handleLogin: the form is there unless the status is 'authenticated'.
ClickLogin(t) == path[t] = "login" /\ EnsureWallet(<<t, "login">>)

\* A page that needs the wallet is mounted, or its effect runs again.
Mount(t) == status[t] = "authenticated" /\ EnsureWallet(<<t, "effect">>)

\* Handshake n ends, and whoever awaits it resumes.  A wallet that is locked,
\* or a user who declines, drops the memo, whichever handshake it holds by now.
Connect(t, n) ==
  LET awaiting == {h \in Handlers : h[1] = t /\ handler[h].at = "wallet" /\ handler[h].on = n}
      Resume(state) == [h \in Handlers |-> IF h \in awaiting THEN state ELSE handler[h]]
  IN /\ n \in asking[t]
     /\ asking' = [asking EXCEPT ![t] = @ \ {n}]
     /\ \/ /\ key' = [key EXCEPT ![t] = wallet]
           /\ handler' = Resume([at |-> "sign", on |-> None, claim |-> wallet])
           /\ UNCHANGED memo
        \/ /\ memo' = [memo EXCEPT ![t] = None]
           /\ handler' = Resume(Off)
           /\ UNCHANGED key
     /\ UNCHANGED <<cookies, nonces, wallet, messages, check, page, history, bounds>>

Send(r, request) ==
  IsNext(r) /\ stage' = [stage EXCEPT ![r] = "sent"] /\ req' = [req EXCEPT ![r] = request]

\* createAuthProof and the POST, unless the wallet throws.  The login names
\* the key ensureWallet() returned, apiFetchStepUp the one the wallet has now.
Sign(h) ==
  /\ handler[h].at = "sign"
  /\ \/ /\ \E r \in Requests :
             /\ Send(r, [kind |-> IF h[2] = "login" THEN "login" ELSE "stepup",
                         tab |-> h[1], cookie |-> jar, signer |-> wallet,
                         claim |-> IF h[2] = "login" THEN handler[h].claim ELSE wallet])
             /\ handler' = [handler EXCEPT ![h] =
                              IF h[2] = "login" THEN [at |-> "posted", on |-> r, claim |-> None] ELSE Off]
     \/ /\ handler' = [handler EXCEPT ![h] = Off]
        /\ UNCHANGED <<stage, req>>
  /\ UNCHANGED <<cookies, nonces, wallet, answer, check, page, connection, history, bounds>>

\* A read of a protected page, the preflight of a flow that will spend, or
\* the Logout button.
Ask(t, kind) ==
  /\ status[t] = "authenticated"
  /\ \E r \in Requests :
       Send(r, [kind |-> kind, tab |-> t, cookie |-> jar, claim |-> None, signer |-> None])
  /\ UNCHANGED <<cookies, nonces, wallet, answer, check, page, connection, handler, history, bounds>>
-----------------------------------------------------------------------------
(***************************************************************************)
(* The server.                                                             *)
(***************************************************************************)
Answer(r, code, cookie) ==
  /\ stage' = [stage EXCEPT ![r] = "answered"]
  /\ answer' = [answer EXCEPT ![r] = [code |-> code, cookie |-> cookie]]

\* The cookie of a refusal for want of a session: a bad one is cleared.
Cleared(r) == IF req[r].cookie = None THEN "keep" ELSE "clear"

\* requireSession.
RequireSession(r) ==
  /\ stage[r] = "sent" /\ req[r].kind \in Guarded
  /\ IF ~Live(req[r].cookie) THEN Answer(r, "unauthorized", Cleared(r))
     ELSE IF req[r].kind = "read" THEN Answer(r, "ok", "keep")
     ELSE stage' = [stage EXCEPT ![r] = "guarded"] /\ UNCHANGED answer
  /\ UNCHANGED <<cookies, nonces, wallet, req, check, page, connection, handler, history, bounds>>

\* Mutant of Fresh: the unique index of auth_nonces is missing.
FreshAlways(r) == r \in Requests

\* consumeNonce: the insert meets no earlier record of the proof.
Fresh(r) == r \notin nonces

\* verifyAuthProof, and the comparison of the keys that follows it.
Accepts(r) ==
  /\ Fresh(r)
  /\ req[r].signer = req[r].claim
  /\ req[r].kind = "stepup" => req[r].signer = user[req[r].cookie]

\* The proof is consumed before the keys are compared.
Consume(r) ==
  /\ nonces' = nonces \cup {r}
  /\ acts' = IF Accepts(r) THEN [acts EXCEPT ![r] = @ + 1] ELSE acts

\* Mutant of RequireAuthProof: a refused proof clears the cookie as well.
RequireAuthProofClearing(r) ==
  /\ stage[r] = "guarded"
  /\ IF ~Live(req[r].cookie)
     THEN Answer(r, "unauthorized", Cleared(r)) /\ UNCHANGED <<nonces, acts>>
     ELSE /\ Consume(r)
          /\ IF Accepts(r) THEN Answer(r, "ok", "keep") ELSE Answer(r, "unauthorized", Cleared(r))
  /\ UNCHANGED <<cookies, wallet, req, check, page, connection, handler, redirects, loggedOut, bounds>>

\* requireAuthProof, with a look of its own at the cookie.
RequireAuthProof(r) ==
  /\ stage[r] = "guarded"
  /\ IF ~Live(req[r].cookie)
     THEN Answer(r, "unauthorized", Cleared(r)) /\ UNCHANGED <<nonces, acts>>
     ELSE /\ Consume(r)
          /\ IF Accepts(r) THEN Answer(r, "ok", "keep") ELSE Answer(r, "unauthorized", "keep")
  /\ UNCHANGED <<cookies, wallet, req, check, page, connection, handler, redirects, loggedOut, bounds>>

\* POST /auth/login: the session is made for the key that signed.
Login(r) ==
  /\ stage[r] = "sent" /\ req[r].kind = "login"
  /\ Consume(r)
  /\ IF Accepts(r)
     THEN Answer(r, "ok", "set") /\ user' = [user EXCEPT ![r] = req[r].signer]
     ELSE Answer(r, "unauthorized", "keep") /\ UNCHANGED user
  /\ UNCHANGED <<jar, expired, wallet, req, check, page, connection, handler, redirects, loggedOut, bounds>>

\* POST /auth/logout, and check-session asked by ensureSessionAlive().
Unguarded(r) ==
  /\ stage[r] = "sent"
  /\ \/ req[r].kind = "logout" /\ Answer(r, "ok", "clear")
     \/ req[r].kind = "preflight" /\ Answer(r, IF Live(req[r].cookie) THEN "alive" ELSE "dead", "keep")
  /\ UNCHANGED <<cookies, nonces, wallet, req, check, page, connection, handler, history, bounds>>

\* A call of the handler throws: 500, the proof perhaps consumed.
ServerFails(r) ==
  /\ Fault
  /\ stage[r] \in {"sent", "guarded"}
  /\ Answer(r, "error", "keep")
  /\ nonces' \in {nonces} \cup IF req[r].signer # None THEN {nonces \cup {r}} ELSE {}
  /\ UNCHANGED <<cookies, wallet, req, check, page, connection, handler, history>>

\* A request with a proof reaches the server twice; nobody gets the second
\* answer.
Duplicate(r) ==
  /\ Fault
  /\ req[r].kind \in {"login", "stepup"}
  /\ req[r].kind = "stepup" => Live(req[r].cookie)
  /\ Consume(r)
  /\ UNCHANGED <<cookies, wallet, messages, check, page, connection, handler, redirects, loggedOut>>

Serve(r) == RequireSession(r) \/ RequireAuthProof(r) \/ Login(r) \/ Unguarded(r)
-----------------------------------------------------------------------------
(***************************************************************************)
(* The browser hears of an answer.                                         *)
(***************************************************************************)

\* Set-Cookie takes effect in any case.
SetCookie(r) ==
  jar' = CASE answer[r].cookie = "keep" -> jar
           [] answer[r].cookie = "clear" -> None
           [] answer[r].cookie = "set" -> r

Done(r) ==
  /\ stage' = [stage EXCEPT ![r] = "done"]
  /\ answer' = [answer EXCEPT ![r] = NoAnswer]

\* The handlers that await the answer to r.
LoginOver(r) ==
  handler' = [h \in Handlers |-> IF handler[h].at = "posted" /\ handler[h].on = r THEN Off ELSE handler[h]]

\* logout() of AuthContext; handshakes in flight are not called off.
LogoutLocally(t) ==
  /\ Land(t, "idle")
  /\ key' = [key EXCEPT ![t] = None]
  /\ memo' = [memo EXCEPT ![t] = None]
  /\ loggedOut' = loggedOut \cup {t}
  /\ UNCHANGED <<asking, handler, check, redirects>>

\* Nothing comes of the answer but its cookie.
Shrug == UNCHANGED <<check, page, connection, handler, redirects, loggedOut>>

\* The answer arrives.  apiFetchStepUp alone never leaves the page.
Deliver(r) ==
  LET t == req[r].tab
      code == answer[r].code
      kind == req[r].kind
      leaves == \/ kind # "stepup" /\ Redirects(t, code)
                \/ kind = "preflight" /\ code = "dead"
  IN /\ stage[r] = "answered"
     /\ SetCookie(r) /\ Done(r)
     /\ IF t = None THEN req' = [req EXCEPT ![r] = Blank] /\ Shrug
        ELSE IF leaves THEN NavigateToLogin(t) /\ req' = Orphaned(t, {r})
        ELSE /\ req' = [req EXCEPT ![r] = Blank]
             /\ \/ /\ kind = "login" /\ LoginOver(r)
                   /\ IF code = "ok" THEN Enter(t) ELSE UNCHANGED <<page, redirects>>
                   /\ UNCHANGED <<check, connection, loggedOut>>
                \/ kind = "logout" /\ code = "ok" /\ LogoutLocally(t)
                \/ kind = "logout" /\ code # "ok" /\ Shrug
                \/ kind \in Guarded \cup {"preflight"} /\ Shrug
     /\ UNCHANGED <<user, expired, nonces, wallet, acts, bounds>>

\* The request or its answer is lost: whoever awaits it gets an exception.
Lose(r) ==
  /\ Fault
  /\ stage[r] \in {"sent", "answered"}
  /\ Done(r)
  /\ req' = [req EXCEPT ![r] = Blank]
  /\ LoginOver(r)
  /\ UNCHANGED <<cookies, nonces, wallet, check, page, connection, history>>
-----------------------------------------------------------------------------
\* A session reaches its day's end; the browser may drop the cookie itself.
Expire(s) ==
  /\ Event
  /\ user[s] # None
  /\ expired' = expired \cup {s}
  /\ jar' \in {jar, IF jar = s THEN None ELSE jar}
  /\ UNCHANGED <<user, nonces, wallet, messages, check, page, connection, handler, history, faults>>

\* The user changes the identity of the wallet.
SwitchWallet ==
  /\ Event
  /\ wallet' \in Identities \ {wallet}
  /\ UNCHANGED <<cookies, nonces, messages, check, page, connection, handler, history, faults>>

UserStep ==
  \/ \E t \in InUse : Reload(t) \/ ClickLogin(t) \/ Mount(t) \/ Ask(t, "read") \/ Ask(t, "preflight")
  \/ \E t \in Tabs : Ask(t, "logout")
  \/ SwitchWallet

Next ==
  \/ UserStep
  \/ \E t \in Tabs : CheckSession(t) \/ CheckFails(t) \/ Restore(t)
  \/ \E t \in Tabs, n \in Handshakes : Connect(t, n)
  \/ \E h \in Handlers : Sign(h)
  \/ \E r \in Requests : Serve(r) \/ ServerFails(r) \/ Duplicate(r) \/ Deliver(r) \/ Lose(r)
  \/ \E s \in Sessions : Expire(s)

Spec == Init /\ [][Next]_vars

CheckStep == \E t \in Tabs : CheckSession(t) \/ Restore(t)

RequestStep == \E r \in Requests : Serve(r) \/ Deliver(r)

\* What has been sent is served and its answer arrives, and the wallet
\* answers or declines.  No user is obliged to do anything.
FairSpec ==
  /\ Spec
  /\ WF_vars(CheckStep) /\ WF_vars(RequestStep)
  /\ \A t \in InUse, n \in Handshakes : WF_vars(Connect(t, n))
  /\ \A t \in InUse, h \in {"login", "effect"} : WF_vars(Sign(<<t, h>>))
-----------------------------------------------------------------------------
Codes == {"none", "ok", "alive", "dead", "unauthorized", "error"}

\* Every variable has its type.
TypeOK ==
  /\ jar \in Sessions \cup {None} /\ user \in [Sessions -> Identities \cup {None}]
  /\ expired \subseteq Sessions /\ nonces \subseteq Requests /\ wallet \in Identities
  /\ stage \in [Requests -> {"unsent", "sent", "guarded", "answered", "done"}]
  /\ req \in [Requests -> [kind : Kinds \cup {"none"}, tab : Tabs \cup {None},
                           cookie : Sessions \cup {None},
                           claim : Identities \cup {None}, signer : Identities \cup {None}]]
  /\ answer \in [Requests -> [code : Codes, cookie : {"keep", "clear", "set"}]]
  /\ check \in [Tabs -> [at : {"sent", "answered", "done"}, cookie : Sessions \cup {None}, code : Codes]]
  /\ status \in [Tabs -> {"restoring", "idle", "authenticated"}]
  /\ path \in [Tabs -> {"login", "protected"}]
  /\ key \in [Tabs -> Identities \cup {None}] /\ memo \in [Tabs -> Handshakes \cup {None}]
  /\ asking \in [Tabs -> SUBSET Handshakes]
  /\ handler \in [Handlers -> [at : {"off", "wallet", "sign", "posted"},
                               on : Handshakes \cup Requests \cup {None}, claim : Identities \cup {None}]]
  /\ acts \in [Requests -> Nat] /\ redirects \in [Tabs -> Nat] /\ loggedOut \subseteq Tabs
  /\ events \in Nat /\ faults \in Nat

\* "expiry-bound, single-use proof of key ownership" (auth.ts:49): whatever
\* is sent twice, overtaken or retried, no proof is acted upon twice, and
\* the sessions there are were each made by one.
ProofActsOnce ==
  /\ \A r \in Requests : acts[r] <= 1
  /\ \A r \in Requests : user[r] # None => acts[r] = 1 /\ r \in nonces

\* "a 401 here would cause a redirect loop" (auth.ts:123): a tab is not
\* taken to /login a second time unless the server has confirmed a session
\* to it in between, whatever was in flight when the first one died.
NoRedirectLoop == \A t \in Tabs : redirects[t] <= 1

\* "Dedupe concurrent calls" (walletContext.tsx:85): a page has one wallet
\* handshake in flight, unless the user has logged out of it meanwhile.
OneHandshake == \A t \in Tabs : t \notin loggedOut => Cardinality(asking[t]) <= 1

\* A live session leaves the jar only for a newer one, by a logout, or with
\* the refusal of a request that was sent with an older cookie: being
\* refused for anything else never costs a user the session.
LiveSessionStays ==
  [][Live(jar) /\ jar' # jar /\ expired' = expired =>
       \E r \in Requests :
         /\ stage[r] = "answered" /\ stage'[r] = "done"
         /\ req[r].kind \in {"login", "logout"} \/ req[r].cookie # jar]_vars

\* "a rejected check must land on 'idle' or that loading gate hangs forever"
\* (walletContext.tsx:43): every page load is decided, and every click on
\* Login is over in the end, whatever fails.
EveryPageSettles ==
  \A t \in Tabs :
    /\ status[t] = "restoring" ~> status[t] # "restoring"
    /\ handler[<<t, "login">>].at # "off" ~> handler[<<t, "login">>].at = "off"
=============================================================================
