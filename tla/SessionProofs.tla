------------------------------ MODULE SessionProofs -------------------------
(***************************************************************************)
(* Proofs about Session for any tabs, identities, requests in flight,      *)
(* events and faults.                                                      *)
(***************************************************************************)
EXTENDS Session, FiniteSetTheorems, TLAPS

\* A proof acts only when its nonce is fresh, which consumes it.
ActsInv ==
  \A r \in Requests :
    /\ acts[r] \in {0, 1}
    /\ acts[r] = 1 => r \in nonces
    /\ user[r] # None => acts[r] = 1

\* The handshake in flight is the one that is memoised, unless the user has
\* logged out of the page.
MemoInv == \A t \in Tabs : t \notin loggedOut => asking[t] \subseteq {memo[t]}

\* Only a login sets the cookie, and only a logout or the refusal of a dead
\* session clears it.
CookieInv ==
  \A r \in Requests :
    stage[r] = "answered" =>
      /\ answer[r].cookie = "set" => req[r].kind = "login"
      /\ answer[r].cookie = "clear" => req[r].kind = "logout" \/ req[r].cookie \in expired

\* A page that was taken to /login, and has not been let in since, has only
\* logins in flight, and makes them from there.
LoopAt(t) ==
  /\ check[t].code # "unauthorized"
  /\ redirects[t] # 0 =>
       /\ redirects[t] = 1
       /\ status[t] # "authenticated"
       /\ handler[<<t, "effect">>].at = "off"
       /\ handler[<<t, "login">>].at # "off" => path[t] = "login"
       /\ \A r \in Requests : req[r].tab = t => req[r].kind = "login" /\ path[t] = "login"

LoopInv == \A t \in Tabs : LoopAt(t)

IInv == TypeOK /\ ActsInv /\ MemoInv /\ CookieInv /\ LoopInv

-----------------------------------------------------------------------------
LEMMA BoundsType == ASSUME TypeOK, Event \/ Fault PROVE events' \in Nat /\ (Fault => faults' \in Nat)
PROOF BY DEF TypeOK, Event, Fault

LEMMA InitIInv == ASSUME Init PROVE IInv
<1>1. TypeOK
  BY UserAssumption, TabsAssumption
  DEF Init, TypeOK, Sessions, Old, StatusOf, PathOf, Asked, Decided, Blank, NoAnswer, Off, Codes, Kinds, Guarded, Handlers
<1>2. ActsInv /\ MemoInv /\ CookieInv
  BY DEF Init, ActsInv, MemoInv, CookieInv, Sessions, Old, Requests
<1>3. LoopInv
  BY NoneAssumption DEF Init, LoopInv, LoopAt, Handlers, Off, Blank, Asked, Decided
<1> QED
  BY <1>1, <1>2, <1>3 DEF IInv
-----------------------------------------------------------------------------
(***************************************************************************)
(* The server: its steps change a request and its answer.                  *)
(***************************************************************************)
LEMMA Answers ==
  ASSUME TypeOK, NEW r \in Requests, NEW code \in Codes, NEW cookie \in {"keep", "clear", "set"},
         Answer(r, code, cookie)
  PROVE  /\ stage' \in [Requests -> {"unsent", "sent", "guarded", "answered", "done"}]
         /\ answer' \in [Requests -> [code : Codes, cookie : {"keep", "clear", "set"}]]
         /\ stage'[r] = "answered" /\ answer'[r].cookie = cookie
         /\ \A q \in Requests \ {r} : stage'[q] = stage[q] /\ answer'[q] = answer[q]
PROOF BY DEF TypeOK, Answer

\* What no step of the server changes.
Browser == <<jar, expired, wallet, req, check, page, connection, handler, redirects, loggedOut>>

LEMMA ServerType ==
  ASSUME TypeOK, UNCHANGED Browser,
         user' \in [Sessions -> Identities \cup {None}], nonces' \subseteq Requests,
         stage' \in [Requests -> {"unsent", "sent", "guarded", "answered", "done"}],
         answer' \in [Requests -> [code : Codes, cookie : {"keep", "clear", "set"}]],
         acts' \in [Requests -> Nat], events' \in Nat, faults' \in Nat
  PROVE  TypeOK'
PROOF BY DEF TypeOK, Browser, page, connection

LEMMA LoopStays ==
  ASSUME LoopInv, UNCHANGED <<check, redirects, status, path, handler, req>>
  PROVE  LoopInv'
PROOF BY DEF LoopInv, LoopAt

LEMMA MemoStays == ASSUME MemoInv, UNCHANGED <<asking, memo, loggedOut>> PROVE MemoInv'
PROOF BY DEF MemoInv

LEMMA ActsStay == ASSUME ActsInv, UNCHANGED <<acts, nonces, user>> PROVE ActsInv'
PROOF BY DEF ActsInv

LEMMA CookiesStay == ASSUME CookieInv, UNCHANGED <<stage, answer, req, expired>> PROVE CookieInv'
PROOF BY DEF CookieInv

\* An answer that sets or clears the cookie only as it may.
LEMMA Served ==
  ASSUME IInv, NEW r \in Requests, NEW code \in Codes, NEW cookie \in {"keep", "clear", "set"},
         Answer(r, code, cookie), UNCHANGED Browser,
         cookie = "set" => req[r].kind = "login",
         cookie = "clear" => req[r].kind = "logout" \/ req[r].cookie \in expired
  PROVE  MemoInv' /\ CookieInv' /\ LoopInv'
<1>1. CookieInv'
  BY Answers DEF IInv, CookieInv, Browser
<1> QED
  BY <1>1, LoopStays, MemoStays DEF IInv, Browser, page, connection

\* A refusal for want of a session clears no cookie but a dead one.
LEMMA ClearsTheDead ==
  ASSUME NEW r \in Requests, ~Live(req[r].cookie)
  PROVE  /\ Cleared(r) \in {"keep", "clear"}
         /\ Cleared(r) = "clear" => req[r].cookie \in expired
PROOF BY DEF Cleared, Live

\* Consuming a proof acts upon it at most once.
LEMMA Consumes ==
  ASSUME TypeOK, ActsInv, NEW r \in Requests, Consume(r),
         user' = user \/ (Accepts(r) /\ user' = [user EXCEPT ![r] = req[r].signer])
  PROVE  /\ ActsInv' /\ nonces' \subseteq Requests /\ acts' \in [Requests -> Nat]
         /\ user' \in [Sessions -> Identities \cup {None}]
<1>1. CASE Accepts(r)
  <2>0. r \notin nonces /\ acts[r] = 0
    BY <1>1 DEF ActsInv, Accepts, Fresh
  <2>1. acts' = [acts EXCEPT ![r] = 1] /\ nonces' = nonces \cup {r}
    BY <1>1, <2>0 DEF Consume
  <2>2. user' \in [Sessions -> Identities \cup {None}] /\ \A q \in Requests \ {r} : user'[q] = user[q]
    BY DEF TypeOK, Sessions
  <2> QED
    BY <2>1, <2>2 DEF TypeOK, ActsInv
<1>2. CASE ~Accepts(r)
  BY <1>2 DEF TypeOK, ActsInv, Consume
<1> QED
  BY <1>1, <1>2

LEMMA RequireSessionStep == ASSUME IInv, NEW r \in Requests, RequireSession(r) PROVE IInv'
<1>1. UNCHANGED <<Browser, user, nonces, acts, bounds>>
  BY DEF RequireSession, Browser, cookies, history
<1>2. ActsInv'
  BY <1>1, ActsStay DEF IInv
<1>3. CASE ~Live(req[r].cookie) /\ Answer(r, "unauthorized", Cleared(r))
  <2>0. PICK cookie \in {"keep", "clear"} :
          Answer(r, "unauthorized", cookie) /\ (cookie = "clear" => req[r].cookie \in expired)
    BY <1>3, ClearsTheDead
  <2>1. TypeOK'
    BY <1>1, <2>0, Answers, ServerType DEF IInv, TypeOK, bounds, Codes
  <2> QED
    BY <1>1, <1>2, <2>0, <2>1, Served DEF IInv, Codes
<1>4. CASE Answer(r, "ok", "keep")
  <2>1. TypeOK'
    BY <1>1, <1>4, Answers, ServerType DEF IInv, TypeOK, bounds, Codes
  <2> QED
    BY <1>1, <1>2, <1>4, <2>1, Served DEF IInv, Codes
<1>5. CASE stage' = [stage EXCEPT ![r] = "guarded"] /\ UNCHANGED answer
  <2>1. TypeOK'
    BY <1>1, <1>5, ServerType DEF IInv, TypeOK, bounds
  <2>2. CookieInv'
    BY <1>1, <1>5 DEF IInv, TypeOK, CookieInv, Browser
  <2> QED
    BY <1>1, <1>2, <2>1, <2>2, LoopStays, MemoStays DEF IInv, Browser, page, connection
<1> QED
  BY <1>3, <1>4, <1>5 DEF RequireSession

LEMMA RequireAuthProofStep == ASSUME IInv, NEW r \in Requests, RequireAuthProof(r) PROVE IInv'
<1>1. UNCHANGED <<Browser, user, bounds>>
  BY DEF RequireAuthProof, Browser, cookies
<1>2. CASE ~Live(req[r].cookie) /\ Answer(r, "unauthorized", Cleared(r)) /\ UNCHANGED <<nonces, acts>>
  <2>0. PICK cookie \in {"keep", "clear"} :
          Answer(r, "unauthorized", cookie) /\ (cookie = "clear" => req[r].cookie \in expired)
    BY <1>2, ClearsTheDead
  <2>1. TypeOK'
    BY <1>1, <1>2, <2>0, Answers, ServerType DEF IInv, TypeOK, bounds, Codes
  <2> QED
    BY <1>1, <1>2, <2>0, <2>1, ActsStay, Served DEF IInv, Codes
<1>3. CASE Consume(r) /\ \E code \in {"ok", "unauthorized"} : Answer(r, code, "keep")
  <2>1. ActsInv' /\ nonces' \subseteq Requests /\ acts' \in [Requests -> Nat]
    BY <1>1, <1>3, Consumes DEF IInv
  <2>2. TypeOK'
    BY <1>1, <1>3, <2>1, Answers, ServerType DEF IInv, TypeOK, bounds, Codes
  <2> QED
    BY <1>1, <1>3, <2>1, <2>2, Served DEF IInv, Codes
<1> QED
  BY <1>2, <1>3 DEF RequireAuthProof

LEMMA LoginStep == ASSUME IInv, NEW r \in Requests, Login(r) PROVE IInv'
<1>1. UNCHANGED <<Browser, bounds>> /\ req[r].kind = "login" /\ Consume(r)
  BY DEF Login, Browser
<1>2. /\ ActsInv' /\ nonces' \subseteq Requests /\ acts' \in [Requests -> Nat]
      /\ user' \in [Sessions -> Identities \cup {None}]
  BY <1>1, Consumes DEF IInv, Login
<1>3. PICK code \in {"ok", "unauthorized"}, cookie \in {"keep", "set"} : Answer(r, code, cookie)
  BY DEF Login
<1>4. TypeOK'
  BY <1>1, <1>2, <1>3, Answers, ServerType DEF IInv, TypeOK, bounds, Codes
<1> QED
  BY <1>1, <1>2, <1>3, <1>4, Served DEF IInv, Codes

LEMMA UnguardedStep == ASSUME IInv, NEW r \in Requests, Unguarded(r) PROVE IInv'
<1>1. UNCHANGED <<Browser, user, nonces, acts, bounds>>
  BY DEF Unguarded, Browser, cookies, history
<1>2. PICK code \in {"ok", "alive", "dead"}, cookie \in {"keep", "clear"} :
        Answer(r, code, cookie) /\ (cookie = "clear" => req[r].kind = "logout")
  BY DEF Unguarded
<1>3. TypeOK'
  BY <1>1, <1>2, Answers, ServerType DEF IInv, TypeOK, bounds, Codes
<1> QED
  BY <1>1, <1>2, <1>3, ActsStay, Served DEF IInv, Codes

LEMMA ServerFailsStep == ASSUME IInv, NEW r \in Requests, ServerFails(r) PROVE IInv'
<1>1. UNCHANGED <<Browser, user, acts>> /\ Answer(r, "error", "keep")
  BY DEF ServerFails, Browser, cookies, history
<1>2. nonces' = nonces \/ nonces' = nonces \cup {r}
  BY DEF ServerFails
<1>3. ActsInv'
  BY <1>1, <1>2 DEF IInv, ActsInv
<1>4. events' \in Nat /\ faults' \in Nat
  BY BoundsType DEF IInv, ServerFails, Fault
<1>5. TypeOK'
  BY <1>1, <1>2, <1>4, Answers, ServerType DEF IInv, TypeOK, Codes
<1> QED
  BY <1>1, <1>3, <1>5, Served DEF IInv, Codes

LEMMA DuplicateStep == ASSUME IInv, NEW r \in Requests, Duplicate(r) PROVE IInv'
<1>1. UNCHANGED <<Browser, user, messages>> /\ Consume(r)
  BY DEF Duplicate, Browser, cookies, messages
<1>2. ActsInv' /\ nonces' \subseteq Requests /\ acts' \in [Requests -> Nat]
  BY <1>1, Consumes DEF IInv
<1>3. events' \in Nat /\ faults' \in Nat
  BY BoundsType DEF IInv, Duplicate, Fault
<1>4. TypeOK'
  BY <1>1, <1>2, <1>3, ServerType DEF IInv, TypeOK, messages
<1> QED
  BY <1>1, <1>2, <1>4, LoopStays, MemoStays, CookiesStay DEF IInv, Browser, messages, page, connection

LEMMA ExpireStep == ASSUME IInv, NEW s \in Sessions, Expire(s) PROVE IInv'
<1>1. /\ UNCHANGED <<user, nonces, wallet, messages, check, page, connection, handler, history, faults>>
      /\ expired' = expired \cup {s} /\ jar' \in {jar, None}
  BY DEF Expire
<1>2. events' \in Nat
  BY BoundsType DEF IInv, Expire
<1>3. TypeOK'
  BY <1>1, <1>2 DEF IInv, TypeOK, messages, page, connection, history
<1>4. CookieInv'
  BY <1>1 DEF IInv, CookieInv, messages
<1> QED
  BY <1>1, <1>3, <1>4, ActsStay, LoopStays, MemoStays DEF IInv, messages, page, connection, history

LEMMA SwitchWalletStep == ASSUME IInv, SwitchWallet PROVE IInv'
<1>1. /\ UNCHANGED <<cookies, nonces, messages, check, page, connection, handler, history, faults>>
      /\ wallet' \in Identities
  BY DEF SwitchWallet
<1>2. events' \in Nat
  BY BoundsType DEF IInv, SwitchWallet
<1>3. TypeOK'
  BY <1>1, <1>2 DEF IInv, TypeOK, cookies, messages, page, connection, history
<1> QED
  BY <1>1, <1>3, ActsStay, LoopStays, MemoStays, CookiesStay
  DEF IInv, cookies, messages, page, connection, history
-----------------------------------------------------------------------------
(***************************************************************************)
(* The browser.                                                            *)
(***************************************************************************)
Answered == [code : Codes, cookie : {"keep", "clear", "set"}]

RequestType ==
  [kind : Kinds \cup {"none"}, tab : Tabs \cup {None}, cookie : Sessions \cup {None},
   claim : Identities \cup {None}, signer : Identities \cup {None}]

CheckType == [at : {"sent", "answered", "done"}, cookie : Sessions \cup {None}, code : Codes]

HandlerType ==
  [at : {"off", "wallet", "sign", "posted"}, on : Handshakes \cup Requests \cup {None},
   claim : Identities \cup {None}]

\* The type invariant, by what a step of the browser may touch.
LEMMA BrowserType ==
  ASSUME TypeOK, UNCHANGED <<user, expired, nonces, wallet, acts>>,
         jar' \in Sessions \cup {None},
         stage' \in [Requests -> {"unsent", "sent", "guarded", "answered", "done"}],
         req' \in [Requests -> RequestType], answer' \in [Requests -> Answered],
         check' \in [Tabs -> CheckType],
         status' \in [Tabs -> {"restoring", "idle", "authenticated"}],
         path' \in [Tabs -> {"login", "protected"}],
         key' \in [Tabs -> Identities \cup {None}], memo' \in [Tabs -> Handshakes \cup {None}],
         asking' \in [Tabs -> SUBSET Handshakes], handler' \in [Handlers -> HandlerType],
         redirects' \in [Tabs -> Nat], loggedOut' \subseteq Tabs, events' \in Nat, faults' \in Nat
  PROVE  TypeOK'
PROOF BY DEF TypeOK, RequestType, Answered, CheckType, HandlerType

LEMMA Types ==
  ASSUME TypeOK
  PROVE  /\ jar \in Sessions \cup {None}
         /\ stage \in [Requests -> {"unsent", "sent", "guarded", "answered", "done"}]
         /\ req \in [Requests -> RequestType] /\ answer \in [Requests -> Answered]
         /\ check \in [Tabs -> CheckType]
         /\ status \in [Tabs -> {"restoring", "idle", "authenticated"}]
         /\ path \in [Tabs -> {"login", "protected"}]
         /\ key \in [Tabs -> Identities \cup {None}] /\ memo \in [Tabs -> Handshakes \cup {None}]
         /\ asking \in [Tabs -> SUBSET Handshakes] /\ handler \in [Handlers -> HandlerType]
         /\ redirects \in [Tabs -> Nat] /\ loggedOut \subseteq Tabs /\ events \in Nat /\ faults \in Nat
PROOF BY DEF TypeOK, RequestType, Answered, CheckType, HandlerType

LEMMA Blanks ==
  /\ Blank \in RequestType /\ Blank.tab = None /\ NoAnswer \in Answered
  /\ Off \in HandlerType /\ Off.at = "off"
  /\ Decided \in CheckType /\ Decided.code # "unauthorized"
  /\ \A cookie \in Sessions \cup {None} :
       Asked(cookie) \in CheckType /\ Asked(cookie).code # "unauthorized"
PROOF BY DEF Blank, RequestType, NoAnswer, Answered, Off, HandlerType, Decided, Asked, CheckType, Codes

LEMMA Lands ==
  ASSUME TypeOK, NEW t \in Tabs, NEW s \in {"idle", "authenticated"}, Land(t, s)
  PROVE  /\ status' \in [Tabs -> {"restoring", "idle", "authenticated"}]
         /\ path' \in [Tabs -> {"login", "protected"}]
         /\ status'[t] = s /\ (s = "idle" => path'[t] = "login")
         /\ \A u \in Tabs \ {t} : status'[u] = status[u] /\ path'[u] = path[u]
PROOF BY DEF TypeOK, Land, PathOf

LEMMA Loads ==
  ASSUME TypeOK, NEW t \in Tabs, NEW where \in {"login", "protected"}, jar' \in Sessions \cup {None},
         Load(t, where)
  PROVE  /\ check' \in [Tabs -> CheckType]
         /\ status' \in [Tabs -> {"restoring", "idle", "authenticated"}]
         /\ path' \in [Tabs -> {"login", "protected"}]
         /\ key' \in [Tabs -> Identities \cup {None}] /\ memo' \in [Tabs -> Handshakes \cup {None}]
         /\ asking' \in [Tabs -> SUBSET Handshakes] /\ handler' \in [Handlers -> HandlerType]
         /\ loggedOut' \subseteq Tabs
         /\ status'[t] = "restoring" /\ asking'[t] = {} /\ check'[t].code # "unauthorized"
         /\ handler'[<<t, "login">>].at = "off" /\ handler'[<<t, "effect">>].at = "off"
         /\ \A u \in Tabs \ {t} :
              /\ check'[u] = check[u] /\ status'[u] = status[u] /\ path'[u] = path[u]
              /\ asking'[u] = asking[u] /\ memo'[u] = memo[u] /\ (u \in loggedOut' <=> u \in loggedOut)
              /\ handler'[<<u, "login">>] = handler[<<u, "login">>]
              /\ handler'[<<u, "effect">>] = handler[<<u, "effect">>]
<1>1. /\ check' = [check EXCEPT ![t] = Asked(jar')]
      /\ handler' = [h \in Handlers |-> IF h[1] = t THEN Off ELSE handler[h]]
  BY DEF Load
<1>2. /\ check' \in [Tabs -> CheckType] /\ check'[t].code # "unauthorized"
      /\ \A u \in Tabs \ {t} : check'[u] = check[u]
  BY <1>1, Blanks, Types
<1>3. handler' \in [Handlers -> HandlerType]
  BY <1>1, Blanks, Types
<1>4. \A u \in Tabs : <<u, "login">> \in Handlers /\ <<u, "effect">> \in Handlers
  BY DEF Handlers
<1>5. /\ handler'[<<t, "login">>] = Off /\ handler'[<<t, "effect">>] = Off
      /\ \A u \in Tabs \ {t} : /\ handler'[<<u, "login">>] = handler[<<u, "login">>]
                               /\ handler'[<<u, "effect">>] = handler[<<u, "effect">>]
  BY <1>1, <1>4
<1>6. /\ status' \in [Tabs -> {"restoring", "idle", "authenticated"}]
      /\ path' \in [Tabs -> {"login", "protected"}]
      /\ key' \in [Tabs -> Identities \cup {None}] /\ memo' \in [Tabs -> Handshakes \cup {None}]
      /\ asking' \in [Tabs -> SUBSET Handshakes] /\ loggedOut' \subseteq Tabs
      /\ status'[t] = "restoring" /\ asking'[t] = {}
      /\ \A u \in Tabs \ {t} :
           /\ status'[u] = status[u] /\ path'[u] = path[u]
           /\ asking'[u] = asking[u] /\ memo'[u] = memo[u] /\ (u \in loggedOut' <=> u \in loggedOut)
  BY DEF TypeOK, Load
<1> QED
  BY <1>2, <1>3, <1>5, <1>6, Blanks

\* The requests of a page that is gone are nobody's; the others stay.
LEMMA Orphans ==
  ASSUME TypeOK, NEW t \in Tabs, NEW gone \in SUBSET Requests, req' = Orphaned(t, gone)
  PROVE  /\ req' \in [Requests -> RequestType]
         /\ \A r \in Requests : req'[r].tab # t
         /\ \A r \in Requests \ gone : req'[r].kind = req[r].kind /\ req'[r].cookie = req[r].cookie
         /\ \A r \in Requests, u \in Tabs :
              req'[r].tab = u => req[r].tab = u /\ req'[r].kind = req[r].kind
<1>1. ASSUME NEW r \in Requests
      PROVE  req'[r] = IF r \in gone THEN Blank
                       ELSE IF req[r].tab = t THEN [req[r] EXCEPT !.tab = None] ELSE req[r]
  BY DEF Orphaned
<1>2. ASSUME NEW r \in Requests
      PROVE  /\ req'[r] \in RequestType /\ req'[r].tab # t
             /\ r \notin gone => req'[r].kind = req[r].kind /\ req'[r].cookie = req[r].cookie
             /\ \A u \in Tabs : req'[r].tab = u => req[r].tab = u /\ req'[r].kind = req[r].kind
  <2>1. req[r] \in RequestType
    BY Types
  <2>2. CASE r \in gone
    BY <1>1, <2>2, Blanks, NoneAssumption
  <2>3. CASE r \notin gone /\ req[r].tab = t
    <3>1. req'[r] = [req[r] EXCEPT !.tab = None]
      BY <1>1, <2>3
    <3>2. /\ req'[r] \in RequestType /\ req'[r].tab = None
          /\ req'[r].kind = req[r].kind /\ req'[r].cookie = req[r].cookie
      BY <2>1, <3>1 DEF RequestType
    <3>3. None \notin Tabs
      BY NoneAssumption
    <3> QED
      BY <3>2, <3>3
  <2>4. CASE r \notin gone /\ req[r].tab # t
    BY <1>1, <2>1, <2>4
  <2> QED
    BY <2>2, <2>3, <2>4
<1>3. DOMAIN req' = Requests /\ req' = [r \in Requests |-> req'[r]]
  BY DEF Orphaned
<1> QED
  BY <1>2, <1>3

\* A tab that has just been loaded is in no loop, and others are as before.
LEMMA LoadKeeps ==
  ASSUME IInv, NEW t \in Tabs, NEW where \in {"login", "protected"}, jar' \in Sessions \cup {None},
         Load(t, where), NEW gone \in SUBSET Requests, req' = Orphaned(t, gone),
         redirects' \in [Tabs -> Nat], redirects'[t] \in {0, 1},
         \A u \in Tabs \ {t} : redirects'[u] = redirects[u]
  PROVE  MemoInv' /\ LoopInv'
<1> USE DEF IInv
<1>1. MemoInv'
  BY Loads DEF MemoInv
<1>2. LoopAt(t)'
  <2>1. /\ status'[t] = "restoring" /\ check'[t].code # "unauthorized"
        /\ handler'[<<t, "login">>].at = "off" /\ handler'[<<t, "effect">>].at = "off"
    BY Loads
  <2>2. \A r \in Requests : req'[r].tab # t
    BY Orphans
  <2> QED
    BY <2>1, <2>2 DEF LoopAt
<1>3. \A u \in Tabs \ {t} :
        /\ check'[u] = check[u] /\ status'[u] = status[u] /\ path'[u] = path[u]
        /\ handler'[<<u, "login">>] = handler[<<u, "login">>]
        /\ handler'[<<u, "effect">>] = handler[<<u, "effect">>]
  <2>1. \A u \in Tabs : <<u, "login">> \in Handlers /\ <<u, "effect">> \in Handlers
    BY DEF Handlers
  <2>2. handler' = [h \in Handlers |-> IF h[1] = t THEN Off ELSE handler[h]]
    BY DEF Load
  <2>3. /\ check \in [Tabs -> CheckType] /\ status \in [Tabs -> {"restoring", "idle", "authenticated"}]
        /\ path \in [Tabs -> {"login", "protected"}]
    BY Types
  <2>4. \A u \in Tabs \ {t} : check'[u] = check[u] /\ status'[u] = status[u] /\ path'[u] = path[u]
    BY <2>3 DEF Load
  <2> QED
    BY <2>1, <2>2, <2>4
<1>4. ASSUME NEW u \in Tabs \ {t} PROVE LoopAt(u)'
  <2>1. LoopAt(u)
    BY DEF LoopInv
  <2>2. /\ check'[u] = check[u] /\ status'[u] = status[u] /\ path'[u] = path[u]
        /\ handler'[<<u, "login">>] = handler[<<u, "login">>]
        /\ handler'[<<u, "effect">>] = handler[<<u, "effect">>]
    BY <1>3
  <2>3. \A r \in Requests : req'[r].tab = u => req[r].tab = u /\ req'[r].kind = req[r].kind
    BY Orphans
  <2> QED
    BY <2>1, <2>2, <2>3 DEF LoopAt
<1> QED
  BY <1>1, <1>2, <1>4 DEF LoopInv

LEMMA ReloadStep == ASSUME IInv, NEW t \in Tabs, Reload(t) PROVE IInv'
<1>1. PICK where \in {"login", "protected"} : Load(t, where)
  BY DEF Reload
<1>2. /\ UNCHANGED <<cookies, nonces, wallet, stage, answer, acts, redirects, faults>>
      /\ req' = Orphaned(t, {}) /\ events' \in Nat
  BY BoundsType DEF IInv, Reload
<1>3. jar' \in Sessions \cup {None} /\ redirects'[t] \in {0, 1} /\ redirects' \in [Tabs -> Nat]
  BY <1>2 DEF IInv, TypeOK, LoopInv, LoopAt, cookies
<1>4. TypeOK'
  BY <1>1, <1>2, <1>3, Loads, Orphans, Types, BrowserType DEF IInv, cookies
<1>5. CookieInv'
  BY <1>2, Orphans DEF IInv, CookieInv, cookies
<1> QED
  BY <1>1, <1>2, <1>3, <1>4, <1>5, LoadKeeps, ActsStay DEF IInv, cookies

LEMMA CheckSessionStep == ASSUME IInv, NEW t \in Tabs, CheckSession(t) PROVE IInv'
<1>1. UNCHANGED <<cookies, nonces, wallet, messages, page, connection, handler, history, bounds>>
  BY DEF CheckSession
<1>2. PICK code \in {"alive", "dead"} : check' = [check EXCEPT ![t].at = "answered", ![t].code = code]
  BY DEF CheckSession
<1>3. /\ check' \in [Tabs -> CheckType] /\ check'[t].code # "unauthorized"
      /\ \A u \in Tabs \ {t} : check'[u] = check[u]
  <2>1. check[t] \in CheckType /\ check \in [Tabs -> CheckType]
    BY Types DEF IInv
  <2>2. check'[t] = [check[t] EXCEPT !.at = "answered", !.code = code]
    BY <1>2, <2>1
  <2>3. check'[t] \in CheckType /\ check'[t].code # "unauthorized"
    BY <2>1, <2>2 DEF CheckType, Codes
  <2> QED
    BY <1>2, <2>1, <2>3
<1>4. TypeOK'
  BY <1>1, <1>3, Types, BrowserType DEF IInv, cookies, messages, page, connection, history, bounds
<1>5. LoopInv'
  BY <1>1, <1>3 DEF IInv, LoopInv, LoopAt, messages, page, history
<1> QED
  BY <1>1, <1>4, <1>5, ActsStay, MemoStays, CookiesStay DEF IInv, cookies, messages, page, connection, history

\* What the check and the login leave when they end at t.
LEMMA DecidedLoop ==
  ASSUME IInv, NEW t \in Tabs, NEW s \in {"idle", "authenticated"}, Land(t, s),
         UNCHANGED <<req, handler>>, check' \in [Tabs -> CheckType],
         \A u \in Tabs : check'[u] = check[u] \/ check'[u].code # "unauthorized",
         IF s = "idle" THEN redirects' = redirects ELSE redirects' = [redirects EXCEPT ![t] = 0]
  PROVE  LoopInv'
<1>1. ASSUME NEW u \in Tabs PROVE LoopAt(u) /\ check'[u].code # "unauthorized"
  BY DEF IInv, LoopInv, LoopAt
<1>2. redirects \in [Tabs -> Nat]
  BY Types DEF IInv
<1>3. ASSUME NEW u \in Tabs PROVE LoopAt(u)'
  BY <1>1, <1>2, Lands DEF IInv, LoopAt
<1> QED
  BY <1>3 DEF LoopInv

LEMMA CheckFailsStep == ASSUME IInv, NEW t \in Tabs, CheckFails(t) PROVE IInv'
<1>1. /\ UNCHANGED <<cookies, nonces, wallet, messages, connection, handler, history>>
      /\ Land(t, "idle") /\ check' = [check EXCEPT ![t] = Decided]
      /\ events' \in Nat /\ faults' \in Nat
  BY BoundsType DEF IInv, CheckFails, CheckDone, Fault
<1>2. /\ check' \in [Tabs -> CheckType]
      /\ \A u \in Tabs : check'[u] = check[u] \/ check'[u].code # "unauthorized"
  BY <1>1, Blanks, Types DEF IInv
<1>3. TypeOK'
  BY <1>1, <1>2, Lands, Types, BrowserType DEF IInv, cookies, messages, connection, history
<1>4. LoopInv'
  BY <1>1, <1>2, DecidedLoop DEF messages, history
<1> QED
  BY <1>1, <1>3, <1>4, ActsStay, MemoStays, CookiesStay DEF IInv, cookies, messages, connection, history

LEMMA RestoreStep == ASSUME IInv, NEW t \in Tabs, Restore(t) PROVE IInv'
<1>1. ~Redirects(t, check[t].code)
  BY DEF IInv, LoopInv, LoopAt, Redirects
<1>2. /\ UNCHANGED <<cookies, nonces, wallet, stage, answer, acts, bounds, req, connection, handler, loggedOut>>
      /\ check' = [check EXCEPT ![t] = Decided]
      /\ \/ Land(t, "authenticated") /\ redirects' = [redirects EXCEPT ![t] = 0]
         \/ Land(t, "idle") /\ redirects' = redirects
  BY <1>1 DEF Restore, CheckDone, Enter
<1>3. /\ check' \in [Tabs -> CheckType]
      /\ \A u \in Tabs : check'[u] = check[u] \/ check'[u].code # "unauthorized"
  BY <1>2, Blanks, Types DEF IInv
<1>4. redirects' \in [Tabs -> Nat]
  BY <1>2, Types DEF IInv
<1>5. TypeOK'
  BY <1>2, <1>3, <1>4, Lands, Types, BrowserType DEF IInv, cookies, connection, bounds
<1>6. LoopInv'
  BY <1>2, <1>3, DecidedLoop
<1> QED
  BY <1>2, <1>5, <1>6, ActsStay, MemoStays, CookiesStay DEF IInv, cookies, connection

\* What keeps a tab out of the loop: nothing in flight there but logins, made
\* from /login.
LEMMA LoopKeeps ==
  ASSUME IInv, NEW t \in Tabs, check'[t].code # "unauthorized",
         \/ redirects'[t] = 0
         \/ /\ redirects'[t] = redirects[t]
            /\ status'[t] = status[t] \/ status'[t] = "idle"
            /\ path'[t] = path[t] \/ path'[t] = "login"
            /\ handler'[<<t, "effect">>].at # "off" =>
                 status[t] = "authenticated" \/ handler[<<t, "effect">>].at # "off"
            /\ handler'[<<t, "login">>].at # "off" =>
                 path[t] = "login" \/ handler[<<t, "login">>].at # "off"
            /\ \A r \in Requests : req'[r].tab = t =>
                 \/ req[r].tab = t /\ req'[r].kind = req[r].kind
                 \/ req'[r].kind = "login" /\ handler[<<t, "login">>].at # "off"
                 \/ status[t] = "authenticated" \/ handler[<<t, "effect">>].at # "off"
  PROVE  LoopAt(t)'
<1>1. LoopAt(t)
  BY DEF IInv, LoopInv
<1>2. CASE redirects'[t] = 0
  BY <1>2 DEF LoopAt
<1>3. CASE redirects'[t] # 0
  BY <1>1, <1>3 DEF LoopAt
<1> QED
  BY <1>2, <1>3

\* Each page has both handlers.
LEMMA PageAndHandlers ==
  ASSUME NEW t \in Tabs
  PROVE  <<t, "login">> \in Handlers /\ <<t, "effect">> \in Handlers
PROOF BY DEF Handlers

LEMMA EnsureWalletStep ==
  ASSUME IInv, NEW t \in Tabs, NEW what \in {"login", "effect"}, EnsureWallet(<<t, what>>),
         what = "login" => path[t] = "login", what = "effect" => status[t] = "authenticated"
  PROVE  IInv'
<1> DEFINE h == <<t, what>>
<1>0. h \in Handlers
  BY PageAndHandlers
<1>1. UNCHANGED <<cookies, nonces, wallet, messages, check, page, key, history, bounds>>
  BY DEF EnsureWallet
<1>2. PICK to \in HandlerType : to.at # "off" /\ handler' = [handler EXCEPT ![h] = to]
  <2>1. key \in [Tabs -> Identities \cup {None}] /\ memo \in [Tabs -> Handshakes \cup {None}]
    BY Types DEF IInv
  <2>2. \A k \in Identities \cup {None} : [at |-> "sign", on |-> None, claim |-> k] \in HandlerType
    BY DEF HandlerType
  <2>3. \A n \in Handshakes \cup {None} : [at |-> "wallet", on |-> n, claim |-> None] \in HandlerType
    BY DEF HandlerType
  <2>4. \/ handler' = [handler EXCEPT ![h] = [at |-> "sign", on |-> None, claim |-> key[t]]]
        \/ handler' = [handler EXCEPT ![h] = [at |-> "wallet", on |-> memo[t], claim |-> None]]
        \/ \E n \in Handshakes : handler' = [handler EXCEPT ![h] = [at |-> "wallet", on |-> n, claim |-> None]]
    BY DEF EnsureWallet
  <2> QED
    BY <2>1, <2>2, <2>3, <2>4
<1>3. /\ handler' \in [Handlers -> HandlerType]
      /\ \A g \in Handlers \ {h} : handler'[g] = handler[g]
  BY <1>0, <1>2, Types DEF IInv
<1>4. \/ UNCHANGED <<memo, asking>>
      \/ \E n \in Handshakes : /\ memo[t] = None
                               /\ memo' = [memo EXCEPT ![t] = n]
                               /\ asking' = [asking EXCEPT ![t] = @ \cup {n}]
  BY DEF EnsureWallet, Memoised
<1>5. /\ memo' \in [Tabs -> Handshakes \cup {None}] /\ asking' \in [Tabs -> SUBSET Handshakes]
      /\ MemoInv'
  <2>1. memo \in [Tabs -> Handshakes \cup {None}] /\ asking \in [Tabs -> SUBSET Handshakes]
    BY Types DEF IInv
  <2>2. None \notin Handshakes
    BY NoneAssumption
  <2>3. UNCHANGED loggedOut /\ MemoInv
    BY <1>1 DEF IInv, history
  <2>4. CASE UNCHANGED <<memo, asking>>
    BY <2>1, <2>3, <2>4 DEF MemoInv
  <2>5. ASSUME NEW n \in Handshakes, memo[t] = None, memo' = [memo EXCEPT ![t] = n],
               asking' = [asking EXCEPT ![t] = @ \cup {n}]
        PROVE  /\ memo' \in [Tabs -> Handshakes \cup {None}] /\ asking' \in [Tabs -> SUBSET Handshakes]
               /\ MemoInv'
    <3>1. t \notin loggedOut => asking[t] = {}
      BY <2>1, <2>2, <2>3, <2>5 DEF MemoInv
    <3>2. /\ memo'[t] = n /\ asking'[t] = asking[t] \cup {n}
          /\ \A u \in Tabs \ {t} : memo'[u] = memo[u] /\ asking'[u] = asking[u]
      BY <2>1, <2>5
    <3>3. memo' \in [Tabs -> Handshakes \cup {None}] /\ asking' \in [Tabs -> SUBSET Handshakes]
      BY <2>1, <2>5
    <3> QED
      BY <2>3, <3>1, <3>2, <3>3 DEF MemoInv
  <2> QED
    BY <1>4, <2>4, <2>5
<1>6. TypeOK'
  BY <1>1, <1>3, <1>5, Types, BrowserType DEF IInv, cookies, messages, page, history, bounds
<1>7. ASSUME NEW u \in Tabs PROVE LoopAt(u)'
  <2>1. /\ UNCHANGED <<status, path, redirects, check, req>> /\ check'[u].code # "unauthorized"
    BY <1>1 DEF IInv, LoopInv, LoopAt, page, history, messages
  <2>2. /\ <<u, "effect">> # h => handler'[<<u, "effect">>] = handler[<<u, "effect">>]
        /\ <<u, "login">> # h => handler'[<<u, "login">>] = handler[<<u, "login">>]
    BY <1>3, PageAndHandlers
  <2>3. /\ <<u, "effect">> = h => status[u] = "authenticated"
        /\ <<u, "login">> = h => path[u] = "login"
    OBVIOUS
  <2> QED
    BY <2>1, <2>2, <2>3, LoopKeeps
<1>8. LoopInv'
  BY <1>7 DEF LoopInv
<1> QED
  BY <1>1, <1>5, <1>6, <1>8, ActsStay, CookiesStay DEF IInv, cookies, messages, history

LEMMA ConnectStep == ASSUME IInv, NEW t \in Tabs, NEW n \in Handshakes, Connect(t, n) PROVE IInv'
<1>1. UNCHANGED <<cookies, nonces, wallet, messages, check, page, history, bounds>>
  BY DEF Connect
<1>2. PICK to \in HandlerType, who \in SUBSET Handlers :
        /\ handler' = [h \in Handlers |-> IF h \in who THEN to ELSE handler[h]]
        /\ \A h \in who : handler[h].at = "wallet"
  <2> DEFINE who == {h \in Handlers : h[1] = t /\ handler[h].at = "wallet" /\ handler[h].on = n}
  <2>1. wallet \in Identities
    BY DEF IInv, TypeOK
  <2>2. [at |-> "sign", on |-> None, claim |-> wallet] \in HandlerType
    BY <2>1 DEF HandlerType
  <2>3. \/ handler' = [h \in Handlers |-> IF h \in who THEN [at |-> "sign", on |-> None, claim |-> wallet]
                                          ELSE handler[h]]
        \/ handler' = [h \in Handlers |-> IF h \in who THEN Off ELSE handler[h]]
    BY DEF Connect
  <2>4. who \in SUBSET Handlers /\ \A h \in who : handler[h].at = "wallet"
    OBVIOUS
  <2> HIDE DEF who
  <2> QED
    BY <2>2, <2>3, <2>4, Blanks
<1>3. /\ handler' \in [Handlers -> HandlerType]
      /\ \A h \in Handlers : handler'[h].at # "off" => handler[h].at # "off"
  BY <1>2, Types DEF IInv
<1>4. /\ asking' = [asking EXCEPT ![t] = @ \ {n}] /\ n \in asking[t]
      /\ \/ UNCHANGED memo /\ key' = [key EXCEPT ![t] = wallet]
         \/ UNCHANGED key /\ memo' = [memo EXCEPT ![t] = None]
  BY DEF Connect
<1>5. /\ memo' \in [Tabs -> Handshakes \cup {None}] /\ asking' \in [Tabs -> SUBSET Handshakes]
      /\ key' \in [Tabs -> Identities \cup {None}] /\ MemoInv'
  <2>1. /\ memo \in [Tabs -> Handshakes \cup {None}] /\ asking \in [Tabs -> SUBSET Handshakes]
        /\ key \in [Tabs -> Identities \cup {None}] /\ wallet \in Identities
    BY Types DEF IInv, TypeOK
  <2>2. UNCHANGED loggedOut /\ MemoInv
    BY <1>1 DEF IInv, history
  <2>3. t \notin loggedOut => asking'[t] = {}
    BY <1>4, <2>1, <2>2 DEF MemoInv
  <2>4. \A u \in Tabs \ {t} : memo'[u] = memo[u] /\ asking'[u] = asking[u]
    BY <1>4, <2>1
  <2>5. /\ memo' \in [Tabs -> Handshakes \cup {None}] /\ asking' \in [Tabs -> SUBSET Handshakes]
        /\ key' \in [Tabs -> Identities \cup {None}]
    BY <1>4, <2>1
  <2> QED
    BY <2>2, <2>3, <2>4, <2>5 DEF MemoInv
<1>6. TypeOK'
  BY <1>1, <1>3, <1>5, Types, BrowserType DEF IInv, cookies, messages, page, history, bounds
<1>7. ASSUME NEW u \in Tabs PROVE LoopAt(u)'
  <2>1. UNCHANGED <<status, path, redirects, check, req>> /\ check'[u].code # "unauthorized"
    BY <1>1 DEF IInv, LoopInv, LoopAt, page, history, messages
  <2> QED
    BY <1>3, <2>1, PageAndHandlers, LoopKeeps
<1>8. LoopInv'
  BY <1>7 DEF LoopInv
<1> QED
  BY <1>1, <1>5, <1>6, <1>8, ActsStay, CookiesStay DEF IInv, cookies, messages, history

\* A request that is sent has no answer yet.
LEMMA Sends ==
  ASSUME IInv, NEW r \in Requests, NEW request \in RequestType, Send(r, request),
         UNCHANGED <<answer, expired>>
  PROVE  /\ stage' \in [Requests -> {"unsent", "sent", "guarded", "answered", "done"}]
         /\ req' \in [Requests -> RequestType] /\ CookieInv'
         /\ req'[r] = request /\ \A q \in Requests \ {r} : req'[q] = req[q]
<1>1. stage' = [stage EXCEPT ![r] = "sent"] /\ req' = [req EXCEPT ![r] = request]
  BY DEF Send
<1>2. /\ stage \in [Requests -> {"unsent", "sent", "guarded", "answered", "done"}]
      /\ req \in [Requests -> RequestType]
  BY Types DEF IInv
<1> QED
  BY <1>1, <1>2 DEF IInv, CookieInv

LEMMA SignStep == ASSUME IInv, NEW h \in Handlers, Sign(h) PROVE IInv'
<1>1. /\ UNCHANGED <<cookies, nonces, wallet, answer, check, page, connection, history, bounds>>
      /\ handler[h].at = "sign"
  BY DEF Sign
<1>2. PICK to \in HandlerType : handler' = [handler EXCEPT ![h] = to] /\ to.at \in {"off", "posted"}
  <2>1. \A r \in Requests : [at |-> "posted", on |-> r, claim |-> None] \in HandlerType
    BY DEF HandlerType
  <2> QED
    BY <2>1, Blanks DEF Sign
<1>3. /\ handler' \in [Handlers -> HandlerType]
      /\ \A g \in Handlers : handler'[g].at # "off" => handler[g].at # "off"
  <2>1. handler \in [Handlers -> HandlerType]
    BY Types DEF IInv
  <2> QED
    BY <1>1, <1>2, <2>1
<1>4. PICK t \in Tabs, what \in {"login", "effect"} : h = <<t, what>> /\ h[1] = t /\ h[2] = what
  BY DEF Handlers
<1>5. /\ stage' \in [Requests -> {"unsent", "sent", "guarded", "answered", "done"}]
      /\ req' \in [Requests -> RequestType] /\ CookieInv'
      /\ \A r \in Requests, u \in Tabs : req'[r].tab = u =>
           \/ req'[r] = req[r]
           \/ u = t /\ (what = "login" => req'[r].kind = "login")
  <2>1. CASE UNCHANGED <<stage, req>>
    BY <1>1, <2>1, Types, CookiesStay DEF IInv, cookies
  <2>2. ASSUME NEW r \in Requests,
               Send(r, [kind |-> IF h[2] = "login" THEN "login" ELSE "stepup",
                        tab |-> h[1], cookie |-> jar, signer |-> wallet,
                        claim |-> IF h[2] = "login" THEN handler[h].claim ELSE wallet])
        PROVE  /\ stage' \in [Requests -> {"unsent", "sent", "guarded", "answered", "done"}]
               /\ req' \in [Requests -> RequestType] /\ CookieInv'
               /\ \A q \in Requests, u \in Tabs : req'[q].tab = u =>
                    \/ req'[q] = req[q]
                    \/ u = t /\ (what = "login" => req'[q].kind = "login")
    <3> DEFINE request == [kind |-> IF h[2] = "login" THEN "login" ELSE "stepup",
                           tab |-> h[1], cookie |-> jar, signer |-> wallet,
                           claim |-> IF h[2] = "login" THEN handler[h].claim ELSE wallet]
    <3>1. handler[h] \in HandlerType
      BY Types DEF IInv
    <3>2. handler[h].claim \in Identities \cup {None}
      BY <3>1 DEF HandlerType
    <3>3. jar \in Sessions \cup {None} /\ wallet \in Identities
      BY DEF IInv, TypeOK
    <3>4. /\ request \in RequestType /\ request.tab = t
          /\ what = "login" => request.kind = "login"
      BY <1>4, <3>2, <3>3 DEF RequestType, Kinds, Guarded
    <3>5. Send(r, request)
      BY <2>2
    <3>6. UNCHANGED <<answer, expired>>
      BY <1>1 DEF cookies
    <3> HIDE DEF request
    <3> QED
      BY <3>4, <3>5, <3>6, Sends
  <2> QED
    BY <2>1, <2>2 DEF Sign
<1>6. TypeOK'
  BY <1>1, <1>3, <1>5, Types, BrowserType DEF IInv, cookies, page, connection, history, bounds
<1>7. ASSUME NEW u \in Tabs PROVE LoopAt(u)'
  <2>1. UNCHANGED <<status, path, redirects, check>> /\ check'[u].code # "unauthorized"
    BY <1>1 DEF IInv, LoopInv, LoopAt, page, history
  <2>2. \A r \in Requests : req'[r].tab = u =>
          \/ req[r].tab = u /\ req'[r].kind = req[r].kind
          \/ req'[r].kind = "login" /\ handler[<<u, "login">>].at # "off"
          \/ handler[<<u, "effect">>].at # "off"
    BY <1>1, <1>4, <1>5
  <2> QED
    BY <1>3, <2>1, <2>2, PageAndHandlers, LoopKeeps
<1>8. LoopInv'
  BY <1>7 DEF LoopInv
<1> QED
  BY <1>1, <1>5, <1>6, <1>8, ActsStay, MemoStays DEF IInv, cookies, connection, history

LEMMA AskStep ==
  ASSUME IInv, NEW t \in Tabs, NEW kind \in {"read", "preflight", "logout"}, Ask(t, kind)
  PROVE  IInv'
<1>1. /\ UNCHANGED <<cookies, nonces, wallet, answer, check, page, connection, handler, history, bounds>>
      /\ status[t] = "authenticated"
  BY DEF Ask
<1>2. PICK r \in Requests, request \in RequestType : Send(r, request) /\ request.tab = t
  <2>1. jar \in Sessions \cup {None}
    BY DEF IInv, TypeOK
  <2>2. [kind |-> kind, tab |-> t, cookie |-> jar, claim |-> None, signer |-> None] \in RequestType
    BY <2>1 DEF RequestType, Kinds, Guarded
  <2> QED
    BY <2>2 DEF Ask
<1>3. /\ stage' \in [Requests -> {"unsent", "sent", "guarded", "answered", "done"}]
      /\ req' \in [Requests -> RequestType] /\ CookieInv'
      /\ req'[r].tab = t /\ \A q \in Requests \ {r} : req'[q] = req[q]
  BY <1>1, <1>2, Sends DEF cookies
<1>4. TypeOK'
  BY <1>1, <1>3, Types, BrowserType DEF IInv, cookies, page, connection, history, bounds
<1>5. ASSUME NEW u \in Tabs PROVE LoopAt(u)'
  <2>1. UNCHANGED <<status, path, redirects, check, handler>> /\ check'[u].code # "unauthorized"
    BY <1>1 DEF IInv, LoopInv, LoopAt, page, history
  <2>2. \A q \in Requests : req'[q].tab = u => q = r \/ req'[q] = req[q]
    BY <1>3
  <2>3. \A q \in Requests : req'[q].tab = u =>
          (req[q].tab = u /\ req'[q].kind = req[q].kind) \/ status[u] = "authenticated"
    BY <1>1, <1>3, <2>2
  <2> QED
    BY <2>1, <2>3, LoopKeeps
<1>6. LoopInv'
  BY <1>5 DEF LoopInv
<1> QED
  BY <1>1, <1>3, <1>4, <1>6, ActsStay, MemoStays DEF IInv, cookies, connection, history
-----------------------------------------------------------------------------
(***************************************************************************)
(* What the browser hears.                                                 *)
(***************************************************************************)
LEMMA JarType == ASSUME IInv, NEW r \in Requests, SetCookie(r) PROVE jar' \in Sessions \cup {None}
<1>1. answer[r].cookie \in {"keep", "clear", "set"} /\ jar \in Sessions \cup {None}
  BY DEF IInv, TypeOK
<1> QED
  BY <1>1 DEF SetCookie, Sessions

LEMMA Dones ==
  ASSUME IInv, NEW r \in Requests, Done(r), UNCHANGED expired,
         \A q \in Requests \ {r} : req'[q].kind = req[q].kind /\ req'[q].cookie = req[q].cookie
  PROVE  /\ stage' \in [Requests -> {"unsent", "sent", "guarded", "answered", "done"}]
         /\ answer' \in [Requests -> Answered] /\ CookieInv'
<1>1. stage' = [stage EXCEPT ![r] = "done"] /\ answer' = [answer EXCEPT ![r] = NoAnswer]
  BY DEF Done
<1>2. /\ stage \in [Requests -> {"unsent", "sent", "guarded", "answered", "done"}]
      /\ answer \in [Requests -> Answered]
  BY Types DEF IInv
<1>3. /\ stage' \in [Requests -> {"unsent", "sent", "guarded", "answered", "done"}]
      /\ answer' \in [Requests -> Answered]
  BY <1>1, <1>2, Blanks
<1>4. stage'[r] = "done" /\ \A q \in Requests \ {r} : stage'[q] = stage[q] /\ answer'[q] = answer[q]
  BY <1>1, <1>2
<1> QED
  BY <1>3, <1>4 DEF IInv, CookieInv

\* The request is over: nobody awaits it.
LEMMA Forgets ==
  ASSUME IInv, NEW r \in Requests, req' = [req EXCEPT ![r] = Blank]
  PROVE  /\ req' \in [Requests -> RequestType]
         /\ \A q \in Requests \ {r} : req'[q] = req[q]
         /\ \A q \in Requests, u \in Tabs : req'[q].tab = u => req'[q] = req[q]
<1>1. req \in [Requests -> RequestType]
  BY Types DEF IInv
<1>2. req'[r] = Blank /\ \A q \in Requests \ {r} : req'[q] = req[q]
  BY <1>1
<1>3. None \notin Tabs
  BY NoneAssumption
<1>4. req' \in [Requests -> RequestType]
  BY <1>1, Blanks
<1> QED
  BY <1>2, <1>3, <1>4, Blanks

LEMMA LoginsOver ==
  ASSUME IInv, NEW r \in Requests, LoginOver(r)
  PROVE  /\ handler' \in [Handlers -> HandlerType]
         /\ \A h \in Handlers : handler'[h].at # "off" => handler[h].at # "off"
PROOF BY Blanks, Types DEF IInv, LoginOver

LEMMA LoseStep == ASSUME IInv, NEW r \in Requests, Lose(r) PROVE IInv'
<1>1. /\ UNCHANGED <<cookies, nonces, wallet, check, page, connection, history>>
      /\ Done(r) /\ req' = [req EXCEPT ![r] = Blank] /\ LoginOver(r)
      /\ events' \in Nat /\ faults' \in Nat
  BY BoundsType DEF IInv, Lose, Fault
<1>2. /\ stage' \in [Requests -> {"unsent", "sent", "guarded", "answered", "done"}]
      /\ answer' \in [Requests -> Answered] /\ CookieInv'
  BY <1>1, Forgets, Dones DEF cookies
<1>3. TypeOK'
  BY <1>1, <1>2, Forgets, LoginsOver, Types, BrowserType DEF IInv, cookies, page, connection, history
<1>4. ASSUME NEW u \in Tabs PROVE LoopAt(u)'
  <2>1. UNCHANGED <<status, path, redirects, check>> /\ check'[u].code # "unauthorized"
    BY <1>1 DEF IInv, LoopInv, LoopAt, page, history
  <2> QED
    BY <1>1, <2>1, Forgets, LoginsOver, PageAndHandlers, LoopKeeps
<1>5. LoopInv'
  BY <1>4 DEF LoopInv
<1> QED
  BY <1>1, <1>2, <1>3, <1>5, ActsStay, MemoStays DEF IInv, cookies, connection, history

\* A page that leaves for /login had not been sent there since it was let in.
LEMMA LeavesOnce ==
  ASSUME IInv, NEW r \in Requests, req[r].tab \in Tabs,
         \/ req[r].kind # "stepup" /\ Redirects(req[r].tab, answer[r].code)
         \/ req[r].kind = "preflight"
  PROVE  redirects[req[r].tab] = 0
PROOF BY DEF IInv, LoopInv, LoopAt, Redirects

\* Whether its page is gone, leaves, or hears it.
LEMMA DeliverStep == ASSUME IInv, NEW r \in Requests, Deliver(r) PROVE IInv'
<1> DEFINE t == req[r].tab
<1>1. /\ UNCHANGED <<user, expired, nonces, wallet, acts, bounds>>
      /\ SetCookie(r) /\ Done(r)
  BY DEF Deliver
<1>2. jar' \in Sessions \cup {None}
  BY <1>1, JarType
<1>3. ActsInv'
  BY <1>1, ActsStay DEF IInv
<1>4. ASSUME NEW page_t \in Tabs, t = page_t, NavigateToLogin(page_t), req' = Orphaned(page_t, {r}),
             \/ req[r].kind # "stepup" /\ Redirects(page_t, answer[r].code)
             \/ req[r].kind = "preflight"
      PROVE  IInv'
  <2>1. Load(page_t, "login") /\ redirects' = [redirects EXCEPT ![page_t] = @ + 1]
    BY <1>4 DEF NavigateToLogin
  <2>2. redirects[page_t] = 0 /\ redirects \in [Tabs -> Nat]
    BY <1>4, LeavesOnce, Types DEF IInv
  <2>3. /\ redirects' \in [Tabs -> Nat] /\ redirects'[page_t] \in {0, 1}
        /\ \A u \in Tabs \ {page_t} : redirects'[u] = redirects[u]
    BY <2>1, <2>2
  <2>4. /\ req' \in [Requests -> RequestType]
        /\ \A q \in Requests \ {r} : req'[q].kind = req[q].kind /\ req'[q].cookie = req[q].cookie
    <3>1. {r} \in SUBSET Requests /\ TypeOK
      BY DEF IInv
    <3>2. \A q \in Requests \ {r} : q \notin {r}
      OBVIOUS
    <3> QED
      BY <1>4, <3>1, <3>2, Orphans
  <2>5. /\ stage' \in [Requests -> {"unsent", "sent", "guarded", "answered", "done"}]
        /\ answer' \in [Requests -> Answered] /\ CookieInv'
    BY <1>1, <2>4, Dones
  <2>6. TypeOK'
    BY <1>1, <1>2, <2>1, <2>3, <2>4, <2>5, Loads, Types, BrowserType DEF IInv, bounds
  <2>7. MemoInv' /\ LoopInv'
    BY <1>2, <1>4, <2>1, <2>3, LoadKeeps
  <2> QED
    BY <1>3, <2>5, <2>6, <2>7 DEF IInv
<1>5. ASSUME req' = [req EXCEPT ![r] = Blank], UNCHANGED <<check, page, connection, redirects, loggedOut>>,
             handler' \in [Handlers -> HandlerType],
             \A h \in Handlers : handler'[h].at # "off" => handler[h].at # "off"
      PROVE  IInv'
  <2>1. /\ stage' \in [Requests -> {"unsent", "sent", "guarded", "answered", "done"}]
        /\ answer' \in [Requests -> Answered] /\ CookieInv'
    BY <1>1, <1>5, Forgets, Dones
  <2>2. TypeOK'
    BY <1>1, <1>2, <1>5, <2>1, Forgets, Types, BrowserType DEF IInv, page, connection, bounds
  <2>3. ASSUME NEW u \in Tabs PROVE LoopAt(u)'
    <3>1. UNCHANGED <<status, path, redirects, check>> /\ check'[u].code # "unauthorized"
      BY <1>5 DEF IInv, LoopInv, LoopAt, page
    <3> QED
      BY <1>5, <3>1, Forgets, PageAndHandlers, LoopKeeps
  <2>4. LoopInv'
    BY <2>3 DEF LoopInv
  <2> QED
    BY <1>3, <1>5, <2>1, <2>2, <2>4, MemoStays DEF IInv, connection
<1>6. ASSUME NEW page_t \in Tabs, req' = [req EXCEPT ![r] = Blank], LoginOver(r), Enter(page_t),
             UNCHANGED <<check, connection, loggedOut>>
      PROVE  IInv'
  <2>1. /\ stage' \in [Requests -> {"unsent", "sent", "guarded", "answered", "done"}]
        /\ answer' \in [Requests -> Answered] /\ CookieInv'
    BY <1>1, <1>6, Forgets, Dones
  <2>2. Land(page_t, "authenticated") /\ redirects' = [redirects EXCEPT ![page_t] = 0]
    BY <1>6 DEF Enter
  <2>3. /\ redirects' \in [Tabs -> Nat] /\ redirects'[page_t] = 0
        /\ \A u \in Tabs \ {page_t} : redirects'[u] = redirects[u]
    BY <2>2, Types DEF IInv
  <2>4. TypeOK'
    BY <1>1, <1>2, <1>6, <2>1, <2>2, <2>3, Lands, Forgets, LoginsOver, Types, BrowserType
    DEF IInv, connection, bounds
  <2>5. ASSUME NEW u \in Tabs PROVE LoopAt(u)'
    <3>1. check'[u].code # "unauthorized"
      BY <1>6 DEF IInv, LoopInv, LoopAt
    <3>2. u # page_t => status'[u] = status[u] /\ path'[u] = path[u] /\ redirects'[u] = redirects[u]
      BY <2>2, <2>3, Lands DEF IInv
    <3> QED
      BY <1>6, <2>3, <3>1, <3>2, Forgets, LoginsOver, PageAndHandlers, LoopKeeps
  <2>6. LoopInv'
    BY <2>5 DEF LoopInv
  <2> QED
    BY <1>3, <1>6, <2>1, <2>4, <2>6, MemoStays DEF IInv, connection
<1>7. ASSUME NEW page_t \in Tabs, req' = [req EXCEPT ![r] = Blank], LogoutLocally(page_t)
      PROVE  IInv'
  <2>1. /\ stage' \in [Requests -> {"unsent", "sent", "guarded", "answered", "done"}]
        /\ answer' \in [Requests -> Answered] /\ CookieInv'
    BY <1>1, <1>7, Forgets, Dones
  <2>2. /\ Land(page_t, "idle") /\ UNCHANGED <<asking, handler, check, redirects>>
        /\ key' = [key EXCEPT ![page_t] = None] /\ memo' = [memo EXCEPT ![page_t] = None]
        /\ loggedOut' = loggedOut \cup {page_t}
    BY <1>7 DEF LogoutLocally
  <2>3. /\ key' \in [Tabs -> Identities \cup {None}] /\ memo' \in [Tabs -> Handshakes \cup {None}]
        /\ loggedOut' \subseteq Tabs
        /\ \A u \in Tabs \ {page_t} : memo'[u] = memo[u]
    BY <2>2, Types DEF IInv
  <2>4. TypeOK'
    BY <1>1, <1>2, <1>7, <2>1, <2>2, <2>3, Lands, Forgets, Types, BrowserType DEF IInv, bounds
  <2>5. MemoInv'
    BY <2>2, <2>3 DEF IInv, MemoInv
  <2>6. ASSUME NEW u \in Tabs PROVE LoopAt(u)'
    <3>1. check'[u].code # "unauthorized" /\ redirects'[u] = redirects[u] /\ UNCHANGED handler
      BY <2>2 DEF IInv, LoopInv, LoopAt
    <3>2. (status'[u] = status[u] \/ status'[u] = "idle") /\ (path'[u] = path[u] \/ path'[u] = "login")
      BY <2>2, Lands DEF IInv
    <3> QED
      BY <1>7, <3>1, <3>2, Forgets, LoopKeeps
  <2>7. LoopInv'
    BY <2>6 DEF LoopInv
  <2> QED
    BY <1>3, <2>1, <2>4, <2>5, <2>7 DEF IInv
<1>8. CASE req' = [req EXCEPT ![r] = Blank] /\ Shrug
  BY <1>5, <1>8, Types DEF IInv, Shrug
<1>9. CASE /\ req' = [req EXCEPT ![r] = Blank] /\ LoginOver(r)
           /\ UNCHANGED <<check, page, connection, redirects, loggedOut>>
  BY <1>5, <1>9, LoginsOver
<1>10. t \in Tabs \cup {None}
  <2>1. req[r] \in RequestType
    BY Types DEF IInv
  <2> QED
    BY <2>1 DEF RequestType
<1>11. CASE t = None
  BY <1>8, <1>11 DEF Deliver
<1>12. CASE t \in Tabs
  <2>1. t # None
    BY <1>12, NoneAssumption
  <2>2. \/ /\ \/ req[r].kind # "stepup" /\ Redirects(t, answer[r].code)
              \/ req[r].kind = "preflight"
           /\ NavigateToLogin(t) /\ req' = Orphaned(t, {r})
        \/ /\ req' = [req EXCEPT ![r] = Blank]
           /\ \/ /\ LoginOver(r)
                 /\ Enter(t) \/ UNCHANGED <<page, redirects>>
                 /\ UNCHANGED <<check, connection, loggedOut>>
              \/ LogoutLocally(t)
              \/ Shrug
    BY <2>1 DEF Deliver
  <2> QED
    BY <1>4, <1>6, <1>7, <1>8, <1>9, <1>12, <2>2
<1> QED
  BY <1>10, <1>11, <1>12
-----------------------------------------------------------------------------
LEMMA StutterStep == ASSUME IInv, UNCHANGED vars PROVE IInv'
<1> SUFFICES TypeOK' /\ ActsInv' /\ MemoInv' /\ CookieInv' /\ LoopInv'
  BY DEF IInv
<1>1. TypeOK'
  BY Types, BrowserType DEF IInv, vars, cookies, messages, page, connection, history, bounds
<1> QED
  BY <1>1, ActsStay, MemoStays, CookiesStay, LoopStays
  DEF IInv, vars, cookies, messages, page, connection, history

LEMMA StepIInv == ASSUME IInv, [Next]_vars PROVE IInv'
<1>1. CASE UNCHANGED vars
  BY <1>1, StutterStep
<1>2. CASE UserStep
  <2>1. InUse \subseteq Tabs
    BY TabsAssumption
  <2> QED
    BY <1>2, <2>1, ReloadStep, EnsureWalletStep, AskStep, SwitchWalletStep DEF UserStep, ClickLogin, Mount
<1>3. CASE \E t \in Tabs : CheckSession(t) \/ CheckFails(t) \/ Restore(t)
  BY <1>3, CheckSessionStep, CheckFailsStep, RestoreStep
<1>4. CASE \/ \E t \in Tabs, n \in Handshakes : Connect(t, n)
           \/ \E h \in Handlers : Sign(h)
           \/ \E s \in Sessions : Expire(s)
  BY <1>4, ConnectStep, SignStep, ExpireStep
<1>5. CASE \E r \in Requests : Serve(r) \/ ServerFails(r) \/ Duplicate(r) \/ Deliver(r) \/ Lose(r)
  BY <1>5, RequireSessionStep, RequireAuthProofStep, LoginStep, UnguardedStep, ServerFailsStep,
     DuplicateStep, DeliverStep, LoseStep DEF Serve
<1> QED
  BY <1>1, <1>2, <1>3, <1>4, <1>5 DEF Next

LEMMA AlwaysIInv == Spec => []IInv
<1>1. Init => IInv
  BY InitIInv
<1>2. IInv /\ [Next]_vars => IInv'
  BY StepIInv
<1> QED
  BY <1>1, <1>2, PTL DEF Spec

\* Every variable of the server, the browser and its tabs has its type.
THEOREM TypeCorrect == Spec => []TypeOK
<1>1. IInv => TypeOK
  BY DEF IInv
<1> QED
  BY <1>1, AlwaysIInv, PTL

\* Whatever is duplicated, lost or overtaken, consumeNonce lets a proof act
\* once, and every session was made by a proof that did (auth.ts:49).
THEOREM ActsOnce == Spec => []ProofActsOnce
<1>1. Requests \subseteq Sessions
  BY DEF Sessions
<1>2. IInv => ProofActsOnce
  BY <1>1 DEF IInv, ActsInv, ProofActsOnce
<1> QED
  BY <1>2, AlwaysIInv, PTL

\* With a check-session that never answers 401, a page that has been taken to
\* /login is not taken there again before a session is confirmed (auth.ts:123).
THEOREM NoLoop == Spec => []NoRedirectLoop
<1>1. IInv => NoRedirectLoop
  <2>1. ASSUME IInv, NEW t \in Tabs PROVE redirects[t] <= 1
    <3>1. redirects[t] = 0 \/ redirects[t] = 1
      BY <2>1 DEF IInv, LoopInv, LoopAt
    <3> QED
      BY <3>1
  <2> QED
    BY <2>1 DEF NoRedirectLoop
<1> QED
  BY <1>1, AlwaysIInv, PTL

\* initPromiseRef keeps a page to one handshake with the wallet
\* (walletContext.tsx:85), until the user logs out of it.
THEOREM HandshakesDeduped == Spec => []OneHandshake
<1>1. IInv => OneHandshake
  <2>1. ASSUME IInv, NEW t \in Tabs, t \notin loggedOut PROVE Cardinality(asking[t]) <= 1
    <3>1. asking[t] \in SUBSET {memo[t]}
      BY <2>1 DEF IInv, MemoInv
    <3>2. IsFiniteSet({memo[t]}) /\ Cardinality({memo[t]}) = 1
      BY FS_Singleton
    <3> QED
      BY <3>1, <3>2, FS_Subset
  <2> QED
    BY <2>1 DEF OneHandshake
<1> QED
  BY <1>1, AlwaysIInv, PTL

\* The refusals of requireSession and requireAuthProof never clear the cookie
\* of a live session that the refused request carried.
THEOREM SessionsStay == Spec => LiveSessionStays
<1> DEFINE Kept ==
      Live(jar) /\ jar' # jar /\ expired' = expired =>
        \E r \in Requests :
          /\ stage[r] = "answered" /\ stage'[r] = "done"
          /\ req[r].kind \in {"login", "logout"} \/ req[r].cookie # jar
<1>1. IInv /\ [Next]_vars => [Kept]_vars
  <2> SUFFICES ASSUME IInv, [Next]_vars, Live(jar), jar' # jar, expired' = expired
               PROVE  \E r \in Requests :
                        /\ stage[r] = "answered" /\ stage'[r] = "done"
                        /\ req[r].kind \in {"login", "logout"} \/ req[r].cookie # jar
    OBVIOUS
  <2>1. CASE \E r \in Requests : Deliver(r)
    <3>1. PICK r \in Requests : Deliver(r)
      BY <2>1
    <3>2. stage[r] = "answered" /\ Done(r) /\ SetCookie(r)
      BY <3>1 DEF Deliver
    <3>3. stage'[r] = "done"
      BY <3>2 DEF IInv, TypeOK, Done
    <3>4. answer[r].cookie \in {"keep", "clear", "set"}
      BY DEF IInv, TypeOK
    <3>5. answer[r].cookie # "keep"
      BY <3>2 DEF SetCookie
    <3>6. req[r].kind \in {"login", "logout"} \/ req[r].cookie \in expired
      BY <3>2, <3>4, <3>5 DEF IInv, CookieInv
    <3> QED
      BY <3>2, <3>3, <3>6 DEF Live
  <2>2. CASE \E s \in Sessions : Expire(s)
    BY <2>2 DEF Expire, Live
  <2>3. CASE UserStep \/ UNCHANGED vars
    BY <2>3 DEF UserStep, Reload, ClickLogin, Mount, EnsureWallet, Ask, SwitchWallet, vars, cookies
  <2>4. CASE \/ \E t \in Tabs : CheckSession(t) \/ CheckFails(t) \/ Restore(t)
             \/ \E t \in Tabs, n \in Handshakes : Connect(t, n)
             \/ \E h \in Handlers : Sign(h)
    BY <2>4 DEF CheckSession, CheckFails, Restore, Connect, Sign, cookies
  <2>5. CASE \E r \in Requests : Serve(r) \/ ServerFails(r) \/ Duplicate(r) \/ Lose(r)
    BY <2>5 DEF Serve, RequireSession, RequireAuthProof, Login, Unguarded, ServerFails, Duplicate, Lose, cookies
  <2> QED
    BY <2>1, <2>2, <2>3, <2>4, <2>5 DEF Next
<1> QED
  BY <1>1, AlwaysIInv, PTL DEF Spec, LiveSessionStays
=============================================================================
