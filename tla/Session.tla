------------------------------- MODULE Session -------------------------------
(***************************************************************************)
(* The session of one browser at the gateway: login with Keycloak          *)
(* (login.go, callback.go, oauth_state_store.go), authentication by cookie *)
(* with refresh of an expired access token (authentication.go), and logout *)
(* (auth_handler.go).  The gateway keeps no session.  All of it is in the  *)
(* browser's cookies, which requests carry as they were when they were     *)
(* sent and answers overwrite in the order they arrive in.                 *)
(***************************************************************************)
EXTENDS Integers

CONSTANTS
    Slots,        \* requests the browser can have under way
    Logins,       \* values of the OAuth state parameter
    Attempts,     \* authorization codes of one login
    None, Untouched,
    AccessLife,   \* of an access token
    Leeway,       \* WithLeeway of the validator
    FallbackLife, \* of the cookie of a token that has run out or has no expiry
    RefreshCookieLife, LoginCookieLife,  \* the two lives of refresh cookies
    StateTTL,     \* of a pending login
    MaxTime,      \* bound: readings of the clock
    MaxRequests,  \* bound: requests of the browser
    Faults        \* does anything fail?

Names == {"access", "refresh", "id"}
Codes == Logins \X Attempts
\* A code is redeemed once, so it names the session it opens at Keycloak.
\* The tokens of one response of its token endpoint are one record, which is
\* renewable if a refresh token is among them.
Token == [session : Codes, serial : Nat, expires : Nat, renewable : BOOLEAN]

ASSUME NoneAssumption ==
    /\ None \notin Token \cup Codes \cup Nat
    /\ None \notin [token : Token, life : Nat] \cup [token : Token, until : Nat]
    /\ Untouched \notin {None} \cup [token : Token, life : Nat]
ASSUME LivesAssumption ==
    /\ AccessLife \in Nat \ {0} /\ Leeway \in Nat /\ FallbackLife \in Nat \ {0}
    /\ RefreshCookieLife \in Nat \ {0} /\ LoginCookieLife \in Nat \ {0}
    /\ StateTTL \in Nat
ASSUME BoundsAssumption == MaxTime \in Nat /\ MaxRequests \in Nat /\ Faults \in BOOLEAN

VARIABLES
    now,
    jar,         \* the browser's cookies
    states,      \* when each login in the OAuth state store was created
    discovered,  \* has the gateway cached Keycloak's discovery document?
    begun,       \* logins so far
    offered,     \* those whose authorization URL the browser has
    issued,      \* authorization codes of Keycloak
    redeemed,    \* those exchanged for tokens
    latest,      \* the serial of the newest token of each session
    rotates,     \* does a refresh token end with its first use?
    pc,          \* where each request is
    request,     \* what it carries
    token,       \* what Keycloak gave it
    answer,      \* its response
    sent         \* requests so far

\* Auxiliary variables of the properties.
VARIABLES
    signedIn,    \* codes that ended in a login
    signedOut,   \* sessions whose cookies a logout took from the browser
    overtaken,   \* requests that were under way when it did
    restored,    \* did one of them bring cookies back?
    forfeited    \* sessions whose newest token the browser will not see

gateway  == <<states, discovered>>
keycloak == <<issued, redeemed, latest, rotates>>
logins   == <<begun, offered>>
slot     == <<pc, request, token, answer>>
history  == <<signedIn, signedOut, overtaken, restored, forfeited>>
vars == <<now, jar, gateway, logins, keycloak, slot, sent, history>>

NoCookies == [n \in Names |-> None]
NoRequest == [kind |-> "none", cookies |-> NoCookies, code |-> None]
Kept      == [n \in Names |-> Untouched]
NoAnswer  == [status |-> 0, set |-> Kept]

(* newCookie and newClearCookie, as the browser is told.                   *)
Cookie(t, life) == [token |-> t, life |-> life]
IsCookie(c) == c \notin {None, Untouched}
Cleared(set, names) == [n \in Names |-> IF n \in names THEN None ELSE set[n]]

(* Mutant of AccessCookie, whose life may be zero.                         *)
AccessCookieToTheEnd(t) == Cookie(t, t.expires - now)

AccessCookie(t) ==
    Cookie(t, IF t.expires > now THEN t.expires - now ELSE FallbackLife)

(* Mutant of TokenCookies, which keeps the old refresh token.              *)
AccessCookieOnly(t) == [Kept EXCEPT !["access"] = AccessCookie(t)]

(* setTokenCookies.  A refresh always yields a refresh token: the oauth2   *)
(* package fills in the old one when Keycloak returns none.                *)
TokenCookies(t) ==
    [Kept EXCEPT !["access"] = AccessCookie(t),
                 !["refresh"] = Cookie(t, RefreshCookieLife)]

(* The cookies of a login.  One that came without a refresh token leaves   *)
(* the refresh cookie of an earlier session where it is.                   *)
LoginCookies(t) ==
    [n \in Names |-> IF n = "access" THEN AccessCookie(t)
                     ELSE IF n = "id" \/ t.renewable THEN Cookie(t, LoginCookieLife)
                     ELSE Untouched]

(* What the browser does with them.                                        *)
Stored(set) ==
    [n \in Names |-> IF IsCookie(set[n])
                     THEN [token |-> set[n].token, until |-> now + set[n].life]
                     ELSE IF set[n] = None THEN None ELSE jar[n]]

Held == [n \in Names |-> IF jar[n] = None THEN None ELSE jar[n].token]

\* What the handler reads of the cookies a request carries.
Carried(kind) == IF kind = "call" THEN [Held EXCEPT !["id"] = None] ELSE NoCookies

Expired(t) == now >= t.expires + Leeway

Advance(r, label) == pc' = [pc EXCEPT ![r] = label]
Answer(r, status, set) ==
    /\ Advance(r, "answered")
    /\ answer' = [answer EXCEPT ![r] = [status |-> status, set |-> set]]
    /\ token' = [token EXCEPT ![r] = None]
    /\ request' = [request EXCEPT ![r] = [kind |-> request[r].kind, cookies |-> NoCookies,
                                         code |-> request[r].code]]
Finish(r) ==
    /\ Advance(r, "idle")
    /\ request' = [request EXCEPT ![r] = NoRequest]
    /\ token' = [token EXCEPT ![r] = None]
    /\ answer' = [answer EXCEPT ![r] = NoAnswer]

(* The discovery document is fetched once and kept; before that every      *)
(* operation that needs an endpoint can fail.                              *)
Discover   == discovered' = TRUE
NoDocument == Faults /\ ~discovered /\ UNCHANGED discovered

(* The state store.                                                        *)
SaveState(l)   == states' = [states EXCEPT ![l] = now]
DeleteState(l) == states' = [states EXCEPT ![l] = None]
StateExpired(l) == states[l] # None /\ now - states[l] > StateTTL

-----------------------------------------------------------------------------
\* The browser sends requests.

Send(r, kind, code) ==
    /\ pc[r] = "idle"
    /\ sent < MaxRequests
    /\ sent' = sent + 1
    /\ Advance(r, "received")
    /\ request' = [request EXCEPT ![r] = [kind |-> kind, cookies |-> Carried(kind), code |-> code]]
    /\ overtaken' = overtaken \ {r}
    /\ UNCHANGED <<now, jar, gateway, logins, keycloak, token, answer,
                   signedIn, signedOut, restored, forfeited>>

Call(r)   == Send(r, "call", None)
Bearer(r) == Send(r, "bearer", None)
Logout(r) == Send(r, "logout", None)

\* Keycloak sends the browser to the callback URL, which may be reloaded.
Return(r) == \E c \in issued : Send(r, "callback", c)

-----------------------------------------------------------------------------
\* Login.

(* BuildAuthorizationURL.                                                  *)
Offer(l) ==
    \/ Discover /\ offered' = offered \cup {l}
    \/ NoDocument /\ UNCHANGED offered

(* HandleLogin: the state is saved before the URL is built.                *)
Login(l) ==
    /\ l \notin begun
    /\ begun' = begun \cup {l}
    /\ SaveState(l)
    /\ Offer(l)
    /\ UNCHANGED <<now, jar, keycloak, slot, sent, history>>

(* The user authenticates at Keycloak.  The authorization URL can be       *)
(* visited again: each visit yields a code, all with one state.            *)
Authorize(c) ==
    /\ c[1] \in offered
    /\ c \notin issued
    /\ issued' = issued \cup {c}
    /\ UNCHANGED <<now, jar, gateway, logins, redeemed, latest, rotates,
                   slot, sent, history>>

(* HandleCallback up to the state: Get deletes it when it has expired.     *)
FetchState(r) ==
    LET l == request[r].code[1] IN
    /\ pc[r] = "received" /\ request[r].kind = "callback"
    /\ IF states[l] # None /\ ~StateExpired(l)
       THEN Advance(r, "exchanging") /\ UNCHANGED <<request, token, answer>>
       ELSE Answer(r, 401, Kept)
    /\ IF StateExpired(l) THEN DeleteState(l) ELSE UNCHANGED states
    /\ UNCHANGED <<now, jar, discovered, logins, keycloak, sent, history>>

(* ExchangeAuthorizationCode: Keycloak redeems a code once, with or        *)
(* without a refresh token.                                                *)
Exchange(r) ==
    LET c == request[r].code IN
    /\ pc[r] = "exchanging"
    /\ \/ /\ c \notin redeemed
          /\ redeemed' = redeemed \cup {c}
          /\ latest' = [latest EXCEPT ![c] = 1]
          /\ Discover
          /\ Advance(r, "exchanged")
          /\ \E renewable \in BOOLEAN :
                 token' = [token EXCEPT ![r] = [session |-> c, serial |-> 1,
                                                expires |-> now + AccessLife,
                                                renewable |-> renewable]]
          /\ UNCHANGED <<request, answer>>
       \/ /\ Faults \/ c \in redeemed
          /\ Answer(r, 401, Kept)
          /\ UNCHANGED <<redeemed, latest, discovered>>
    /\ UNCHANGED <<now, jar, states, logins, issued, rotates, sent, history>>

(* Mutant of Complete, which keeps the state.                              *)
CompleteKeepingState(r) ==
    LET t == token[r] IN
    /\ pc[r] = "exchanged"
    /\ ~Expired(t)
    /\ Answer(r, 302, LoginCookies(t))
    /\ signedIn' = signedIn \cup {t.session}
    /\ UNCHANGED <<now, jar, gateway, logins, keycloak, sent,
                   signedOut, overtaken, restored, forfeited>>

(* The tokens are validated, the state is deleted and the cookies are set. *)
Complete(r) ==
    LET t == token[r] IN
    /\ pc[r] = "exchanged"
    /\ ~Expired(t)
    /\ DeleteState(t.session[1])
    /\ Answer(r, 302, LoginCookies(t))
    /\ signedIn' = signedIn \cup {t.session}
    /\ UNCHANGED <<now, jar, discovered, logins, keycloak, sent,
                   signedOut, overtaken, restored, forfeited>>

(* They are not valid: the code is spent, the state stays.                 *)
Reject(r) ==
    /\ pc[r] = "exchanged"
    /\ Faults \/ Expired(token[r])
    /\ Answer(r, 401, Kept)
    /\ forfeited' = forfeited \cup {token[r].session}
    /\ UNCHANGED <<now, jar, gateway, logins, keycloak, sent,
                   signedIn, signedOut, overtaken, restored>>

-----------------------------------------------------------------------------
\* Calls, authenticated by cookie.

(* authenticateRequest up to the refresh.  Only an expired token may be    *)
(* refreshed; one that is invalid otherwise (its key or a scope is         *)
(* missing) ends the request and leaves the cookies.                       *)
Authenticate(r) ==
    LET a == request[r].cookies["access"]
        b == request[r].cookies["refresh"]
    IN
    /\ pc[r] = "received" /\ request[r].kind = "call"
    /\ \/ a # None /\ ~Expired(a) /\ Answer(r, 200, Kept)
       \/ (a = None \/ Faults) /\ Answer(r, 401, Kept)
       \/ a # None /\ Expired(a) /\ b = None
          /\ Answer(r, 401, Cleared(Kept, {"access", "refresh"}))
       \/ /\ a # None /\ Expired(a) /\ b # None
          /\ Advance(r, "refreshing")
          /\ UNCHANGED <<request, token, answer>>
    /\ UNCHANGED <<now, jar, gateway, logins, keycloak, sent, history>>

(* A bearer token goes before the cookies and is never refreshed; whether  *)
(* it is valid is between its owner and Keycloak.                          *)
AuthenticateBearer(r) ==
    /\ pc[r] = "received" /\ request[r].kind = "bearer"
    /\ Answer(r, 200, Kept) \/ Answer(r, 401, Kept)
    /\ UNCHANGED <<now, jar, gateway, logins, keycloak, sent, history>>

\* May Keycloak take this refresh token?
Accepts(b) == rotates => b.serial = latest[b.session]

(* RefreshToken, with the cookies it sets.                                 *)
Refresh(r) ==
    LET s == request[r].cookies["refresh"].session
        t == [session |-> s, serial |-> latest[s] + 1, expires |-> now + AccessLife,
              renewable |-> TRUE]
    IN
    /\ pc[r] = "refreshing"
    /\ Accepts(request[r].cookies["refresh"])
    /\ latest' = [latest EXCEPT ![s] = @ + 1]
    /\ Discover
    /\ Advance(r, "refreshed")
    /\ token' = [token EXCEPT ![r] = t]
    /\ answer' = [answer EXCEPT ![r] = [status |-> 0, set |-> TokenCookies(t)]]
    /\ UNCHANGED <<now, jar, states, logins, issued, redeemed, rotates,
                   request, sent, history>>

(* Keycloak refuses, as it also does when it has ended the session, or     *)
(* cannot be reached.                                                      *)
RefuseRefresh(r) ==
    /\ pc[r] = "refreshing"
    /\ Faults \/ ~Accepts(request[r].cookies["refresh"])
    /\ Answer(r, 401, Cleared(Kept, {"access", "refresh"}))
    /\ UNCHANGED <<now, jar, gateway, logins, keycloak, sent, history>>

(* Mutant of Proceed, whose answer forgets the cookies.                    *)
ProceedSilently(r) ==
    /\ pc[r] = "refreshed"
    /\ ~Expired(token[r])
    /\ Answer(r, 200, Kept)
    /\ UNCHANGED <<now, jar, gateway, logins, keycloak, sent, history>>

(* The new token is valid, and the request goes on with it.                *)
Proceed(r) ==
    /\ pc[r] = "refreshed"
    /\ ~Expired(token[r])
    /\ Answer(r, 200, answer[r].set)
    /\ UNCHANGED <<now, jar, gateway, logins, keycloak, sent, history>>

(* It is not: the response clears the cookies it has set.                  *)
Withdraw(r) ==
    /\ pc[r] = "refreshed"
    /\ Faults \/ Expired(token[r])
    /\ Answer(r, 401, Cleared(answer[r].set, {"access", "refresh"}))
    /\ forfeited' = forfeited \cup {token[r].session}
    /\ UNCHANGED <<now, jar, gateway, logins, keycloak, sent,
                   signedIn, signedOut, overtaken, restored>>

-----------------------------------------------------------------------------
(* Mutant of SignOff, which keeps the refresh cookie.                      *)
SignOffHalf(r) ==
    /\ pc[r] = "received" /\ request[r].kind = "logout"
    /\ Answer(r, 303, Cleared(Kept, {"access", "id"}))
    /\ Discover
    /\ UNCHANGED <<now, jar, states, logins, keycloak, sent, history>>

(* HandleLogout wants an Origin header.  It clears the cookies also when   *)
(* it cannot build the URL that ends the session at Keycloak.  No token is *)
(* revoked.                                                                *)
SignOff(r) ==
    /\ pc[r] = "received" /\ request[r].kind = "logout"
    /\ \/ Answer(r, 403, Kept) /\ UNCHANGED discovered
       \/ Discover /\ Answer(r, 303, Cleared(Kept, Names))
       \/ NoDocument /\ Answer(r, 502, Cleared(Kept, Names))
    /\ UNCHANGED <<now, jar, states, logins, keycloak, sent, history>>

-----------------------------------------------------------------------------
\* Answers arrive.

Sessions(cookies) ==
    {cookies[n].session : n \in {m \in Names : cookies[m] # None}}

\* The answers of a logout that had its Origin header.
SignsOff(r) == answer[r].status \in {303, 502}

(* The browser applies the cookies of an answer.                           *)
Deliver(r) ==
    /\ pc[r] = "answered"
    /\ jar' = Stored(answer[r].set)
    /\ IF SignsOff(r)
       THEN /\ signedOut' = signedOut \cup Sessions(Held)
            /\ overtaken' = {q \in Slots \ {r} : pc[q] # "idle"}
            /\ restored' = FALSE
       ELSE /\ restored' = (restored \/ (r \in overtaken
                                         /\ \E n \in Names : IsCookie(answer[r].set[n])))
            /\ overtaken' = overtaken \ {r}
            /\ UNCHANGED signedOut
    /\ Finish(r)
    /\ UNCHANGED <<now, gateway, logins, keycloak, sent, signedIn, forfeited>>

\* The refresh token a request has from Keycloak and the browser has not.
Undelivered(r) ==
    IF token[r] # None THEN {t \in {token[r]} : t.renewable}
    ELSE IF IsCookie(answer[r].set["refresh"]) THEN {answer[r].set["refresh"].token}
    ELSE {}

(* The user leaves the page and the answer is dropped.                     *)
Lose(r) ==
    /\ Faults
    /\ pc[r] = "answered"
    /\ forfeited' = forfeited \cup {t.session : t \in Undelivered(r)}
    /\ overtaken' = overtaken \ {r}
    /\ Finish(r)
    /\ UNCHANGED <<now, jar, gateway, logins, keycloak, sent, signedIn, signedOut, restored>>

(* The gateway restarts and forgets the logins and the document; requests  *)
(* under way are cut off.                                                  *)
Restart ==
    /\ Faults
    /\ states' = [l \in Logins |-> None]
    /\ discovered' = FALSE
    /\ pc' = [r \in Slots |-> "idle"]
    /\ request' = [r \in Slots |-> NoRequest]
    /\ token' = [r \in Slots |-> None]
    /\ answer' = [r \in Slots |-> NoAnswer]
    /\ forfeited' = forfeited \cup {t.session : t \in UNION {Undelivered(r) : r \in Slots}}
    /\ overtaken' = {}
    /\ UNCHANGED <<now, jar, logins, keycloak, sent, signedIn, signedOut, restored>>

(* Time passes, and the browser drops cookies that have run out.           *)
Tick ==
    /\ now < MaxTime
    /\ now' = now + 1
    /\ jar' = [n \in Names |-> IF jar[n] # None /\ jar[n].until <= now'
                               THEN None ELSE jar[n]]
    /\ UNCHANGED <<gateway, logins, keycloak, slot, sent, history>>

-----------------------------------------------------------------------------
Init ==
    /\ now = 0
    /\ jar = NoCookies
    /\ states = [l \in Logins |-> None]
    /\ discovered = FALSE
    /\ begun = {} /\ offered = {}
    /\ issued = {} /\ redeemed = {}
    /\ latest = [s \in Codes |-> 0]
    /\ rotates \in BOOLEAN
    /\ pc = [r \in Slots |-> "idle"]
    /\ request = [r \in Slots |-> NoRequest]
    /\ token = [r \in Slots |-> None]
    /\ answer = [r \in Slots |-> NoAnswer]
    /\ sent = 0
    /\ signedIn = {} /\ signedOut = {} /\ overtaken = {}
    /\ restored = FALSE /\ forfeited = {}

(* The bounds are used up, and the browser is at rest.                     *)
Done ==
    /\ now = MaxTime
    /\ \A r \in Slots : pc[r] = "idle"
    /\ UNCHANGED vars

\* The steps of a request after it was sent.
Handle(r) ==
    \/ FetchState(r) \/ Exchange(r) \/ Complete(r) \/ Reject(r)
    \/ Authenticate(r) \/ AuthenticateBearer(r)
    \/ Refresh(r) \/ RefuseRefresh(r) \/ Proceed(r) \/ Withdraw(r)
    \/ SignOff(r)
    \/ Deliver(r) \/ Lose(r)

Next ==
    \/ \E r \in Slots : Call(r) \/ Bearer(r) \/ Logout(r) \/ Return(r) \/ Handle(r)
    \/ \E l \in Logins : Login(l)
    \/ \E c \in Codes : Authorize(c)
    \/ Restart
    \/ Tick
    \/ Done

Spec == Init /\ [][Next]_vars

-----------------------------------------------------------------------------
Cookies == [token : Token, until : Nat]
SetCookie == {None, Untouched} \cup [token : Token, life : Nat \ {0}]

TypeOK ==
    /\ now \in 0 .. MaxTime
    /\ jar \in [Names -> Cookies \cup {None}]
    /\ states \in [Logins -> 0 .. MaxTime \cup {None}]
    /\ discovered \in BOOLEAN /\ rotates \in BOOLEAN
    /\ begun \subseteq Logins /\ offered \subseteq begun
    /\ issued \subseteq offered \X Attempts /\ redeemed \subseteq issued
    /\ latest \in [Codes -> Nat]
    /\ pc \in [Slots -> {"idle", "received", "exchanging", "exchanged",
                         "refreshing", "refreshed", "answered"}]
    /\ request \in [Slots -> [kind : {"none", "call", "bearer", "logout", "callback"},
                              cookies : [Names -> Token \cup {None}],
                              code : issued \cup {None}]]
    /\ token \in [Slots -> Token \cup {None}]
    /\ answer \in [Slots -> [status : {0, 200, 302, 303, 401, 403, 502}, set : [Names -> SetCookie]]]
    /\ sent \in 0 .. MaxRequests
    /\ signedIn \subseteq redeemed
    /\ signedOut \subseteq redeemed /\ forfeited \subseteq redeemed
    /\ overtaken \subseteq Slots /\ restored \in BOOLEAN

(* The access token and the refresh token in the browser come from one     *)
(* response of Keycloak, in whatever order the answers of concurrent       *)
(* requests, logins and logouts arrive, unless the access token is of a    *)
(* login that came without a refresh token (HandleCallback,                *)
(* setTokenCookies and clearAuthCookies).                                  *)
TokensPaired ==
    jar["access"] # None /\ jar["refresh"] # None /\ jar["access"].token.renewable
        => jar["access"].token = jar["refresh"].token

\* The newest refresh token of session s is in the browser, or on its way.
AtHand(s) ==
    \/ /\ jar["refresh"] # None
       /\ jar["refresh"].token.session = s /\ jar["refresh"].token.serial = latest[s]
    \/ \E r \in Slots : \E t \in Undelivered(r) : t.session = s /\ t.serial = latest[s]

\* The answer that arrives clears the refresh cookie, or sets that of
\* another session than s.
Displaces(r, s) ==
    LET c == answer[r].set["refresh"] IN
    /\ pc[r] = "answered" /\ pc'[r] = "idle"
    /\ c # Untouched /\ (IsCookie(c) => c.token.session # s)

(* How a browser can come to lose the newest refresh token of a session,   *)
(* where each is good for one use: the answer with it is lost or its       *)
(* access token rejected, its cookie runs out, an answer clears the cookie *)
(* (a logout, or the 401 of another request, such as one that refreshed    *)
(* with the same token a little later and was refused), or another login   *)
(* displaces it.  It is never lost to an older token of its session, in    *)
(* whatever order answers arrive, and no handler forgets to pass it on.    *)
NewestTokenKept ==
    [][rotates => \A s \in Codes : AtHand(s) /\ ~AtHand(s)' =>
           \/ s \in forfeited'
           \/ now' > now /\ jar["refresh"].until <= now'
           \/ \E r \in Slots : Displaces(r, s)]_vars

(* A logout is final but for the requests it overtook: unless one of them  *)
(* brings them back, no cookie of a session the user signed out of is seen *)
(* in the browser again.                                                   *)
LogoutHolds ==
    ~restored => Sessions(Held) \cap signedOut = {}

(* No callback gets past the state once a callback with the same state has *)
(* ended in a login; only those already past it can still follow.          *)
SpentStateRefused ==
    [][\A r \in Slots :
           pc[r] = "received" /\ pc'[r] = "exchanging"
               => \A c \in signedIn : c[1] # request[r].code[1]]_vars

(* "Expired browser access tokens are refreshed transparently": a browser  *)
(* with a refresh token that Keycloak takes is not answered 401.           *)
RefreshedTransparently ==
    [][\A r \in Slots :
           LET b == request[r].cookies["refresh"] IN
           request[r].kind = "call" /\ b # None /\ Accepts(b)
               => ~(pc'[r] = "answered" /\ answer'[r].status = 401)]_vars
=============================================================================
