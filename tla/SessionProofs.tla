---------------------------- MODULE SessionProofs ----------------------------
(***************************************************************************)
(* Proofs about Session, for every number of requests, logins and codes    *)
(* and every lifetime.                                                     *)
(***************************************************************************)
EXTENDS Session, TLAPS

-----------------------------------------------------------------------------
\* The inductive invariant.

\* A response sets, clears or leaves the two token cookies together, unless
\* it has an access token only.
Paired(set) ==
    /\ set["access"] = Untouched => set["refresh"] = Untouched
    /\ set["access"] = None <=> set["refresh"] = None
    /\ IsCookie(set["access"]) /\ set["access"].token.renewable
           => IsCookie(set["refresh"]) /\ set["refresh"].token = set["access"].token
    /\ IsCookie(set["access"]) /\ ~set["access"].token.renewable
           => set["refresh"] = Untouched

SlotShape(r) ==
    /\ token[r] # None <=> pc[r] \in {"exchanged", "refreshed"}
    /\ pc[r] \notin {"refreshed", "answered"} => answer[r].set = Kept
    /\ pc[r] \notin {"received", "refreshing", "refreshed"} => request[r].cookies = NoCookies
    /\ pc[r] = "idle" => request[r].kind = "none"
    /\ pc[r] \in {"exchanging", "exchanged"} => request[r].kind = "callback"
    /\ pc[r] \in {"refreshing", "refreshed"} => request[r].kind = "call"
    /\ request[r].kind # "call" => request[r].cookies = NoCookies
    /\ pc[r] = "answered" /\ SignsOff(r) => \A n \in Names : answer[r].set[n] = None
    /\ request[r].kind = "callback" => request[r].code # None
    /\ pc[r] = "refreshing" => request[r].cookies["refresh"] # None
    /\ pc[r] = "refreshed" => /\ IsCookie(answer[r].set["refresh"])
                              /\ answer[r].set["refresh"].token = token[r]
                              /\ ~IsCookie(answer[r].set["id"])
    /\ Paired(answer[r].set)

\* Every token was given by Keycloak.
Known(t) == t.session \in redeemed /\ t.serial \in 1 .. latest[t.session]

TokensKnown ==
    /\ \A n \in Names : jar[n] # None => Known(jar[n].token)
    /\ \A r \in Slots : token[r] # None => Known(token[r])
    /\ \A r \in Slots, n \in Names :
          request[r].cookies[n] # None => Known(request[r].cookies[n])
    /\ \A r \in Slots, n \in Names :
          IsCookie(answer[r].set[n]) => Known(answer[r].set[n].token)

\* What a request that no logout overtook holds is not signed out.
Clean(r) ==
    /\ token[r] # None => token[r].session \notin signedOut
    /\ \A n \in Names : request[r].cookies[n] # None
                            => request[r].cookies[n].session \notin signedOut
    /\ \A n \in Names : IsCookie(answer[r].set[n])
                            => answer[r].set[n].token.session \notin signedOut

SignedOutStaysOut ==
    ~restored => /\ \A n \in Names : jar[n] # None => jar[n].token.session \notin signedOut
                 /\ \A r \in Slots \ overtaken : Clean(r)

Same(t, u) == t.session = u.session /\ t.serial = u.serial

\* Where refresh tokens are good for one use, a token that is under way to
\* the browser is the newest of its session, and nobody else has it.
UnderWay(r, t) ==
    /\ t.serial = latest[t.session]
    /\ jar["refresh"] # None => ~Same(t, jar["refresh"].token)
    /\ \A q \in Slots : request[q].cookies["refresh"] # None
                            => ~Same(t, request[q].cookies["refresh"])
    /\ \A q \in Slots \ {r} : \A u \in Undelivered(q) : ~Same(t, u)

NewestUnderWay ==
    rotates => \A r \in Slots : \A t \in Undelivered(r) : UnderWay(r, t)

SpentStatesGone == \A c \in signedIn : states[c[1]] = None

\* The part that depends on tokens only.
TokensInv ==
    /\ TokensKnown
    /\ TokensPaired
    /\ SignedOutStaysOut
    /\ NewestUnderWay

IInv ==
    /\ TypeOK
    /\ \A r \in Slots : SlotShape(r)
    /\ TokensInv
    /\ SpentStatesGone

\* What NewestTokenKept says of a step.
NewestStaysAtHand ==
    rotates => \A s \in Codes : AtHand(s) /\ ~AtHand(s)' =>
        \/ s \in forfeited'
        \/ now' > now /\ jar["refresh"].until <= now'
        \/ \E r \in Slots : Displaces(r, s)

-----------------------------------------------------------------------------
\* What the answers set.

LEMMA KeptIsQuiet ==
    /\ Kept \in [Names -> SetCookie] /\ Paired(Kept)
    /\ \A n \in Names : ~IsCookie(Kept[n])
  BY NoneAssumption DEF Kept, SetCookie, Paired, IsCookie, Names

LEMMA ClearedIsQuiet ==
    ASSUME NEW names \in {{"access", "refresh"}, Names},
           NEW set \in [Names -> SetCookie], \A n \in Names \ names : ~IsCookie(set[n])
    PROVE  /\ Cleared(set, names) \in [Names -> SetCookie]
           /\ Paired(Cleared(set, names))
           /\ \A n \in Names : ~IsCookie(Cleared(set, names)[n])
  BY NoneAssumption DEF Cleared, SetCookie, Paired, IsCookie, Names

LEMMA CookieIsCookie ==
    ASSUME NEW t \in Token, NEW life \in Nat \ {0}
    PROVE  /\ Cookie(t, life) \in SetCookie /\ IsCookie(Cookie(t, life))
           /\ Cookie(t, life).token = t
  BY NoneAssumption DEF Cookie, SetCookie, IsCookie

LEMMA AccessCookieIsCookie ==
    ASSUME NEW t \in Token, now \in Nat
    PROVE  /\ AccessCookie(t) \in SetCookie /\ IsCookie(AccessCookie(t))
           /\ AccessCookie(t).token = t
<1>1. (IF t.expires > now THEN t.expires - now ELSE FallbackLife) \in Nat \ {0}
  BY LivesAssumption DEF Token
<1> QED
  BY <1>1, CookieIsCookie DEF AccessCookie

LEMMA TokenCookiesArePaired ==
    ASSUME NEW t \in Token, t.renewable, now \in Nat
    PROVE  /\ TokenCookies(t) \in [Names -> SetCookie] /\ Paired(TokenCookies(t))
           /\ \A n \in Names : IsCookie(TokenCookies(t)[n]) => TokenCookies(t)[n].token = t
           /\ IsCookie(TokenCookies(t)["refresh"]) /\ ~IsCookie(TokenCookies(t)["id"])
<1>1. TokenCookies(t) = [n \in Names |-> IF n = "access" THEN AccessCookie(t)
                                         ELSE IF n = "refresh" THEN Cookie(t, RefreshCookieLife)
                                         ELSE Untouched]
  BY Zenon DEF TokenCookies, Kept, Names
<1>2. Cookie(t, RefreshCookieLife) \in SetCookie /\ IsCookie(Cookie(t, RefreshCookieLife))
      /\ Cookie(t, RefreshCookieLife).token = t
  BY CookieIsCookie, LivesAssumption
<1>3. Untouched \in SetCookie /\ ~IsCookie(Untouched)
  BY DEF SetCookie, IsCookie
<1> QED
  BY <1>1, <1>2, <1>3, AccessCookieIsCookie DEF Paired, IsCookie, Names

LEMMA LoginCookiesArePaired ==
    ASSUME NEW t \in Token, now \in Nat
    PROVE  /\ LoginCookies(t) \in [Names -> SetCookie] /\ Paired(LoginCookies(t))
           /\ \A n \in Names : /\ LoginCookies(t)[n] # None
                              /\ IsCookie(LoginCookies(t)[n]) => LoginCookies(t)[n].token = t
           /\ t.renewable => IsCookie(LoginCookies(t)["refresh"])
<1>1. LoginCookies(t) = [n \in Names |-> IF n = "access" THEN AccessCookie(t)
                                         ELSE IF n = "id" \/ t.renewable
                                         THEN Cookie(t, LoginCookieLife) ELSE Untouched]
  BY DEF LoginCookies
<1>2. Cookie(t, LoginCookieLife) \in SetCookie /\ IsCookie(Cookie(t, LoginCookieLife))
      /\ Cookie(t, LoginCookieLife).token = t
  BY CookieIsCookie, LivesAssumption
<1>3. Untouched \in SetCookie /\ ~IsCookie(Untouched) /\ Untouched # None
  BY NoneAssumption DEF SetCookie, IsCookie
<1> QED
  BY <1>1, <1>2, <1>3, AccessCookieIsCookie DEF Paired, IsCookie, Names

-----------------------------------------------------------------------------
\* Facts about one request.

LEMMA SameUndelivered ==
    ASSUME NEW q, token'[q] = token[q], answer'[q] = answer[q]
    PROVE  Undelivered(q)' = Undelivered(q)
  BY DEF Undelivered, IsCookie

LEMMA SameClean ==
    ASSUME NEW q, token'[q] = token[q], answer'[q] = answer[q], request'[q] = request[q],
           UNCHANGED signedOut, Clean(q)
    PROVE  Clean(q)'
  BY DEF Clean, IsCookie

LEMMA SameKnown ==
    ASSUME NEW t, UNCHANGED <<redeemed, latest>>
    PROVE  (t.session \in redeemed' /\ t.serial \in 1 .. latest'[t.session]) <=> Known(t)
  BY DEF Known

LEMMA TypedRequest ==
    ASSUME IInv, NEW r \in Slots
    PROVE  /\ answer[r].set \in [Names -> SetCookie]
           /\ token[r] \in Token \cup {None}
           /\ request[r].cookies \in [Names -> Token \cup {None}]
           /\ SlotShape(r)
  BY DEF IInv, TypeOK

LEMMA TypedGateway ==
    ASSUME IInv
    PROVE  /\ states \in [Logins -> 0 .. MaxTime \cup {None}] /\ discovered \in BOOLEAN
           /\ signedIn \subseteq redeemed /\ forfeited \subseteq redeemed
           /\ redeemed \subseteq Codes /\ SpentStatesGone
  BY DEF IInv, TypeOK, Codes

\* A step that takes no cookie and no token away.
LEMMA SameAtHand ==
    ASSUME UNCHANGED <<jar, latest>>,
           \A q \in Slots : \A t \in Undelivered(q) :
               t \in Undelivered(q)' \/ t.session \in forfeited'
    PROVE  NewestStaysAtHand
  BY DEF NewestStaysAtHand, AtHand

-----------------------------------------------------------------------------
\* A request gets its answer.

LEMMA AnswerKeepsInvariant ==
    ASSUME IInv, NEW r \in Slots,
           pc[r] \in {"received", "exchanging", "exchanged", "refreshing", "refreshed"},
           NEW st \in {200, 302, 303, 401, 403, 502},
           NEW set \in [Names -> SetCookie], Paired(set),
           \A n \in Names : IsCookie(set[n]) => token[r] # None /\ set[n].token = token[r],
           token[r] # None /\ token[r].renewable
               => IsCookie(set["refresh"]) \/ token[r].session \in forfeited',
           st \in {303, 502} => \A n \in Names : set[n] = None,
           Answer(r, st, set),
           forfeited \subseteq forfeited', forfeited' \subseteq redeemed,
           signedIn' \subseteq redeemed, SpentStatesGone',
           states' \in [Logins -> 0 .. MaxTime \cup {None}], discovered' \in BOOLEAN,
           UNCHANGED <<now, jar, logins, keycloak, sent, signedOut, overtaken, restored>>
    PROVE  IInv' /\ NewestStaysAtHand
<1> USE DEF IInv, TokensInv
<1>a. /\ pc' = [pc EXCEPT ![r] = "answered"]
      /\ answer' = [answer EXCEPT ![r] = [status |-> st, set |-> set]]
      /\ token' = [token EXCEPT ![r] = None]
      /\ request' = [request EXCEPT ![r] = [kind |-> request[r].kind, cookies |-> NoCookies,
                                           code |-> request[r].code]]
  BY DEF Answer, Advance
<1>b. UNCHANGED <<now, jar, begun, offered, issued, redeemed, latest, rotates, sent, signedOut,
                  overtaken, restored>>
  BY DEF logins, keycloak
<1>c. /\ pc'[r] = "answered" /\ answer'[r] = [status |-> st, set |-> set] /\ token'[r] = None
      /\ request'[r].cookies = NoCookies /\ request'[r].kind = request[r].kind
      /\ request'[r].code = request[r].code
      /\ \A n \in Names : request'[r].cookies[n] = None
  BY <1>a DEF TypeOK, NoCookies
<1>d. \A q \in Slots \ {r} : /\ pc'[q] = pc[q] /\ answer'[q] = answer[q] /\ token'[q] = token[q]
                             /\ request'[q] = request[q]
  BY <1>a DEF TypeOK
<1>1. TypeOK'
  <2>1. NoCookies \in [Names -> Token \cup {None}]
    BY DEF NoCookies
  <2>2. request' \in [Slots -> [kind : {"none", "call", "bearer", "logout", "callback"},
                              cookies : [Names -> Token \cup {None}],
                              code : issued \cup {None}]]
    BY <1>a, <2>1 DEF TypeOK
  <2>3. answer' \in [Slots -> [status : {0, 200, 302, 303, 401, 403, 502}, set : [Names -> SetCookie]]]
    BY <1>a DEF TypeOK
  <2>4. pc' \in [Slots -> {"idle", "received", "exchanging", "exchanged",
                         "refreshing", "refreshed", "answered"}]
        /\ token' \in [Slots -> Token \cup {None}]
    BY <1>a DEF TypeOK
  <2> QED
    BY <1>b, <2>2, <2>3, <2>4 DEF TypeOK
<1>2. \A q \in Slots : SlotShape(q)'
  <2>1. SlotShape(r)'
    BY <1>c DEF SlotShape, SignsOff
  <2>2. ASSUME NEW q \in Slots \ {r} PROVE SlotShape(q)'
    BY <1>d, <2>2 DEF SlotShape, SignsOff
  <2> QED
    BY <2>1, <2>2
<1>3. TokensKnown'
  <2>1. \A t : Known(t)' <=> Known(t)
    BY <1>b DEF Known
  <2>2. \A q \in Slots, n \in Names : IsCookie(answer'[q].set[n]) => Known(answer'[q].set[n].token)
    BY <1>c, <1>d DEF TokensKnown
  <2> QED
    BY <1>b, <1>c, <1>d, <2>1, <2>2 DEF TokensKnown
<1>4. TokensPaired'
  BY <1>b DEF TokensPaired
<1>5. SignedOutStaysOut'
  <2>1. ASSUME ~restored, NEW q \in Slots \ overtaken PROVE Clean(q)'
    <3>1. Clean(q)
      BY <2>1 DEF SignedOutStaysOut
    <3>2. CASE q = r
      BY <3>1, <3>2, <1>b, <1>c DEF Clean
    <3>3. CASE q # r
      BY <3>1, <3>3, <1>b, <1>d DEF Clean
    <3> QED
      BY <3>2, <3>3
  <2> QED
    BY <1>b, <2>1 DEF SignedOutStaysOut
<1>u. /\ \A q \in Slots \ {r} : Undelivered(q)' = Undelivered(q)
      /\ Undelivered(r)' \subseteq Undelivered(r)
      /\ \A t \in Undelivered(r) : t \in Undelivered(r)' \/ t.session \in forfeited'
  <2>1. \A q \in Slots \ {r} : Undelivered(q)' = Undelivered(q)
    BY <1>d, SameUndelivered
  <2>2. "refresh" \in Names
    BY DEF Names
  <2>3. Undelivered(r)' = IF IsCookie(set["refresh"]) THEN {set["refresh"].token} ELSE {}
    BY <1>c DEF Undelivered
  <2>4. CASE token[r] = None
    <3>1. Undelivered(r) = {}
      BY <2>4, <2>2, KeptIsQuiet DEF Undelivered, SlotShape
    <3> QED
      BY <2>1, <2>2, <2>3, <2>4, <3>1
  <2>5. CASE token[r] # None
    <3>1. Undelivered(r) = {t \in {token[r]} : t.renewable}
      BY <2>5 DEF Undelivered
    <3>2. IsCookie(set["refresh"]) => token[r].renewable /\ set["refresh"].token = token[r]
      BY <2>2 DEF Paired, IsCookie, Names
    <3> QED
      BY <2>1, <2>3, <2>5, <3>1, <3>2
  <2> QED
    BY <2>4, <2>5
<1>6. NewestUnderWay'
  <2> SUFFICES ASSUME rotates, NEW q \in Slots, NEW t \in Undelivered(q)' PROVE UnderWay(q, t)'
    BY <1>b DEF NewestUnderWay
  <2>1. UnderWay(q, t)
    BY <1>u DEF NewestUnderWay
  <2>2. \A p \in Slots : request'[p].cookies["refresh"] # None
                            => request'[p].cookies["refresh"] = request[p].cookies["refresh"]
    BY <1>c, <1>d DEF Names
  <2> QED
    BY <2>1, <2>2, <1>b, <1>u DEF UnderWay, Same
<1>7. NewestStaysAtHand
  <2>1. \A q \in Slots : \A t \in Undelivered(q) :
            t \in Undelivered(q)' \/ t.session \in forfeited'
    BY <1>u
  <2> QED
    BY <1>b, <2>1, SameAtHand
<1> QED
  BY <1>1, <1>2, <1>3, <1>4, <1>5, <1>6, <1>7

-----------------------------------------------------------------------------
\* Steps that hand no token to anybody; cookies may run out.

LEMMA FrameKeepsTokens ==
    ASSUME IInv, \A n \in Names : jar'[n] = jar[n] \/ jar'[n] = None,
           UNCHANGED <<redeemed, latest, rotates, request, token, answer, signedOut, overtaken,
                       restored, forfeited>>
    PROVE  TokensInv' /\ (jar' = jar => NewestStaysAtHand)
<1> USE DEF IInv, TokensInv
<1>0. {"access", "refresh"} \subseteq Names
  BY DEF Names
<1>1. TokensKnown'
  BY DEF TokensKnown, Known
<1>2. TokensPaired'
  BY <1>0 DEF TokensPaired
<1>3. SignedOutStaysOut'
  BY DEF SignedOutStaysOut, Clean
<1>4. \A q \in Slots : Undelivered(q)' = Undelivered(q)
  BY DEF Undelivered
<1>5. NewestUnderWay'
  BY <1>0, <1>4 DEF NewestUnderWay, UnderWay, Same
<1>6. jar' = jar => NewestStaysAtHand
  BY <1>4, SameAtHand
<1> QED
  BY <1>1, <1>2, <1>3, <1>5, <1>6

LEMMA AdvanceKeepsInvariant ==
    ASSUME IInv, NEW r \in Slots, pc[r] = "received",
           NEW label \in {"exchanging", "refreshing"},
           label = "exchanging" => request[r].kind = "callback",
           label = "refreshing" => /\ request[r].kind = "call"
                                   /\ request[r].cookies["refresh"] # None,
           Advance(r, label),
           UNCHANGED <<now, jar, gateway, logins, keycloak, request, token, answer, sent, history>>
    PROVE  IInv' /\ NewestStaysAtHand
<1> USE DEF IInv, gateway, logins, keycloak, history
<1>1. pc' = [pc EXCEPT ![r] = label]
  BY DEF Advance
<1>2. TypeOK'
  BY <1>1 DEF TypeOK
<1>3. ASSUME NEW q \in Slots PROVE SlotShape(q)'
  <2>1. CASE q = r
    <3>1. pc'[r] = label
      BY <1>1 DEF TypeOK
    <3> QED
      BY <2>1, <3>1 DEF SlotShape, SignsOff
  <2>2. CASE q # r
    <3>1. pc'[q] = pc[q]
      BY <1>1, <2>2 DEF TypeOK
    <3> QED
      BY <2>2, <3>1 DEF SlotShape, SignsOff
  <2> QED
    BY <2>1, <2>2
<1>4. TokensInv' /\ NewestStaysAtHand
  BY FrameKeepsTokens
<1>5. SpentStatesGone'
  BY DEF SpentStatesGone
<1> QED
  BY <1>2, <1>3, <1>4, <1>5

LEMMA LoginKeepsInvariant ==
    ASSUME IInv, NEW l \in Logins, Login(l)
    PROVE  IInv' /\ NewestStaysAtHand
<1> USE DEF IInv, keycloak, slot, history
<1>1. /\ l \notin begun /\ begun' = begun \cup {l}
      /\ states' = [states EXCEPT ![l] = now]
      /\ offered' \in {offered, offered \cup {l}} /\ discovered' \in BOOLEAN
      /\ UNCHANGED <<now, jar, keycloak, slot, sent, history>>
  BY DEF Login, TypeOK, SaveState, Offer, Discover, NoDocument
<1>2. TypeOK'
  BY <1>1 DEF TypeOK
<1>3. \A r \in Slots : SlotShape(r)'
  BY <1>1 DEF SlotShape, SignsOff
<1>4. TokensInv' /\ NewestStaysAtHand
  BY <1>1, FrameKeepsTokens
<1>5. SpentStatesGone'
  <2>1. ASSUME NEW c \in signedIn PROVE states'[c[1]] = None
    <3>1. c[1] \in begun /\ c[1] \in Logins
      BY DEF TypeOK
    <3> QED
      BY <1>1, <3>1 DEF TypeOK, SpentStatesGone
  <2> QED
    BY <1>1, <2>1 DEF SpentStatesGone
<1> QED
  BY <1>2, <1>3, <1>4, <1>5

LEMMA AuthorizeKeepsInvariant ==
    ASSUME IInv, NEW c \in Codes, Authorize(c)
    PROVE  IInv' /\ NewestStaysAtHand
<1> USE DEF IInv, gateway, logins, slot, history
<1>1. TypeOK'
  <2>1. request' \in [Slots -> [kind : {"none", "call", "bearer", "logout", "callback"},
                              cookies : [Names -> Token \cup {None}],
                              code : issued' \cup {None}]]
    BY DEF TypeOK, Authorize
  <2>2. issued' \subseteq offered \X Attempts
    BY DEF TypeOK, Authorize, Codes
  <2> QED
    BY <2>1, <2>2 DEF TypeOK, Authorize
<1>2. \A r \in Slots : SlotShape(r)'
  BY DEF SlotShape, SignsOff, Authorize
<1>3. TokensInv' /\ NewestStaysAtHand
  BY FrameKeepsTokens DEF Authorize
<1>4. SpentStatesGone'
  BY DEF SpentStatesGone, Authorize
<1> QED
  BY <1>1, <1>2, <1>3, <1>4

LEMMA TickKeepsInvariant ==
    ASSUME IInv, Tick
    PROVE  IInv' /\ NewestStaysAtHand
<1> USE DEF IInv, gateway, logins, keycloak, slot, history
<1>0. \A n \in Names : jar'[n] = jar[n] \/ jar'[n] = None
  BY DEF Tick
<1>1. TypeOK'
  <2>1. jar' \in [Names -> Cookies \cup {None}]
    BY DEF TypeOK, Tick
  <2>2. now' \in 0 .. MaxTime
    BY BoundsAssumption DEF TypeOK, Tick
  <2> QED
    BY <2>1, <2>2 DEF TypeOK, Tick
<1>2. \A r \in Slots : SlotShape(r)'
  BY DEF SlotShape, SignsOff, Tick
<1>3. TokensInv'
  BY <1>0, FrameKeepsTokens DEF Tick
<1>4. SpentStatesGone'
  BY DEF SpentStatesGone, Tick
<1>5. NewestStaysAtHand
  <2> SUFFICES ASSUME NEW s \in Codes, AtHand(s), ~AtHand(s)'
      PROVE now' > now /\ jar["refresh"].until <= now'
    BY DEF NewestStaysAtHand
  <2>1. jar["refresh"] # None /\ jar'["refresh"] # jar["refresh"]
    BY DEF AtHand, Undelivered, IsCookie, Tick
  <2>2. "refresh" \in Names /\ now \in Nat
    BY DEF Names, TypeOK
  <2> QED
    BY <2>1, <2>2 DEF Tick
<1> QED
  BY <1>1, <1>2, <1>3, <1>4, <1>5

-----------------------------------------------------------------------------
\* The browser sends a request.

LEMMA SendKeepsInvariant ==
    ASSUME IInv, NEW r \in Slots, NEW kind \in {"call", "bearer", "logout", "callback"},
           NEW code \in issued \cup {None}, kind = "callback" => code # None,
           Send(r, kind, code)
    PROVE  IInv' /\ NewestStaysAtHand
<1> USE DEF IInv, TokensInv
<1>0. "refresh" \in Names
  BY DEF Names
<1>a. /\ pc[r] = "idle" /\ sent < MaxRequests /\ sent' = sent + 1
      /\ pc' = [pc EXCEPT ![r] = "received"]
      /\ request' = [request EXCEPT ![r] = [kind |-> kind, cookies |-> Carried(kind),
                                           code |-> code]]
      /\ overtaken' = overtaken \ {r}
      /\ UNCHANGED <<now, jar, states, discovered, begun, offered, issued, redeemed, latest,
                     rotates, token, answer, signedIn, signedOut, restored, forfeited>>
  BY DEF Send, Advance, gateway, logins, keycloak
<1>b. pc'[r] = "received"
      /\ request'[r] = [kind |-> kind, cookies |-> Carried(kind), code |-> code]
  BY <1>a DEF TypeOK
<1>c. \A q \in Slots \ {r} : pc'[q] = pc[q] /\ request'[q] = request[q]
  BY <1>a DEF TypeOK
<1>d. \A n \in Names : Carried(kind)[n] = None
                       \/ (jar[n] # None /\ Carried(kind)[n] = jar[n].token)
  <2>1. NoCookies = [n \in Names |-> None]
    BY DEF NoCookies
  <2>2. \A n \in Names : Held[n] = IF jar[n] = None THEN None ELSE jar[n].token
    BY DEF Held
  <2>3. [Held EXCEPT !["id"] = None] = [n \in Names |-> IF n = "id" THEN None ELSE Held[n]]
    BY Zenon DEF Held
  <2> QED
    BY <2>1, <2>2, <2>3 DEF Carried
<1>e. Carried(kind) \in [Names -> Token \cup {None}]
  <2>1. \A n \in Names : jar[n] # None => jar[n].token \in Token
    BY DEF TypeOK, Cookies
  <2>2. Held \in [Names -> Token \cup {None}]
    BY <2>1 DEF Held
  <2>3. NoCookies \in [Names -> Token \cup {None}]
    BY DEF NoCookies
  <2>4. [Held EXCEPT !["id"] = None] \in [Names -> Token \cup {None}]
    BY <2>2
  <2> QED
    BY <2>3, <2>4 DEF Carried
<1>f. token[r] = None /\ \A n \in Names : ~IsCookie(answer[r].set[n])
  BY <1>a, KeptIsQuiet DEF SlotShape
<1>1. TypeOK'
  <2>1. request' \in [Slots -> [kind : {"none", "call", "bearer", "logout", "callback"},
                              cookies : [Names -> Token \cup {None}],
                              code : issued \cup {None}]]
    BY <1>a, <1>e DEF TypeOK
  <2>2. sent' \in 0 .. MaxRequests
    BY <1>a, BoundsAssumption DEF TypeOK
  <2>3. pc' \in [Slots -> {"idle", "received", "exchanging", "exchanged",
                         "refreshing", "refreshed", "answered"}]
    BY <1>a DEF TypeOK
  <2> QED
    BY <1>a, <2>1, <2>2, <2>3 DEF TypeOK
<1>2. \A q \in Slots : SlotShape(q)'
  <2>1. SlotShape(r)'
    BY <1>a, <1>b DEF SlotShape, SignsOff, Carried, IsCookie, Paired
  <2>2. ASSUME NEW q \in Slots \ {r} PROVE SlotShape(q)'
    BY <1>a, <1>c, <2>2 DEF SlotShape, SignsOff, IsCookie, Paired
  <2> QED
    BY <2>1, <2>2
<1>3. TokensKnown'
  <2>1. \A q \in Slots, n \in Names :
            request'[q].cookies[n] # None => Known(request'[q].cookies[n])
    BY <1>b, <1>c, <1>d DEF TokensKnown
  <2> QED
    BY <1>a, <2>1 DEF TokensKnown, Known, IsCookie
<1>4. TokensPaired'
  BY <1>a DEF TokensPaired
<1>5. SignedOutStaysOut'
  <2>1. ASSUME ~restored, NEW q \in Slots \ overtaken' PROVE Clean(q)'
    <3>1. CASE q = r
      <4>1. \A n \in Names : request'[r].cookies[n] # None
                             => request'[r].cookies[n].session \notin signedOut
        BY <1>b, <1>d, <2>1 DEF SignedOutStaysOut
      <4> QED
        BY <1>a, <1>f, <3>1, <4>1 DEF Clean, IsCookie
    <3>2. CASE q # r
      BY <1>a, <1>c, <2>1, <3>2 DEF SignedOutStaysOut, Clean, IsCookie
    <3> QED
      BY <3>1, <3>2
  <2> QED
    BY <1>a, <2>1 DEF SignedOutStaysOut
<1>u. \A q \in Slots : Undelivered(q)' = Undelivered(q)
  BY <1>a DEF Undelivered, IsCookie
<1>6. NewestUnderWay'
  <2> SUFFICES ASSUME rotates, NEW q \in Slots, NEW t \in Undelivered(q) PROVE UnderWay(q, t)'
    BY <1>a, <1>u DEF NewestUnderWay
  <2>1. UnderWay(q, t)
    BY DEF NewestUnderWay
  <2>2. \A p \in Slots : request'[p].cookies["refresh"] # None
                            => ~Same(t, request'[p].cookies["refresh"])
    BY <1>0, <1>b, <1>c, <1>d, <2>1 DEF UnderWay
  <2> QED
    BY <1>a, <1>u, <2>1, <2>2 DEF UnderWay, Same
<1>7. NewestStaysAtHand
  BY <1>a, <1>u, SameAtHand
<1>8. SpentStatesGone'
  BY <1>a DEF SpentStatesGone
<1> QED
  BY <1>1, <1>2, <1>3, <1>4, <1>5, <1>6, <1>7, <1>8

-----------------------------------------------------------------------------
\* Keycloak gives a token to a request.

LEMMA GrantKeepsInvariant ==
    ASSUME IInv, NEW r \in Slots, NEW t \in Token,
           pc[r] \in {"exchanging", "refreshing"},
           \* It is the newest of its session.
           t.session \in redeemed',
           latest' = [latest EXCEPT ![t.session] = t.serial],
           t.serial # 0,
           \* The session is a new one, or one whose refresh token the request carries.
           \/ t.session \notin redeemed /\ redeemed' = redeemed \cup {t.session}
           \/ /\ redeemed' = redeemed
              /\ t.renewable
              /\ t.serial = latest[t.session] + 1
              /\ request[r].cookies["refresh"] # None
              /\ request[r].cookies["refresh"].session = t.session
              /\ Accepts(request[r].cookies["refresh"]),
           redeemed' \subseteq issued,
           token' = [token EXCEPT ![r] = t],
           \/ pc[r] = "exchanging" /\ Advance(r, "exchanged") /\ UNCHANGED answer
           \/ /\ pc[r] = "refreshing" /\ t.renewable /\ Advance(r, "refreshed")
              /\ answer' = [answer EXCEPT ![r] = [status |-> 0, set |-> TokenCookies(t)]],
           discovered' \in BOOLEAN,
           UNCHANGED <<now, jar, states, logins, issued, rotates, request, sent, history>>
    PROVE  IInv' /\ NewestStaysAtHand
<1> USE DEF IInv, TokensInv
<1>0. "refresh" \in Names /\ t.session \in Codes /\ t.serial \in Nat \ {0}
  BY DEF Names, Token, TypeOK
<1>a. UNCHANGED <<now, jar, states, begun, offered, issued, rotates, request, sent, signedIn,
                  signedOut, overtaken, restored, forfeited>>
  BY DEF logins, history
<1>b. /\ token'[r] = t /\ pc'[r] \in {"exchanged", "refreshed"}
      /\ pc'[r] = "exchanged" => pc[r] = "exchanging" /\ answer'[r] = answer[r]
      /\ pc'[r] = "refreshed" => /\ pc[r] = "refreshing" /\ t.renewable
                                 /\ answer'[r].set = TokenCookies(t)
  BY DEF TypeOK, Advance
<1>c. \A q \in Slots \ {r} : pc'[q] = pc[q] /\ token'[q] = token[q] /\ answer'[q] = answer[q]
  BY DEF TypeOK, Advance
<1>n. t # None
  BY NoneAssumption
<1>k. pc'[r] = "refreshed" =>
      /\ TokenCookies(t) \in [Names -> SetCookie] /\ Paired(TokenCookies(t))
      /\ \A n \in Names : IsCookie(TokenCookies(t)[n]) => TokenCookies(t)[n].token = t
      /\ IsCookie(TokenCookies(t)["refresh"]) /\ ~IsCookie(TokenCookies(t)["id"])
  BY <1>b, TokenCookiesArePaired DEF TypeOK
<1>f. token[r] = None /\ \A n \in Names : ~IsCookie(answer[r].set[n])
  BY KeptIsQuiet DEF SlotShape
<1>l. \A s \in Codes : latest'[s] = IF s = t.session THEN t.serial ELSE latest[s]
  BY <1>0 DEF TypeOK
<1>1. TypeOK'
  <2>1. answer' \in [Slots -> [status : {0, 200, 302, 303, 401, 403, 502}, set : [Names -> SetCookie]]]
    <3>1. pc'[r] = "refreshed" =>
              [status |-> 0, set |-> TokenCookies(t)]
                  \in [status : {0, 200, 302, 303, 401, 403, 502}, set : [Names -> SetCookie]]
      BY <1>k
    <3>2. CASE answer' = answer
      BY <3>2 DEF TypeOK
    <3>3. CASE /\ pc'[r] = "refreshed"
               /\ answer' = [answer EXCEPT ![r] = [status |-> 0, set |-> TokenCookies(t)]]
      BY <3>1, <3>3 DEF TypeOK
    <3>4. pc \in [Slots -> {"idle", "received", "exchanging", "exchanged",
                           "refreshing", "refreshed", "answered"}]
      BY DEF TypeOK
    <3> QED
      BY <3>2, <3>3, <3>4 DEF Advance
  <2>2. pc' \in [Slots -> {"idle", "received", "exchanging", "exchanged",
                         "refreshing", "refreshed", "answered"}]
    <3>1. pc' = [pc EXCEPT ![r] = "exchanged"] \/ pc' = [pc EXCEPT ![r] = "refreshed"]
      BY DEF Advance
    <3>2. CASE pc' = [pc EXCEPT ![r] = "exchanged"]
      BY <3>2 DEF TypeOK
    <3>3. CASE pc' = [pc EXCEPT ![r] = "refreshed"]
      BY <3>3 DEF TypeOK
    <3> QED
      BY <3>1, <3>2, <3>3
  <2>3. latest' \in [Codes -> Nat] /\ token' \in [Slots -> Token \cup {None}]
    BY <1>0 DEF TypeOK
  <2>4. redeemed \subseteq redeemed'
    OBVIOUS
  <2> QED
    BY <1>a, <2>1, <2>2, <2>3, <2>4 DEF TypeOK
<1>2. \A q \in Slots : SlotShape(q)'
  <2>1. SlotShape(r)'
    <3>1. CASE pc'[r] = "exchanged"
      BY <1>a, <1>b, <1>n, <3>1 DEF SlotShape, SignsOff, Paired, IsCookie
    <3>2. CASE pc'[r] = "refreshed"
      BY <1>0, <1>a, <1>b, <1>n, <1>k, <3>2 DEF SlotShape, SignsOff, Paired, IsCookie
    <3> QED
      BY <1>b, <3>1, <3>2
  <2>2. ASSUME NEW q \in Slots \ {r} PROVE SlotShape(q)'
    BY <1>a, <1>c, <2>2 DEF SlotShape, SignsOff, IsCookie, Paired
  <2> QED
    BY <2>1, <2>2
<1>h. /\ \A u \in Token : Known(u) => Known(u)'
      /\ Known(t)'
  <2>1. \A u \in Token : u.session \in Codes
    BY DEF Token
  <2> QED
    BY <1>0, <1>l, <2>1 DEF Known, TypeOK
<1>v. \A n \in Names : IsCookie(answer'[r].set[n]) => answer'[r].set[n].token = t
  BY <1>b, <1>f, <1>k
<1>y. \A n \in Names, q \in Slots :
          /\ jar[n] # None => jar[n].token \in Token
          /\ token[q] # None => token[q] \in Token
          /\ request[q].cookies[n] # None => request[q].cookies[n] \in Token
          /\ IsCookie(answer[q].set[n]) => answer[q].set[n].token \in Token
  BY DEF TypeOK, Cookies, SetCookie, IsCookie
<1>3. TokensKnown'
  <2>1. \A n \in Names : jar[n] # None => Known(jar[n].token)'
    BY <1>h, <1>y DEF TokensKnown
  <2>2. \A q \in Slots : token'[q] # None => Known(token[q])'
    <3>1. Known(token[r])'
      BY <1>b, <1>h DEF Known
    <3>2. ASSUME NEW q \in Slots \ {r}, token'[q] # None PROVE Known(token[q])'
      <4>1. Known(token[q]) /\ token[q] \in Token
        BY <1>0, <1>c, <1>y, <3>2 DEF TokensKnown
      <4>2. Known(token[q])' <=> (token[q].session \in redeemed'
                                  /\ token[q].serial \in 1 .. latest'[token[q].session])
        BY <1>c DEF Known
      <4> QED
        BY <1>h, <4>1, <4>2 DEF Known
    <3> QED
      BY <3>1, <3>2
  <2>3. \A q \in Slots, n \in Names :
            request[q].cookies[n] # None => Known(request[q].cookies[n])'
    BY <1>h, <1>y DEF TokensKnown
  <2>4. \A q \in Slots, n \in Names :
            IsCookie(answer'[q].set[n]) => Known(answer[q].set[n].token)'
    <3>1. ASSUME NEW n \in Names, IsCookie(answer'[r].set[n]) PROVE Known(answer[r].set[n].token)'
      BY <1>h, <1>v, <3>1 DEF Known
    <3>2. ASSUME NEW q \in Slots \ {r}, NEW n \in Names, IsCookie(answer'[q].set[n])
          PROVE  Known(answer[q].set[n].token)'
      <4>1. Known(answer[q].set[n].token) /\ answer[q].set[n].token \in Token
        BY <1>c, <1>y, <3>2 DEF TokensKnown
      <4> QED
        BY <1>c, <1>h, <3>2, <4>1 DEF Known
    <3> QED
      BY <3>1, <3>2
  <2> QED
    BY <1>a, <2>1, <2>2, <2>3, <2>4 DEF TokensKnown, Known, IsCookie
<1>4. TokensPaired'
  BY <1>a DEF TokensPaired
<1>5. SignedOutStaysOut'
  <2>1. ASSUME ~restored, NEW q \in Slots \ overtaken PROVE Clean(q)'
    <3>0. Clean(q)
      BY <2>1 DEF SignedOutStaysOut
    <3>1. CASE q = r
      <4>1. t.session \notin signedOut
        BY <1>0, <3>0, <3>1 DEF Clean, TypeOK
      <4> QED
        BY <1>a, <1>b, <1>v, <3>0, <3>1, <4>1 DEF Clean, IsCookie
    <3>2. CASE q # r
      BY <1>a, <1>c, <3>0, <3>2 DEF Clean, IsCookie
    <3> QED
      BY <3>1, <3>2
  <2> QED
    BY <1>a, <2>1 DEF SignedOutStaysOut
<1>u. /\ Undelivered(r) = {} /\ Undelivered(r)' = {u \in {t} : u.renewable}
      /\ \A q \in Slots \ {r} : Undelivered(q)' = Undelivered(q)
      /\ \A q \in Slots : \A u \in Undelivered(q) : u \in Token
  <2>1. Undelivered(r) = {} /\ Undelivered(r)' = {u \in {t} : u.renewable}
    BY <1>0, <1>b, <1>f, <1>n DEF Undelivered
  <2>2. \A q \in Slots \ {r} : Undelivered(q)' = Undelivered(q)
    BY <1>c, SameUndelivered
  <2>3. \A q \in Slots : \A u \in Undelivered(q) : u \in Token
    BY <1>0, <1>y DEF Undelivered
  <2> QED
    BY <2>1, <2>2, <2>3
<1>w. ASSUME rotates, NEW q \in Slots, NEW u \in Undelivered(q)
      PROVE  u.session # t.session
  <2>1. u \in Token /\ Known(u) /\ UnderWay(q, u)
    BY <1>0, <1>u, <1>w DEF Undelivered, TokensKnown, NewestUnderWay
  <2> QED
    BY <2>1, <1>w DEF Known, UnderWay, Same, Accepts
<1>6. NewestUnderWay'
  <2> SUFFICES ASSUME rotates, NEW q \in Slots, NEW u \in Undelivered(q)' PROVE UnderWay(q, u)'
    BY <1>a DEF NewestUnderWay
  <2>1. CASE q = r
    <3>1. u = t
      BY <1>u, <2>1
    <3>2. jar["refresh"] # None => ~Same(t, jar["refresh"].token)
      BY <1>0, <1>y DEF TokensKnown, Known, Same, TypeOK
    <3>3. \A p \in Slots : request[p].cookies["refresh"] # None
                              => ~Same(t, request[p].cookies["refresh"])
      BY <1>0, <1>y DEF TokensKnown, Known, Same, TypeOK
    <3>4. \A p \in Slots \ {q} : \A v \in Undelivered(p)' : ~Same(t, v)
      BY <1>u, <1>w, <2>1 DEF Same
    <3> QED
      BY <1>0, <1>a, <1>l, <3>1, <3>2, <3>3, <3>4 DEF UnderWay, Same
  <2>2. CASE q # r
    <3>1. u \in Undelivered(q) /\ u \in Token /\ u.session # t.session
      BY <1>u, <1>w, <2>2
    <3>2. UnderWay(q, u)
      BY <3>1 DEF NewestUnderWay
    <3>3. u.session \in Codes /\ latest'[u.session] = latest[u.session]
      BY <1>l, <3>1 DEF Token
    <3>4. \A p \in Slots \ {q} : \A v \in Undelivered(p)' : ~Same(u, v)
      BY <1>u, <3>1, <3>2 DEF Same, UnderWay
    <3> QED
      BY <1>a, <3>2, <3>3, <3>4 DEF UnderWay, Same
  <2> QED
    BY <2>1, <2>2
<1>7. NewestStaysAtHand
  <2> SUFFICES ASSUME NEW s \in Codes, AtHand(s) PROVE AtHand(s)'
    BY DEF NewestStaysAtHand
  <2>1. CASE s = t.session /\ t.renewable
    <3>1. t \in Undelivered(r)' /\ t.serial = latest'[s]
      BY <1>l, <1>u, <2>1
    <3> QED
      BY <2>1, <3>1 DEF AtHand
  <2>2. CASE s = t.session /\ ~t.renewable
    <3>1. \A q \in Slots : \A u \in Undelivered(q) : u.session \in redeemed
      BY <1>0 DEF Undelivered, TokensKnown, Known
    <3>2. s \in redeemed
      BY <1>0, <3>1 DEF AtHand, TokensKnown, Known
    <3> QED
      BY <2>2, <3>2
  <2>3. CASE s # t.session
    <3>1. latest'[s] = latest[s]
      BY <1>l, <2>3
    <3>2. \A q \in Slots : Undelivered(q) \subseteq Undelivered(q)'
      BY <1>u
    <3> QED
      BY <1>a, <3>1, <3>2 DEF AtHand
  <2> QED
    BY <2>1, <2>2, <2>3
<1>8. SpentStatesGone'
  BY <1>a DEF SpentStatesGone
<1> QED
  BY <1>1, <1>2, <1>3, <1>4, <1>5, <1>6, <1>7, <1>8

-----------------------------------------------------------------------------
\* Requests come to an end.

\* What the end of a request leaves of it.
Gone(r) ==
    /\ pc'[r] = "idle" /\ request'[r] = NoRequest
    /\ token'[r] = None /\ answer'[r] = NoAnswer

LEMMA GoneIsQuiet ==
    ASSUME NEW r \in Slots, Gone(r)
    PROVE  /\ SlotShape(r)' /\ Clean(r)' /\ Undelivered(r)' = {}
           /\ \A n \in Names : request'[r].cookies[n] = None /\ ~IsCookie(answer'[r].set[n])
<1>1. /\ \A n \in Names : NoCookies[n] = None
      /\ "refresh" \in Names /\ "id" \in Names /\ "access" \in Names
  BY DEF NoCookies, Names
<1>2. answer'[r].set = Kept /\ request'[r].cookies = NoCookies /\ request'[r].kind = "none"
  BY DEF Gone, NoAnswer, NoRequest
<1>3. \A n \in Names : request'[r].cookies[n] = None /\ ~IsCookie(answer'[r].set[n])
  BY <1>1, <1>2, KeptIsQuiet
<1>4. SlotShape(r)'
  BY <1>1, <1>2, KeptIsQuiet DEF SlotShape, SignsOff, Gone, Paired, IsCookie
<1>5. Clean(r)'
  BY <1>3 DEF Clean, Gone, IsCookie
<1>6. Undelivered(r)' = {}
  BY <1>1, <1>3 DEF Undelivered, Gone, IsCookie
<1> QED
  BY <1>3, <1>4, <1>5, <1>6

LEMMA LoseKeepsInvariant ==
    ASSUME IInv, NEW r \in Slots, Lose(r)
    PROVE  IInv' /\ NewestStaysAtHand
<1> USE DEF IInv, TokensInv
<1>0. "refresh" \in Names
  BY DEF Names
<1>a. /\ pc[r] = "answered"
      /\ pc' = [pc EXCEPT ![r] = "idle"] /\ request' = [request EXCEPT ![r] = NoRequest]
      /\ token' = [token EXCEPT ![r] = None] /\ answer' = [answer EXCEPT ![r] = NoAnswer]
      /\ forfeited' = forfeited \cup {t.session : t \in Undelivered(r)}
      /\ overtaken' = overtaken \ {r}
      /\ UNCHANGED <<now, jar, states, discovered, begun, offered, issued, redeemed, latest,
                     rotates, sent, signedIn, signedOut, restored>>
  BY DEF Lose, Finish, Advance, gateway, logins, keycloak
<1>b. Gone(r)
  BY <1>a DEF Gone, TypeOK
<1>c. \A q \in Slots \ {r} : /\ pc'[q] = pc[q] /\ request'[q] = request[q]
                             /\ token'[q] = token[q] /\ answer'[q] = answer[q]
  BY <1>a DEF TypeOK
<1>u. /\ \A q \in Slots \ {r} : Undelivered(q)' = Undelivered(q)
      /\ Undelivered(r)' = {}
  BY <1>b, <1>c, GoneIsQuiet DEF Undelivered, IsCookie
<1>k. \A t \in Undelivered(r) : Known(t)
  BY <1>0 DEF Undelivered, TokensKnown
<1>1. TypeOK'
  <2>1. NoRequest \in [kind : {"none", "call", "bearer", "logout", "callback"},
                       cookies : [Names -> Token \cup {None}], code : issued \cup {None}]
    BY DEF NoRequest, NoCookies
  <2>2. NoAnswer \in [status : {0, 200, 302, 303, 401, 403, 502}, set : [Names -> SetCookie]]
    BY KeptIsQuiet DEF NoAnswer
  <2>3. request' \in [Slots -> [kind : {"none", "call", "bearer", "logout", "callback"},
                              cookies : [Names -> Token \cup {None}],
                              code : issued \cup {None}]]
    BY <1>a, <2>1 DEF TypeOK
  <2>4. answer' \in [Slots -> [status : {0, 200, 302, 303, 401, 403, 502}, set : [Names -> SetCookie]]]
    BY <1>a, <2>2 DEF TypeOK
  <2>5. pc' \in [Slots -> {"idle", "received", "exchanging", "exchanged",
                         "refreshing", "refreshed", "answered"}]
    BY <1>a DEF TypeOK
  <2>6. token' \in [Slots -> Token \cup {None}] /\ overtaken' \subseteq Slots
    BY <1>a DEF TypeOK
  <2>7. forfeited' \subseteq redeemed
    BY <1>a, <1>k DEF TypeOK, Known
  <2> QED
    BY <1>a, <2>3, <2>4, <2>5, <2>6, <2>7 DEF TypeOK
<1>2. \A q \in Slots : SlotShape(q)'
  <2>1. ASSUME NEW q \in Slots \ {r} PROVE SlotShape(q)'
    BY <1>c, <2>1 DEF SlotShape, SignsOff, IsCookie, Paired
  <2> QED
    BY <1>b, <2>1, GoneIsQuiet
<1>3. TokensKnown'
  <2>1. \A n \in Names : jar'[n] # None => Known(jar[n].token)
    BY <1>a DEF TokensKnown
  <2>2. ASSUME NEW q \in Slots
        PROVE  /\ token'[q] # None => token'[q] = token[q]
               /\ \A n \in Names : request'[q].cookies[n] # None
                                   => request'[q].cookies[n] = request[q].cookies[n]
               /\ \A n \in Names : IsCookie(answer'[q].set[n]) => answer'[q].set[n] = answer[q].set[n]
    BY <1>b, <1>c, GoneIsQuiet DEF Gone
  <2> QED
    <3>1. \A t : Known(t)' <=> Known(t)
      BY <1>a DEF Known
    <3>2. \A q \in Slots : token'[q] # None => Known(token'[q])
      BY <2>2 DEF TokensKnown
    <3>3. \A q \in Slots, n \in Names :
              request'[q].cookies[n] # None => Known(request'[q].cookies[n])
      BY <2>2 DEF TokensKnown
    <3>4. \A q \in Slots, n \in Names :
              IsCookie(answer'[q].set[n]) => Known(answer'[q].set[n].token)
      BY <2>2 DEF TokensKnown
    <3> QED
      BY <1>a, <2>1, <3>1, <3>2, <3>3, <3>4 DEF TokensKnown, Known, IsCookie
<1>4. TokensPaired'
  BY <1>a DEF TokensPaired
<1>5. SignedOutStaysOut'
  <2>1. ASSUME ~restored, NEW q \in Slots \ overtaken', q # r PROVE Clean(q)'
    BY <1>a, <1>c, <2>1 DEF SignedOutStaysOut, Clean, IsCookie
  <2>2. Clean(r)'
    BY <1>b, GoneIsQuiet
  <2> QED
    BY <1>a, <2>1, <2>2 DEF SignedOutStaysOut
<1>6. NewestUnderWay'
  <2> SUFFICES ASSUME rotates, NEW q \in Slots, NEW t \in Undelivered(q)' PROVE UnderWay(q, t)'
    BY <1>a DEF NewestUnderWay
  <2>1. q # r /\ UnderWay(q, t)
    BY <1>u DEF NewestUnderWay
  <2>2. \A p \in Slots : request'[p].cookies["refresh"] # None
                            => request'[p].cookies["refresh"] = request[p].cookies["refresh"]
    BY <1>0, <1>b, <1>c, GoneIsQuiet
  <2> QED
    BY <1>a, <1>u, <2>1, <2>2 DEF UnderWay, Same
<1>7. NewestStaysAtHand
  <2>1. \A u \in Undelivered(r) : u.session \in forfeited'
    BY <1>a
  <2> QED
    BY <1>a, <1>u, <2>1, SameAtHand
<1>8. SpentStatesGone'
  BY <1>a DEF SpentStatesGone
<1> QED
  BY <1>1, <1>2, <1>3, <1>4, <1>5, <1>6, <1>7, <1>8

LEMMA RestartKeepsInvariant ==
    ASSUME IInv, Restart
    PROVE  IInv' /\ NewestStaysAtHand
<1> USE DEF IInv, TokensInv
<1>0. "refresh" \in Names
  BY DEF Names
<1>a. /\ states' = [l \in Logins |-> None] /\ discovered' = FALSE
      /\ pc' = [q \in Slots |-> "idle"] /\ request' = [q \in Slots |-> NoRequest]
      /\ token' = [q \in Slots |-> None] /\ answer' = [q \in Slots |-> NoAnswer]
      /\ forfeited' = forfeited \cup {t.session : t \in UNION {Undelivered(q) : q \in Slots}}
      /\ overtaken' = {}
      /\ UNCHANGED <<now, jar, begun, offered, issued, redeemed, latest, rotates, sent, signedIn,
                     signedOut, restored>>
  BY DEF Restart, logins, keycloak
<1>b. \A q \in Slots : Gone(q)
  BY <1>a DEF Gone
<1>k. \A q \in Slots : \A t \in Undelivered(q) : Known(t)
  BY <1>0 DEF Undelivered, TokensKnown
<1>1. TypeOK'
  <2>1. NoRequest \in [kind : {"none", "call", "bearer", "logout", "callback"},
                       cookies : [Names -> Token \cup {None}], code : issued \cup {None}]
    BY DEF NoRequest, NoCookies
  <2>2. NoAnswer \in [status : {0, 200, 302, 303, 401, 403, 502}, set : [Names -> SetCookie]]
    BY KeptIsQuiet DEF NoAnswer
  <2>3. forfeited' \subseteq redeemed
    BY <1>a, <1>k DEF TypeOK, Known
  <2>4. request' \in [Slots -> [kind : {"none", "call", "bearer", "logout", "callback"},
                              cookies : [Names -> Token \cup {None}],
                              code : issued \cup {None}]]
    BY <1>a, <2>1
  <2>5. answer' \in [Slots -> [status : {0, 200, 302, 303, 401, 403, 502}, set : [Names -> SetCookie]]]
    BY <1>a, <2>2
  <2>6. /\ pc' \in [Slots -> {"idle", "received", "exchanging", "exchanged",
                            "refreshing", "refreshed", "answered"}]
        /\ token' \in [Slots -> Token \cup {None}]
        /\ states' \in [Logins -> 0 .. MaxTime \cup {None}]
    BY <1>a
  <2> QED
    BY <1>a, <2>3, <2>4, <2>5, <2>6 DEF TypeOK
<1>2. \A q \in Slots : SlotShape(q)'
  BY <1>b, GoneIsQuiet
<1>3. TokensKnown'
  <2>1. \A n \in Names : jar'[n] # None => Known(jar[n].token)
    BY <1>a DEF TokensKnown
  <2> QED
    BY <1>a, <1>b, <2>1, GoneIsQuiet DEF TokensKnown, Known, IsCookie, Gone
<1>4. TokensPaired'
  BY <1>a DEF TokensPaired
<1>5. SignedOutStaysOut'
  BY <1>a, <1>b, GoneIsQuiet DEF SignedOutStaysOut
<1>6. NewestUnderWay'
  BY <1>b, GoneIsQuiet DEF NewestUnderWay
<1>7. NewestStaysAtHand
  <2>1. \A q \in Slots : \A u \in Undelivered(q) : u.session \in forfeited'
    BY <1>a
  <2> QED
    BY <1>a, <2>1, SameAtHand
<1>8. SpentStatesGone'
  BY <1>a DEF SpentStatesGone, TypeOK, Codes
<1> QED
  BY <1>1, <1>2, <1>3, <1>4, <1>5, <1>6, <1>7, <1>8

-----------------------------------------------------------------------------
\* An answer arrives.

LEMMA DeliverKeepsInvariant ==
    ASSUME IInv, NEW r \in Slots, Deliver(r)
    PROVE  IInv' /\ NewestStaysAtHand
<1> USE DEF IInv, TokensInv
<1> DEFINE set == answer[r].set
<1>0. {"access", "refresh"} \subseteq Names
  BY DEF Names
<1>a. /\ pc[r] = "answered" /\ jar' = Stored(set)
      /\ pc' = [pc EXCEPT ![r] = "idle"] /\ request' = [request EXCEPT ![r] = NoRequest]
      /\ token' = [token EXCEPT ![r] = None] /\ answer' = [answer EXCEPT ![r] = NoAnswer]
      /\ UNCHANGED <<now, states, discovered, begun, offered, issued, redeemed, latest,
                     rotates, sent, signedIn, forfeited>>
  BY DEF Deliver, Finish, Advance, gateway, logins, keycloak
<1>b. Gone(r)
  BY <1>a DEF Gone, TypeOK
<1>c. \A q \in Slots \ {r} : /\ pc'[q] = pc[q] /\ request'[q] = request[q]
                             /\ token'[q] = token[q] /\ answer'[q] = answer[q]
  BY <1>a DEF TypeOK
<1>s. set \in [Names -> SetCookie] /\ Paired(set) /\ token[r] = None
  BY <1>a, TypedRequest DEF SlotShape
<1>j. \A n \in Names :
          /\ IsCookie(set[n]) => jar'[n] # None /\ jar'[n].token = set[n].token
          /\ set[n] = None => jar'[n] = None
          /\ set[n] = Untouched => jar'[n] = jar[n]
          /\ jar'[n] \in Cookies \cup {None}
  <2> SUFFICES ASSUME NEW n \in Names
      PROVE /\ IsCookie(set[n]) => jar'[n] # None /\ jar'[n].token = set[n].token
            /\ set[n] = None => jar'[n] = None
            /\ set[n] = Untouched => jar'[n] = jar[n]
            /\ jar'[n] \in Cookies \cup {None}
    OBVIOUS
  <2>1. CASE IsCookie(set[n])
    <3>1. jar'[n] = [token |-> set[n].token, until |-> now + set[n].life]
      BY <1>a, <2>1 DEF Stored
    <3>2. set[n].token \in Token /\ set[n].life \in Nat
      BY <1>s, <2>1 DEF SetCookie, IsCookie
    <3>3. now \in Nat
      BY DEF TypeOK
    <3>4. jar'[n] \in [token : Token, until : Nat]
      BY <3>1, <3>2, <3>3
    <3> QED
      BY <2>1, <3>1, <3>4, NoneAssumption DEF Cookies, IsCookie
  <2>2. CASE ~IsCookie(set[n])
    <3>1. jar'[n] = IF set[n] = None THEN None ELSE jar[n]
      BY <1>a, <2>2 DEF Stored
    <3>2. Untouched # None
      BY NoneAssumption
    <3> QED
      BY <2>2, <3>1, <3>2 DEF TypeOK
  <2> QED
    BY <2>1, <2>2
<1>d. \A n \in Names : IsCookie(set[n]) \/ set[n] = None \/ set[n] = Untouched
  BY DEF IsCookie
<1>u. /\ \A q \in Slots \ {r} : Undelivered(q)' = Undelivered(q)
      /\ Undelivered(r)' = {}
      /\ Undelivered(r) = IF IsCookie(set["refresh"]) THEN {set["refresh"].token} ELSE {}
  BY <1>b, <1>c, <1>s, GoneIsQuiet DEF Undelivered, IsCookie
<1>k. \A n \in Names : jar[n] # None => jar[n].token.session \in redeemed
  BY DEF TokensKnown, Known
<1>h. Held = [n \in Names |-> IF jar[n] = None THEN None ELSE jar[n].token]
  BY DEF Held
<1>l. /\ SignsOff(r) =>
              /\ signedOut' = signedOut \cup Sessions(Held)
              /\ overtaken' = {q \in Slots \ {r} : pc[q] # "idle"}
              /\ restored' = FALSE
      /\ ~SignsOff(r) =>
              /\ restored' = (restored \/ (r \in overtaken
                                            /\ \E n \in Names : IsCookie(set[n])))
              /\ overtaken' = overtaken \ {r}
              /\ signedOut' = signedOut
  BY DEF Deliver
<1>1. TypeOK'
  <2>1. NoRequest \in [kind : {"none", "call", "bearer", "logout", "callback"},
                       cookies : [Names -> Token \cup {None}], code : issued \cup {None}]
    BY DEF NoRequest, NoCookies
  <2>2. NoAnswer \in [status : {0, 200, 302, 303, 401, 403, 502}, set : [Names -> SetCookie]]
    BY KeptIsQuiet DEF NoAnswer
  <2>3. request' \in [Slots -> [kind : {"none", "call", "bearer", "logout", "callback"},
                              cookies : [Names -> Token \cup {None}],
                              code : issued \cup {None}]]
    BY <1>a, <2>1 DEF TypeOK
  <2>4. answer' \in [Slots -> [status : {0, 200, 302, 303, 401, 403, 502}, set : [Names -> SetCookie]]]
    BY <1>a, <2>2 DEF TypeOK
  <2>5. pc' \in [Slots -> {"idle", "received", "exchanging", "exchanged",
                         "refreshing", "refreshed", "answered"}]
    BY <1>a DEF TypeOK
  <2>6. token' \in [Slots -> Token \cup {None}] /\ overtaken' \subseteq Slots
    BY <1>a, <1>l DEF TypeOK
  <2>7. Sessions(Held) \subseteq redeemed
    BY <1>h, <1>k DEF Sessions
  <2>8. signedOut' \subseteq redeemed
    BY <1>l, <2>7 DEF TypeOK
  <2>9. restored' \in BOOLEAN
    BY <1>l DEF TypeOK
  <2>10. jar' \in [Names -> Cookies \cup {None}]
    BY <1>a, <1>j DEF Stored
  <2> QED
    BY <1>a, <2>3, <2>4, <2>5, <2>6, <2>8, <2>9, <2>10 DEF TypeOK
<1>2. \A q \in Slots : SlotShape(q)'
  <2>1. ASSUME NEW q \in Slots \ {r} PROVE SlotShape(q)'
    BY <1>c, <2>1 DEF SlotShape, SignsOff, IsCookie, Paired
  <2> QED
    BY <1>b, <2>1, GoneIsQuiet
<1>3. TokensKnown'
  <2>1. \A n \in Names : jar'[n] # None => Known(jar'[n].token)
    BY <1>d, <1>j DEF TokensKnown
  <2>2. ASSUME NEW q \in Slots
        PROVE  /\ token'[q] # None => token'[q] = token[q]
               /\ \A n \in Names : request'[q].cookies[n] # None
                                   => request'[q].cookies[n] = request[q].cookies[n]
               /\ \A n \in Names : IsCookie(answer'[q].set[n]) => answer'[q].set[n] = answer[q].set[n]
    BY <1>b, <1>c, GoneIsQuiet DEF Gone
  <2> QED
    <3>1. \A t : Known(t)' <=> Known(t)
      BY <1>a DEF Known
    <3>2. \A q \in Slots : token'[q] # None => Known(token'[q])
      BY <2>2 DEF TokensKnown
    <3>3. \A q \in Slots, n \in Names :
              request'[q].cookies[n] # None => Known(request'[q].cookies[n])
      BY <2>2 DEF TokensKnown
    <3>4. \A q \in Slots, n \in Names :
              IsCookie(answer'[q].set[n]) => Known(answer'[q].set[n].token)
      BY <2>2 DEF TokensKnown
    <3> QED
      BY <1>a, <2>1, <3>1, <3>2, <3>3, <3>4 DEF TokensKnown, Known, IsCookie
<1>4. TokensPaired'
  BY <1>0, <1>d, <1>j, <1>s, NoneAssumption DEF TokensPaired, Paired, IsCookie
<1>5. SignedOutStaysOut'
  <2>1. CASE SignsOff(r)
    <3>1. \A n \in Names : jar'[n] = None
      BY <1>a, <1>j, <2>1 DEF SlotShape
    <3>2. ASSUME NEW q \in Slots \ overtaken' PROVE Clean(q)'
      <4>1. CASE q = r
        BY <1>b, <4>1, GoneIsQuiet
      <4>2. CASE q # r
        <5>1. pc[q] = "idle"
          BY <1>l, <2>1, <3>2, <4>2
        <5>2. token[q] = None /\ request[q].cookies = NoCookies /\ answer[q].set = Kept
          BY <5>1 DEF SlotShape
        <5>3. \A n \in Names : NoCookies[n] = None
          BY DEF NoCookies
        <5> QED
          BY <1>c, <4>2, <5>2, <5>3, GoneIsQuiet, KeptIsQuiet DEF Clean, IsCookie
      <4> QED
        BY <4>1, <4>2
    <3> QED
      BY <3>1, <3>2 DEF SignedOutStaysOut
  <2>2. CASE ~SignsOff(r)
    <3>1. ASSUME ~restored', NEW n \in Names, jar'[n] # None
          PROVE  jar'[n].token.session \notin signedOut
      <4>1. CASE IsCookie(set[n])
        <5>1. ~restored /\ r \notin overtaken
          BY <1>l, <2>2, <3>1, <4>1
        <5>2. Clean(r)
          BY <5>1 DEF SignedOutStaysOut
        <5> QED
          BY <1>j, <4>1, <5>2 DEF Clean
      <4>2. CASE ~IsCookie(set[n])
        BY <1>d, <1>j, <1>l, <2>2, <3>1, <4>2 DEF SignedOutStaysOut
      <4> QED
        BY <4>1, <4>2
    <3>2. ASSUME ~restored', NEW q \in Slots \ overtaken' PROVE Clean(q)'
      <4>1. CASE q = r
        BY <1>b, <4>1, GoneIsQuiet
      <4>2. CASE q # r
        <5>1. ~restored /\ q \notin overtaken /\ signedOut' = signedOut
          BY <1>l, <2>2, <3>2, <4>2
        <5>2. Clean(q)
          BY <5>1 DEF SignedOutStaysOut
        <5> QED
          BY <1>c, <4>2, <5>1, <5>2, SameClean
      <4> QED
        BY <4>1, <4>2
    <3> QED
      BY <1>l, <2>2, <3>1, <3>2 DEF SignedOutStaysOut
  <2> QED
    BY <2>1, <2>2
<1>6. NewestUnderWay'
  <2> SUFFICES ASSUME rotates, NEW q \in Slots, NEW t \in Undelivered(q)' PROVE UnderWay(q, t)'
    BY <1>a DEF NewestUnderWay
  <2>1. q # r /\ UnderWay(q, t)
    BY <1>u DEF NewestUnderWay
  <2>2. \A p \in Slots : request'[p].cookies["refresh"] # None
                            => request'[p].cookies["refresh"] = request[p].cookies["refresh"]
    BY <1>0, <1>b, <1>c, GoneIsQuiet
  <2>3. jar'["refresh"] # None => ~Same(t, jar'["refresh"].token)
    <3>1. CASE IsCookie(set["refresh"])
      BY <1>0, <1>j, <1>u, <2>1, <3>1 DEF UnderWay
    <3>2. CASE ~IsCookie(set["refresh"])
      BY <1>0, <1>d, <1>j, <2>1, <3>2 DEF UnderWay
    <3> QED
      BY <3>1, <3>2
  <2>4. \A p \in Slots \ {q} : \A u \in Undelivered(p)' : ~Same(t, u)
    BY <1>u, <2>1 DEF UnderWay
  <2> QED
    BY <1>a, <2>1, <2>2, <2>3, <2>4 DEF UnderWay, Same
<1>7. NewestStaysAtHand
  <2> SUFFICES ASSUME rotates, NEW s \in Codes, AtHand(s)
      PROVE AtHand(s)' \/ Displaces(r, s)
    BY DEF NewestStaysAtHand
  <2>0. pc[r] = "answered" /\ pc'[r] = "idle"
    BY <1>a, <1>b DEF Gone
  <2>1. CASE IsCookie(set["refresh"])
    <3>1. set["refresh"].token.serial = latest[set["refresh"].token.session]
      BY <1>u, <2>1 DEF NewestUnderWay, UnderWay
    <3>2. CASE set["refresh"].token.session = s
      BY <1>0, <1>a, <1>j, <2>1, <3>1, <3>2 DEF AtHand
    <3>3. CASE set["refresh"].token.session # s
      BY <2>0, <2>1, <3>3 DEF Displaces, IsCookie
    <3> QED
      BY <3>2, <3>3
  <2>2. CASE set["refresh"] = None
    BY <2>0, <2>2, NoneAssumption DEF Displaces, IsCookie
  <2>3. CASE set["refresh"] = Untouched
    <3>1. ~IsCookie(set["refresh"])
      BY <2>3 DEF IsCookie
    <3>2. \A q \in Slots : Undelivered(q)' = Undelivered(q)
      BY <1>u, <3>1
    <3> QED
      BY <1>0, <1>a, <1>j, <2>3, <3>2 DEF AtHand
  <2> QED
    BY <1>0, <1>d, <2>1, <2>2, <2>3
<1>8. SpentStatesGone'
  BY <1>a DEF SpentStatesGone
<1> QED
  BY <1>1, <1>2, <1>3, <1>4, <1>5, <1>6, <1>7, <1>8

-----------------------------------------------------------------------------
\* The steps of a request between the two.

\* An answer without cookies to a request without a token.
LEMMA QuietAnswerKeepsInvariant ==
    ASSUME IInv, NEW r \in Slots, pc[r] \in {"received", "exchanging", "refreshing"},
           NEW st \in {200, 302, 303, 401, 403, 502},
           NEW set \in [Names -> SetCookie], Paired(set), \A n \in Names : ~IsCookie(set[n]),
           st \in {303, 502} => \A n \in Names : set[n] = None,
           Answer(r, st, set), SpentStatesGone',
           states' \in [Logins -> 0 .. MaxTime \cup {None}], discovered' \in BOOLEAN,
           UNCHANGED <<now, jar, logins, keycloak, sent, history>>
    PROVE  IInv' /\ NewestStaysAtHand
<1>1. token[r] = None /\ forfeited \subseteq redeemed /\ signedIn \subseteq redeemed
  BY TypedRequest, TypedGateway DEF SlotShape
<1> QED
  BY <1>1, AnswerKeepsInvariant DEF history

LEMMA FetchStateKeepsInvariant ==
    ASSUME IInv, NEW r \in Slots, FetchState(r)
    PROVE  IInv' /\ NewestStaysAtHand
<1> USE DEF IInv
<1> DEFINE l == request[r].code[1]
           old == StateExpired(l)
<1>1. /\ pc[r] = "received" /\ request[r].kind = "callback"
      /\ states' = IF old THEN [states EXCEPT ![l] = None] ELSE states
      /\ UNCHANGED <<now, jar, discovered, logins, keycloak, sent, history>>
  BY DEF FetchState, DeleteState
<1>2. \/ states[l] # None /\ ~old /\ Advance(r, "exchanging") /\ UNCHANGED <<request, token, answer>>
      \/ Answer(r, 401, Kept)
  BY DEF FetchState
<1>3. CASE states[l] # None /\ ~old /\ Advance(r, "exchanging") /\ UNCHANGED <<request, token, answer>>
  BY <1>1, <1>3, AdvanceKeepsInvariant DEF gateway
<1>4. CASE Answer(r, 401, Kept)
  <2>1. states' \in [Logins -> 0 .. MaxTime \cup {None}]
    BY <1>1 DEF TypeOK
  <2>2. ASSUME NEW c \in signedIn PROVE states'[c[1]] = None
    <3>1. states[c[1]] = None /\ c[1] \in Logins
      BY DEF SpentStatesGone, TypeOK
    <3> QED
      BY <1>1, <3>1 DEF TypeOK
  <2>3. SpentStatesGone'
    BY <1>1, <2>2 DEF SpentStatesGone, history
  <2>4. discovered' \in BOOLEAN
    BY <1>1 DEF TypeOK
  <2> QED
    BY <1>1, <1>4, <2>1, <2>3, <2>4, KeptIsQuiet, QuietAnswerKeepsInvariant
<1> QED
  BY <1>2, <1>3, <1>4

LEMMA ExchangeKeepsInvariant ==
    ASSUME IInv, NEW r \in Slots, Exchange(r)
    PROVE  IInv' /\ NewestStaysAtHand
<1> USE DEF IInv, TokensInv
<1> DEFINE c == request[r].code
           t(renewable) == [session |-> c, serial |-> 1, expires |-> now + AccessLife,
                            renewable |-> renewable]
<1>1. /\ pc[r] = "exchanging" /\ request[r].kind = "callback"
      /\ UNCHANGED <<now, jar, states, logins, issued, rotates, sent, history>>
  BY DEF Exchange, SlotShape
<1>2. ASSUME c \notin redeemed, redeemed' = redeemed \cup {c},
             latest' = [latest EXCEPT ![c] = 1],
             discovered' = TRUE, Advance(r, "exchanged"),
             NEW renewable \in BOOLEAN, token' = [token EXCEPT ![r] = t(renewable)],
             UNCHANGED <<request, answer>>
      PROVE  IInv' /\ NewestStaysAtHand
  <2> DEFINE u == t(renewable)
  <2>1. c \in issued /\ c \in Codes
    BY <1>1 DEF SlotShape, TypeOK, Codes
  <2>2. u \in Token /\ u.session = c /\ u.serial = 1
    BY <2>1, LivesAssumption DEF Token, TypeOK
  <2>3. redeemed' \subseteq issued
    BY <1>2, <2>1 DEF TypeOK
  <2>4. /\ latest' = [latest EXCEPT ![u.session] = u.serial] /\ u.serial # 0
        /\ u.session \notin redeemed /\ redeemed' = redeemed \cup {u.session}
        /\ u.session \in redeemed' /\ discovered' \in BOOLEAN
    BY <1>2, <2>2
  <2>5. UNCHANGED <<now, jar, states, logins, issued, rotates, request, sent, history>>
    BY <1>1, <1>2
  <2>6. token' = [token EXCEPT ![r] = u]
    BY <1>2
  <2> HIDE DEF IInv, TokensInv, c, u
  <2> QED
    BY <1>1, <1>2, <2>2, <2>3, <2>4, <2>5, <2>6, GrantKeepsInvariant
<1>3. CASE Answer(r, 401, Kept) /\ UNCHANGED <<redeemed, latest, discovered>>
  <2>1. SpentStatesGone' /\ states' \in [Logins -> 0 .. MaxTime \cup {None}] /\ discovered' \in BOOLEAN
    BY <1>1, <1>3 DEF SpentStatesGone, TypeOK, history
  <2> QED
    BY <1>1, <1>3, <2>1, KeptIsQuiet, QuietAnswerKeepsInvariant DEF keycloak
<1> QED
  BY <1>2, <1>3 DEF Exchange, Discover

LEMMA CompleteKeepsInvariant ==
    ASSUME IInv, NEW r \in Slots, Complete(r)
    PROVE  IInv' /\ NewestStaysAtHand
<1> USE DEF IInv, TokensInv
<1> DEFINE t == token[r]
<1>1. /\ pc[r] = "exchanged" /\ request[r].kind = "callback"
      /\ states' = [states EXCEPT ![t.session[1]] = None]
      /\ Answer(r, 302, LoginCookies(t))
      /\ signedIn' = signedIn \cup {t.session}
      /\ UNCHANGED <<now, jar, discovered, logins, keycloak, sent,
                     signedOut, overtaken, restored, forfeited>>
  BY DEF Complete, SlotShape, DeleteState
<1>2. t # None /\ t \in Token /\ t.session \in redeemed
  BY <1>1 DEF SlotShape, TokensKnown, Known, TypeOK
<1>3. /\ LoginCookies(t) \in [Names -> SetCookie] /\ Paired(LoginCookies(t))
      /\ \A n \in Names : /\ LoginCookies(t)[n] # None
                         /\ IsCookie(LoginCookies(t)[n]) => LoginCookies(t)[n].token = t
      /\ t.renewable => IsCookie(LoginCookies(t)["refresh"])
  BY <1>2, LoginCookiesArePaired DEF TypeOK
<1>4. /\ states' \in [Logins -> 0 .. MaxTime \cup {None}] /\ signedIn' \subseteq redeemed
      /\ forfeited \subseteq redeemed /\ discovered' \in BOOLEAN
  BY <1>1, <1>2 DEF TypeOK
<1>5. ASSUME NEW c \in signedIn' PROVE states'[c[1]] = None
  <2>1. c[1] \in Logins
    BY <1>4 DEF TypeOK
  <2>2. c = t.session \/ c \in signedIn
    BY <1>1
  <2> QED
    BY <1>1, <2>1, <2>2 DEF SpentStatesGone, TypeOK
<1>6. SpentStatesGone'
  BY <1>5 DEF SpentStatesGone
<1>7. "refresh" \in Names
  BY DEF Names
<1>8. /\ discovered' \in BOOLEAN /\ forfeited \subseteq forfeited' /\ forfeited' \subseteq redeemed
      /\ Answer(r, 302, LoginCookies(token[r]))
      /\ LoginCookies(token[r]) \in [Names -> SetCookie] /\ Paired(LoginCookies(token[r]))
  BY <1>1, <1>3, <1>4
<1> HIDE DEF IInv, TokensInv
<1>9. ASSUME NEW n \in Names, IsCookie(LoginCookies(token[r])[n])
      PROVE  token[r] # None /\ LoginCookies(token[r])[n].token = token[r]
  BY <1>2, <1>3, <1>9 DEF IsCookie
<1>10. token[r].renewable
           => IsCookie(LoginCookies(token[r])["refresh"]) \/ token[r].session \in forfeited'
  BY <1>3
<1> QED
  BY <1>1, <1>4, <1>6, <1>8, <1>9, <1>10, AnswerKeepsInvariant

\* Reject and Withdraw: a token is given up.
LEMMA GivingUpKeepsInvariant ==
    ASSUME IInv, NEW r \in Slots, pc[r] \in {"exchanged", "refreshed"},
           NEW set \in [Names -> SetCookie], Paired(set), \A n \in Names : ~IsCookie(set[n]),
           Answer(r, 401, set),
           forfeited' = forfeited \cup {token[r].session},
           UNCHANGED <<now, jar, gateway, logins, keycloak, sent,
                       signedIn, signedOut, overtaken, restored>>
    PROVE  IInv' /\ NewestStaysAtHand
<1> USE DEF IInv, TokensInv, gateway
<1>1. token[r] # None /\ token[r].session \in redeemed
  BY DEF SlotShape, TokensKnown, Known
<1>2. /\ states' \in [Logins -> 0 .. MaxTime \cup {None}] /\ discovered' \in BOOLEAN
      /\ signedIn' \subseteq redeemed /\ forfeited' \subseteq redeemed
      /\ SpentStatesGone'
  BY <1>1 DEF TypeOK, SpentStatesGone
<1> HIDE DEF IInv, TokensInv
<1> QED
  BY <1>1, <1>2, AnswerKeepsInvariant

LEMMA RejectKeepsInvariant ==
    ASSUME IInv, NEW r \in Slots, Reject(r)
    PROVE  IInv' /\ NewestStaysAtHand
  BY GivingUpKeepsInvariant, KeptIsQuiet DEF Reject

LEMMA WithdrawKeepsInvariant ==
    ASSUME IInv, NEW r \in Slots, Withdraw(r)
    PROVE  IInv' /\ NewestStaysAtHand
<1>1. answer[r].set \in [Names -> SetCookie] /\ ~IsCookie(answer[r].set["id"])
  BY DEF Withdraw, IInv, TypeOK, SlotShape
<1>2. \A n \in Names \ {"access", "refresh"} : n = "id"
  BY DEF Names
<1> QED
  BY <1>1, <1>2, ClearedIsQuiet, GivingUpKeepsInvariant DEF Withdraw

LEMMA ProceedKeepsInvariant ==
    ASSUME IInv, NEW r \in Slots, Proceed(r)
    PROVE  IInv' /\ NewestStaysAtHand
<1> USE DEF IInv, TokensInv, gateway, history
<1>1. /\ pc[r] = "refreshed" /\ Answer(r, 200, answer[r].set)
      /\ UNCHANGED <<now, jar, gateway, logins, keycloak, sent, history>>
  BY DEF Proceed
<1>2. /\ answer[r].set \in [Names -> SetCookie] /\ Paired(answer[r].set)
      /\ token[r] # None /\ IsCookie(answer[r].set["refresh"])
      /\ request[r].kind = "call"
  BY <1>1 DEF SlotShape, TypeOK
<1>3. ASSUME NEW n \in Names, IsCookie(answer[r].set[n])
      PROVE  answer[r].set[n].token = token[r]
  <2>1. n \in {"access", "refresh"}
    BY <1>1, <1>3 DEF SlotShape, Names
  <2>2. answer[r].set["refresh"].token = token[r]
    BY <1>1, <1>2 DEF SlotShape
  <2>3. CASE n = "access"
    BY <1>2, <1>3, <2>2, <2>3 DEF Paired, IsCookie
  <2> QED
    BY <2>1, <2>2, <2>3
<1>4. /\ states' \in [Logins -> 0 .. MaxTime \cup {None}] /\ discovered' \in BOOLEAN
      /\ signedIn' \subseteq redeemed /\ forfeited \subseteq redeemed
      /\ SpentStatesGone'
  BY <1>1, TypedGateway DEF SpentStatesGone
<1> HIDE DEF IInv, TokensInv
<1> QED
  BY <1>1, <1>2, <1>3, <1>4, AnswerKeepsInvariant

LEMMA AuthenticateKeepsInvariant ==
    ASSUME IInv, NEW r \in Slots, Authenticate(r)
    PROVE  IInv' /\ NewestStaysAtHand
<1>1. /\ pc[r] = "received" /\ request[r].kind = "call"
      /\ UNCHANGED <<now, jar, gateway, logins, keycloak, sent, history>>
  BY DEF Authenticate
<1>2. \/ \E st \in {200, 401} : Answer(r, st, Kept)
      \/ Answer(r, 401, Cleared(Kept, {"access", "refresh"}))
      \/ /\ request[r].cookies["refresh"] # None /\ Advance(r, "refreshing")
         /\ UNCHANGED <<request, token, answer>>
  BY DEF Authenticate
<1>3. /\ states' \in [Logins -> 0 .. MaxTime \cup {None}] /\ discovered' \in BOOLEAN
      /\ SpentStatesGone'
  BY <1>1, TypedGateway DEF SpentStatesGone, gateway, history
<1> QED
  BY <1>1, <1>2, <1>3, KeptIsQuiet, ClearedIsQuiet, QuietAnswerKeepsInvariant,
     AdvanceKeepsInvariant

LEMMA AuthenticateBearerKeepsInvariant ==
    ASSUME IInv, NEW r \in Slots, AuthenticateBearer(r)
    PROVE  IInv' /\ NewestStaysAtHand
<1>1. /\ states' \in [Logins -> 0 .. MaxTime \cup {None}] /\ discovered' \in BOOLEAN
      /\ SpentStatesGone'
  BY TypedGateway DEF AuthenticateBearer, SpentStatesGone, gateway, history
<1> QED
  BY <1>1, KeptIsQuiet, QuietAnswerKeepsInvariant DEF AuthenticateBearer

LEMMA RefuseRefreshKeepsInvariant ==
    ASSUME IInv, NEW r \in Slots, RefuseRefresh(r)
    PROVE  IInv' /\ NewestStaysAtHand
<1>1. /\ states' \in [Logins -> 0 .. MaxTime \cup {None}] /\ discovered' \in BOOLEAN
      /\ SpentStatesGone' /\ request[r].kind = "call"
  BY TypedGateway, TypedRequest DEF RefuseRefresh, SpentStatesGone, SlotShape, gateway, history
<1> QED
  BY <1>1, KeptIsQuiet, ClearedIsQuiet, QuietAnswerKeepsInvariant DEF RefuseRefresh

LEMMA SignOffKeepsInvariant ==
    ASSUME IInv, NEW r \in Slots, SignOff(r)
    PROVE  IInv' /\ NewestStaysAtHand
<1>1. /\ states' \in [Logins -> 0 .. MaxTime \cup {None}] /\ discovered' \in BOOLEAN
      /\ SpentStatesGone'
  BY TypedGateway DEF SignOff, Discover, NoDocument, SpentStatesGone, history
<1>2. \A n \in Names : Cleared(Kept, Names)[n] = None
  BY DEF Cleared
<1> QED
  BY <1>1, <1>2, KeptIsQuiet, ClearedIsQuiet, QuietAnswerKeepsInvariant DEF SignOff

LEMMA RefreshKeepsInvariant ==
    ASSUME IInv, NEW r \in Slots, Refresh(r)
    PROVE  IInv' /\ NewestStaysAtHand
<1> USE DEF IInv, TokensInv
<1> DEFINE b == request[r].cookies["refresh"]
           s == b.session
           t == [session |-> s, serial |-> latest[s] + 1, expires |-> now + AccessLife,
                 renewable |-> TRUE]
<1>1. /\ pc[r] = "refreshing" /\ Accepts(b)
      /\ latest' = [latest EXCEPT ![s] = latest[s] + 1]
      /\ discovered' = TRUE /\ Advance(r, "refreshed")
      /\ token' = [token EXCEPT ![r] = t]
      /\ answer' = [answer EXCEPT ![r] = [status |-> 0, set |-> TokenCookies(t)]]
      /\ UNCHANGED <<now, jar, states, logins, issued, redeemed, rotates,
                     request, sent, history>>
  BY DEF Refresh, Discover
<1>2. b # None /\ s \in redeemed /\ s \in Codes
  <2>1. b # None /\ "refresh" \in Names
    BY <1>1, TypedRequest DEF SlotShape, Names
  <2> QED
    BY <2>1, TypedGateway DEF TokensKnown, Known
<1>3. latest[s] \in Nat /\ now \in Nat /\ AccessLife \in Nat
  BY <1>2, LivesAssumption DEF TypeOK
<1>4. t \in Token /\ t.session = s /\ t.serial = latest[s] + 1 /\ t.serial # 0 /\ t.renewable
  BY <1>2, <1>3 DEF Token
<1>5. redeemed \subseteq issued
  BY DEF TypeOK
<1> HIDE DEF IInv, TokensInv, t, b
<1> QED
  BY <1>1, <1>2, <1>4, <1>5, GrantKeepsInvariant DEF b

-----------------------------------------------------------------------------
LEMMA InitEstablishesInvariant ==
    ASSUME Init
    PROVE  IInv
<1> USE DEF Init
<1>1. /\ \A n \in Names : jar[n] = None /\ NoCookies[n] = None
      /\ \A r \in Slots : /\ pc[r] = "idle" /\ request[r] = NoRequest
                          /\ token[r] = None /\ answer[r] = NoAnswer
  BY DEF NoCookies
<1>2. {"access", "refresh", "id"} \subseteq Names
  BY DEF Names
<1>3. \A r \in Slots : /\ answer[r].set = Kept /\ request[r].cookies = NoCookies
                      /\ request[r].kind = "none"
  BY <1>1 DEF NoAnswer, NoRequest
<1>4. TypeOK
  <2>1. NoRequest \in [kind : {"none", "call", "bearer", "logout", "callback"},
                       cookies : [Names -> Token \cup {None}], code : issued \cup {None}]
    BY DEF NoRequest, NoCookies
  <2>2. NoAnswer \in [status : {0, 200, 302, 303, 401, 403, 502}, set : [Names -> SetCookie]]
    BY KeptIsQuiet DEF NoAnswer
  <2>3. request \in [Slots -> [kind : {"none", "call", "bearer", "logout", "callback"},
                              cookies : [Names -> Token \cup {None}],
                              code : issued \cup {None}]]
    BY <2>1
  <2>4. answer \in [Slots -> [status : {0, 200, 302, 303, 401, 403, 502}, set : [Names -> SetCookie]]]
    BY <2>2
  <2>5. jar \in [Names -> Cookies \cup {None}] /\ token \in [Slots -> Token \cup {None}]
    BY DEF NoCookies
  <2>6. now \in 0 .. MaxTime /\ sent \in 0 .. MaxRequests
    BY BoundsAssumption
  <2>7. /\ states \in [Logins -> 0 .. MaxTime \cup {None}] /\ latest \in [Codes -> Nat]
        /\ pc \in [Slots -> {"idle", "received", "exchanging", "exchanged",
                            "refreshing", "refreshed", "answered"}]
    OBVIOUS
  <2> QED
    BY <2>3, <2>4, <2>5, <2>6, <2>7 DEF TypeOK
<1>5. \A r \in Slots : SlotShape(r)
  BY <1>1, <1>2, <1>3, KeptIsQuiet DEF SlotShape
<1>6. \A r \in Slots : Undelivered(r) = {}
  BY <1>1, <1>2, <1>3, KeptIsQuiet DEF Undelivered
<1>7. TokensKnown
  BY <1>1, <1>3, KeptIsQuiet DEF TokensKnown
<1>8. TokensPaired
  BY <1>1, <1>2 DEF TokensPaired
<1>9. SignedOutStaysOut
  BY <1>1, <1>3, KeptIsQuiet DEF SignedOutStaysOut, Clean
<1>10. NewestUnderWay
  BY <1>6 DEF NewestUnderWay
<1>11. SpentStatesGone
  BY DEF SpentStatesGone
<1> QED
  BY <1>4, <1>5, <1>7, <1>8, <1>9, <1>10, <1>11 DEF IInv, TokensInv

LEMMA StutterKeepsInvariant ==
    ASSUME IInv, UNCHANGED vars
    PROVE  IInv' /\ NewestStaysAtHand
<1> USE DEF IInv, vars, gateway, logins, keycloak, slot, history
<1>1. TypeOK'
  BY DEF TypeOK
<1>2. \A r \in Slots : SlotShape(r)'
  BY DEF SlotShape, SignsOff
<1>3. TokensInv' /\ NewestStaysAtHand
  BY FrameKeepsTokens
<1>4. SpentStatesGone'
  BY DEF SpentStatesGone
<1> QED
  BY <1>1, <1>2, <1>3, <1>4

LEMMA NextKeepsInvariant ==
    ASSUME IInv, [Next]_vars
    PROVE  IInv' /\ NewestStaysAtHand
<1>1. ASSUME NEW r \in Slots, Call(r) \/ Bearer(r) \/ Logout(r) PROVE IInv' /\ NewestStaysAtHand
  BY <1>1, SendKeepsInvariant DEF Call, Bearer, Logout
<1>2. ASSUME NEW r \in Slots, Return(r) PROVE IInv' /\ NewestStaysAtHand
  <2>1. PICK c \in issued : Send(r, "callback", c)
    BY <1>2 DEF Return
  <2>2. c # None
    BY NoneAssumption DEF IInv, TypeOK, Codes
  <2> QED
    BY <2>1, <2>2, SendKeepsInvariant
<1>3. ASSUME NEW r \in Slots, Handle(r) PROVE IInv' /\ NewestStaysAtHand
  BY <1>3, FetchStateKeepsInvariant, ExchangeKeepsInvariant, CompleteKeepsInvariant,
     RejectKeepsInvariant, AuthenticateKeepsInvariant, AuthenticateBearerKeepsInvariant,
     RefreshKeepsInvariant, RefuseRefreshKeepsInvariant, ProceedKeepsInvariant,
     WithdrawKeepsInvariant, SignOffKeepsInvariant, DeliverKeepsInvariant,
     LoseKeepsInvariant DEF Handle
<1>4. CASE Done \/ UNCHANGED vars
  BY <1>4, StutterKeepsInvariant DEF Done
<1> QED
  BY <1>1, <1>2, <1>3, <1>4, LoginKeepsInvariant, AuthorizeKeepsInvariant,
     RestartKeepsInvariant, TickKeepsInvariant DEF Next

(* Cookies, answers and Keycloak's tokens agree in every behaviour: what   *)
(* is under way to the browser is the newest token of its session.         *)
THEOREM SessionInvariant == Spec => []IInv
  BY InitEstablishesInvariant, NextKeepsInvariant, PTL DEF Spec

(* Every variable of the session keeps its type.                           *)
THEOREM SessionTypeCorrect == Spec => []TypeOK
<1>1. IInv => TypeOK
  BY DEF IInv
<1> QED
  BY <1>1, SessionInvariant, PTL

(* setTokenCookies and clearAuthCookies change both token cookies, so the  *)
(* browser has the access token of one response of Keycloak with the       *)
(* refresh token of another only after a login without a refresh token.    *)
THEOREM CookiesArePaired == Spec => []TokensPaired
<1>1. IInv => TokensPaired
  BY DEF IInv, TokensInv
<1> QED
  BY <1>1, SessionInvariant, PTL

(* However many requests refresh at once and in whatever order they are    *)
(* answered, the newest refresh token of a session stays in the browser or *)
(* on its way there, until its answer is lost or refused, its cookie runs  *)
(* out, an answer clears it, or another session's takes its place.         *)
THEOREM NewestTokenStaysAtHand == Spec => NewestTokenKept
<1>1. IInv /\ [Next]_vars => [NewestStaysAtHand]_vars
  BY NextKeepsInvariant
<1>2. [][NewestStaysAtHand]_vars => NewestTokenKept
  BY DEF NewestTokenKept, NewestStaysAtHand
<1> QED
  BY <1>1, <1>2, SessionInvariant, PTL DEF Spec

(* After a logout only a request it overtook can bring cookies back.       *)
THEOREM LogoutIsFinal == Spec => []LogoutHolds
<1>1. IInv => LogoutHolds
  <2> SUFFICES ASSUME IInv, ~restored PROVE Sessions(Held) \cap signedOut = {}
    BY DEF LogoutHolds
  <2>1. \A n \in Names : Held[n] = IF jar[n] = None THEN None ELSE jar[n].token
    BY DEF Held
  <2> QED
    BY <2>1 DEF IInv, TokensInv, SignedOutStaysOut, Sessions
<1> QED
  BY <1>1, SessionInvariant, PTL

(* No callback passes with a state that has ended in a login.              *)
THEOREM SpentStatesAreRefused == Spec => SpentStateRefused
<1> DEFINE Refused == \A r \in Slots :
               pc[r] = "received" /\ pc'[r] = "exchanging"
                   => \A c \in signedIn : c[1] # request[r].code[1]
<1>1. ASSUME IInv, Next PROVE Refused
  <2> SUFFICES ASSUME NEW r \in Slots, pc[r] = "received", pc'[r] = "exchanging"
      PROVE \A c \in signedIn : c[1] # request[r].code[1]
    OBVIOUS
  <2>1. pc \in [Slots -> {"idle", "received", "exchanging", "exchanged",
                         "refreshing", "refreshed", "answered"}]
    BY <1>1 DEF IInv, TypeOK
  <2>2. FetchState(r)
    <3>1. ASSUME NEW q \in Slots, NEW label, pc' = [pc EXCEPT ![q] = label]
          PROVE  q = r /\ label = "exchanging"
      BY <2>1, <3>1
    <3>2. ASSUME NEW q \in Slots, Call(q) \/ Bearer(q) \/ Logout(q) \/ Return(q) PROVE FALSE
      BY <3>1, <3>2 DEF Call, Bearer, Logout, Return, Send, Advance
    <3>3. ASSUME NEW q \in Slots, Handle(q), ~FetchState(q) PROVE FALSE
      <4>1. ASSUME NEW st, NEW set, Answer(q, st, set) PROVE FALSE
        BY <3>1, <4>1 DEF Answer, Advance
      <4>2. ~Advance(q, "exchanged") /\ ~Advance(q, "refreshed") /\ ~Advance(q, "refreshing")
            /\ ~Finish(q)
        BY <3>1 DEF Advance, Finish
      <4> QED
        BY <3>3, <4>1, <4>2 DEF Handle, Exchange, Complete, Reject, Authenticate,
           AuthenticateBearer, Refresh, RefuseRefresh, Proceed, Withdraw, SignOff, Deliver, Lose
    <3>4. ASSUME NEW q \in Slots, FetchState(q) PROVE q = r
      BY <3>1, <3>4 DEF FetchState, Answer, Advance
    <3>5. pc' # pc
      OBVIOUS
    <3>6. ~Restart
      BY DEF Restart
    <3> QED
      BY <1>1, <3>2, <3>3, <3>4, <3>5, <3>6
      DEF Next, Login, Authorize, Tick, Done, slot, vars
  <2>3. ~Answer(r, 401, Kept)
    BY <2>1 DEF Answer, Advance
  <2>4. states[request[r].code[1]] # None
    BY <2>2, <2>3 DEF FetchState
  <2> QED
    BY <1>1, <2>4 DEF IInv, SpentStatesGone
<1>2. IInv /\ [Next]_vars => [Refused]_vars
  BY <1>1
<1> QED
  BY <1>2, SessionInvariant, PTL DEF Spec, SpentStateRefused
=============================================================================
