---------------------------- MODULE OAuthGateway ----------------------------
(***************************************************************************)
(* The OAuth side of the gateway: the handlers of /oauth/authorize,        *)
(* /oauth/token and the bearer check of /mcp, the two mutexes they share,  *)
(* the authorization codes (in memory), the oauth_tokens table (on disk)   *)
(* and the clients, who only ever present what they were given.            *)
(*                                                                         *)
(* A task is one HTTP request being served.  Its steps are the stretches   *)
(* of handler code between two points where another task, the clock or a   *)
(* crash can get in: waiting for a mutex, the sqlite transaction, the      *)
(* check of the clock after the issuer is unlocked, the upstream call and  *)
(* the reply on its way to the client.                                     *)
(*                                                                         *)
(* A 32-byte random tag (authorization code, pair id, token) is the next   *)
(* number of a counter that is never reset: distinctness is all the code   *)
(* relies on.  0 stands for a tag nobody was ever given.                   *)
(***************************************************************************)
EXTENDS Naturals, FiniteSets

CONSTANTS
  Tasks,            \* requests that may be in flight at the same time
  Redirects,        \* redirect URIs clients use
  NoRedirect,       \* no redirect_uri in the request
  Verifiers,        \* PKCE verifiers; a verifier also stands for its S256 hash
  NoVerifier,       \* no code_challenge, or no code_verifier
  PkceRequired,     \* config.oauth.pkce_required
  AccessLifetime, RefreshLifetime, CodeLifetime,
  MaxLogins,        \* bound: authorization codes issued in a behaviour
  MaxTags,          \* bound: tags drawn in a behaviour
  MaxTime           \* bound: ticks of the clock

ASSUME NullAssumption == NoVerifier \notin Verifiers /\ NoRedirect \notin Redirects
ASSUME LifetimeAssumption ==
  /\ PkceRequired \in BOOLEAN
  /\ AccessLifetime \in Nat
  /\ RefreshLifetime \in Nat
  /\ CodeLifetime \in Nat
  /\ MaxLogins \in Nat
  /\ MaxTags \in Nat
  /\ MaxTime \in Nat

VARIABLES
  now,          \* the wall clock
  nextTag,      \* the next tag the random generators return
  codes,        \* AppState.authorizer: the codes of the AuthMap
  rows,         \* the oauth_tokens table
  locks,        \* who holds the authorizer and the issuer mutex
  pc,           \* where each task is
  req,          \* the request each task serves
  pending,      \* the pair a task is about to write (at most one)
  grant,        \* the row a bearer check has read (at most one)
  out,          \* the tags of the reply a task is about to send
  knownCodes,   \* codes delivered to clients
  knownTokens,  \* tokens delivered to clients
  consents,     \* history: what the owner agreed to, by code
  lineage       \* history: every pair committed, its login and its parent

vars == <<now, nextTag, codes, rows, locks, pc, req, pending, grant, out,
          knownCodes, knownTokens, consents, lineage>>

-----------------------------------------------------------------------------
Tag == 0 .. MaxTags
Time == 0 .. (MaxTime + AccessLifetime + RefreshLifetime + CodeLifetime)
Challenge == Verifiers \cup {NoVerifier}

(* The three tags of one issue(): usage, usage + 1 and usage + 2.          *)
AccessTag(p) == p + 1
RefreshTag(p) == p + 2

(* Mutant of TagsPerPair: the refresh token shares a tag with the next pair. *)
TwoTagsPerPair == 2

TagsPerPair == 3

Lock == {"authorizer", "issuer"}

(* A request: kind is the handler and grant type; tag the code or token it *)
(* carries; verifier the PKCE challenge (authorize) or verifier; authentic *)
(* whether the client secret or the S256 method was right; dead records,   *)
(* for the properties, that tag was no valid access token on arrival.      *)
Request ==
  [kind : {"none", "authorize", "exchange", "refresh", "mcp"}, tag : Tag,
   redirect : Redirects \cup {NoRedirect}, verifier : Challenge,
   authentic : BOOLEAN, dead : BOOLEAN]

NoRequest ==
  [kind |-> "none", tag |-> 0, redirect |-> NoRedirect,
   verifier |-> NoVerifier, authentic |-> FALSE, dead |-> FALSE]

Code == [code : Tag, redirect : Redirects, challenge : Challenge, until : Time]

(* login is history: the code the pair descends from; no column holds it.  *)
Row == [token : Tag, pair : Tag, kind : {"access", "refresh"},
        until : Time, redirect : Redirects, login : Tag]

PendingPair == [pair : Tag, accessUntil : Time, refreshUntil : Time,
                redirect : Redirects, login : Tag, parent : Tag, old : Tag]

Location == {"idle", "awaitFirst", "awaitSecond", "flow", "commit",
             "decide", "forward", "reply"}

-----------------------------------------------------------------------------
(* Mutant of FirstLock: the token endpoint takes the issuer first.         *)
IssuerFirst(kind) == IF kind = "authorize" THEN "authorizer" ELSE "issuer"

(* The mutexes.  Both OAuth handlers take authorizer then issuer and hold  *)
(* them to the end; the bearer check takes the issuer alone.               *)
FirstLock(kind) == IF kind = "mcp" THEN "issuer" ELSE "authorizer"
SecondLock(kind) == IF FirstLock(kind) = "authorizer" THEN "issuer"
                                                      ELSE "authorizer"
LastWait(kind) == IF kind = "mcp" THEN "awaitFirst" ELSE "awaitSecond"

Released(t) == [l \in Lock |-> locks[l] \ {t}]

Goto(t, loc) == pc' = [pc EXCEPT ![t] = loc]

(* The handler leaves its locks behind and goes on to loc with this request *)
(* and these tags for the reply.                                            *)
Leave(t, loc, q, tags) ==
  /\ Goto(t, loc)
  /\ locks' = Released(t)
  /\ req' = [req EXCEPT ![t] = q]
  /\ pending' = [pending EXCEPT ![t] = {}]
  /\ grant' = [grant EXCEPT ![t] = {}]
  /\ out' = [out EXCEPT ![t] = tags]

(* A successful reply is on its way; an error reply carries nothing a      *)
(* client could use, so the request is over with it.                       *)
Succeed(t, tags) == Leave(t, "reply", req[t], tags)
Fail(t) == Leave(t, "idle", NoRequest, {})

-----------------------------------------------------------------------------
(* Arrival: everything a handler does before its first await.  A request   *)
(* that is answered right there changes nothing and is not modelled: rate  *)
(* limit (429), missing body or bad parameters (400, 401), login not       *)
(* configured (503), wrong owner credentials (401), no bearer token (401). *)

(* No row grants the bearer tag anything at this moment.                   *)
DeadBearer(tag) ==
  \A r \in rows : r.token = tag => r.kind = "refresh" \/ r.until <= now

Arrive(t, kind, tag, redirect, verifier, authentic) ==
  /\ pc[t] = "idle"
  /\ Goto(t, "awaitFirst")
  /\ req' = [req EXCEPT ![t] =
               [kind |-> kind, tag |-> tag, redirect |-> redirect,
                verifier |-> verifier, authentic |-> authentic,
                dead |-> kind = "mcp" /\ DeadBearer(tag)]]
  /\ UNCHANGED <<now, nextTag, codes, rows, locks, pending, grant, out,
                 knownCodes, knownTokens, consents, lineage>>

(* POST /oauth/authorize, admitted: the rate limiter let it through, the   *)
(* parameters are valid and the owner's credentials are right.  authentic  *)
(* says the challenge method is S256; without a challenge it is not read.  *)
AuthorizeAdmitted(challenge, s256) ==
  /\ PkceRequired => challenge # NoVerifier /\ s256
  /\ challenge = NoVerifier => s256

OauthAuthorizePost(t) ==
  \E redirect \in Redirects, challenge \in Challenge, s256 \in BOOLEAN :
    /\ AuthorizeAdmitted(challenge, s256)
    /\ Arrive(t, "authorize", 0, redirect, challenge, s256)

(* A client presents what it was given, a stale code or token as well as a *)
(* fresh one, and either token of a pair wherever a token is asked for.  A *)
(* tag nobody was given fares like a stale one.                            *)

(* POST /oauth/token with a code or a refresh token, past the rate limiter. *)
(* Without the client's secret nothing else in the request is looked at.    *)
OauthTokenExchange(t) ==
  \/ \E tag \in knownCodes, redirect \in Redirects \cup {NoRedirect},
        verifier \in Challenge :
       Arrive(t, "exchange", tag, redirect, verifier, TRUE)
  \/ Arrive(t, "exchange", 0, NoRedirect, NoVerifier, FALSE)

OauthTokenRefresh(t) ==
  \/ \E tag \in knownTokens :
       Arrive(t, "refresh", tag, NoRedirect, NoVerifier, TRUE)
  \/ Arrive(t, "refresh", 0, NoRedirect, NoVerifier, FALSE)

(* A request to /mcp that carries a bearer token.                          *)
McpReverseProxy(t) ==
  \E tag \in knownTokens :
    Arrive(t, "mcp", tag, NoRedirect, NoVerifier, TRUE)

-----------------------------------------------------------------------------
(* Waiting for the mutexes.                                                *)

AcquireFirst(t) ==
  LET l == FirstLock(req[t].kind) IN
  /\ pc[t] = "awaitFirst"
  /\ locks[l] = {}
  /\ locks' = [locks EXCEPT ![l] = {t}]
  /\ Goto(t, IF LastWait(req[t].kind) = "awaitFirst" THEN "flow"
                                                     ELSE "awaitSecond")
  /\ UNCHANGED <<now, nextTag, codes, rows, req, pending, grant, out,
                 knownCodes, knownTokens, consents, lineage>>

AcquireSecond(t) ==
  LET l == SecondLock(req[t].kind) IN
  /\ pc[t] = "awaitSecond"
  /\ locks[l] = {}
  /\ locks' = [locks EXCEPT ![l] = {t}]
  /\ Goto(t, "flow")
  /\ UNCHANGED <<now, nextTag, codes, rows, req, pending, grant, out,
                 knownCodes, knownTokens, consents, lineage>>

(* The client hangs up while the handler waits: its future is dropped at   *)
(* the await.  The flows themselves are never suspended once they run.     *)
Disconnect(t) ==
  /\ pc[t] \in {"awaitFirst", "awaitSecond", "forward"}
  /\ Fail(t)
  /\ UNCHANGED <<now, nextTag, codes, rows,
                 knownCodes, knownTokens, consents, lineage>>

-----------------------------------------------------------------------------
(* Bound: once MaxTags tags are drawn, or MaxLogins codes for a code, the  *)
(* generator fails: the path the code has for an error of tag(), a 500.    *)
TagsLeft(n) == nextTag + n <= MaxTags + 1
CodesLeft == TagsLeft(1) /\ Cardinality(consents) < MaxLogins

(* AuthorizationFlow::execute.  The PKCE extension refuses a challenge     *)
(* whose method is not S256; a good request puts a fresh code in the map.  *)

AuthorizationFlow(t) ==
  LET q == req[t] IN
  /\ pc[t] = "flow" /\ q.kind = "authorize"
  /\ q.verifier = NoVerifier \/ q.authentic
  /\ CodesLeft
  /\ nextTag' = nextTag + 1
  /\ codes' = codes \cup {[code |-> nextTag, redirect |-> q.redirect,
                           challenge |-> q.verifier,
                           until |-> now + CodeLifetime]}
  /\ consents' = consents \cup {[login |-> nextTag, redirect |-> q.redirect,
                                 challenge |-> q.verifier]}
  /\ Succeed(t, {nextTag})
  /\ UNCHANGED <<now, rows, knownCodes, knownTokens, lineage>>

AuthorizationRefused(t) ==
  /\ pc[t] = "flow" /\ req[t].kind = "authorize"
  /\ req[t].verifier # NoVerifier /\ ~req[t].authentic
  /\ Fail(t)
  /\ UNCHANGED <<now, nextTag, codes, rows,
                 knownCodes, knownTokens, consents, lineage>>

-----------------------------------------------------------------------------
(* AccessTokenFlow::execute.  The client is authenticated first; then the  *)
(* code is taken out of the map, whatever becomes of the request.          *)

(* Mutant of Extracted: the code is read and left in the map.              *)
CodeKept(c) == codes

Extracted(c) == codes \ {c}

CodeMatches(c, q) ==
  /\ c.redirect = q.redirect
  /\ ~(c.until < now)
  /\ c.challenge \in {NoVerifier, q.verifier}

(* Mutant of NewPair: the grant falls back on a default redirect URI.      *)
DefaultRedirectPair(redirect, login, parent, old) ==
  [pair |-> nextTag, accessUntil |-> now + AccessLifetime,
   refreshUntil |-> now + RefreshLifetime,
   redirect |-> CHOOSE r \in Redirects : TRUE,
   login |-> login, parent |-> parent, old |-> old]

(* grant_for_kind stamps both expiry times when issue() or refresh() is    *)
(* entered, before the transaction.                                        *)
NewPair(redirect, login, parent, old) ==
  [pair |-> nextTag, accessUntil |-> now + AccessLifetime,
   refreshUntil |-> now + RefreshLifetime, redirect |-> redirect,
   login |-> login, parent |-> parent, old |-> old]

DrawPair(t, p) ==
  /\ TagsLeft(TagsPerPair)
  /\ nextTag' = nextTag + TagsPerPair
  /\ pending' = [pending EXCEPT ![t] = {p}]
  /\ Goto(t, "commit")

AccessTokenFlow(t) ==
  /\ pc[t] = "flow" /\ req[t].kind = "exchange" /\ req[t].authentic
  /\ \E c \in codes :
       /\ c.code = req[t].tag
       /\ CodeMatches(c, req[t])
       /\ codes' = Extracted(c)
       /\ DrawPair(t, NewPair(c.redirect, c.code, 0, 0))
  /\ UNCHANGED <<now, rows, locks, req, grant, out,
                 knownCodes, knownTokens, consents, lineage>>

(* Right secret, but the code is unknown, expired, or bound to another     *)
(* redirect URI or verifier: 400 invalid_grant, and the code is burnt.     *)
AccessTokenRefused(t) ==
  /\ pc[t] = "flow" /\ req[t].kind = "exchange" /\ req[t].authentic
  /\ \A c \in codes : c.code = req[t].tag => ~CodeMatches(c, req[t])
  /\ codes' = {c \in codes : c.code # req[t].tag}
  /\ Fail(t)
  /\ UNCHANGED <<now, nextTag, rows,
                 knownCodes, knownTokens, consents, lineage>>

(* Wrong client id or secret (401), or a grant type that is neither of the *)
(* two (400): nothing is looked up.                                        *)
ClientRefused(t) ==
  /\ pc[t] = "flow" /\ req[t].kind \in {"exchange", "refresh"}
  /\ ~req[t].authentic
  /\ Fail(t)
  /\ UNCHANGED <<now, nextTag, codes, rows,
                 knownCodes, knownTokens, consents, lineage>>

(* The generator fails.  The code of an exchange is burnt by then.         *)
GeneratorFails(t) ==
  /\ pc[t] = "flow" /\ req[t].kind \in {"authorize", "exchange", "refresh"}
  /\ req[t].kind = "authorize" \/ req[t].authentic
  /\ IF req[t].kind = "authorize" THEN ~CodesLeft ELSE ~TagsLeft(TagsPerPair)
  /\ codes' = {c \in codes : req[t].kind # "exchange" \/ c.code # req[t].tag}
  /\ Fail(t)
  /\ UNCHANGED <<now, nextTag, rows,
                 knownCodes, knownTokens, consents, lineage>>

-----------------------------------------------------------------------------
(* Mutant of LoadToken: any row with the token will do.                    *)
LoadAnyToken(tag, kind) == {r \in rows : r.token = tag}

(* load_token: a row is returned only for the kind that was asked for.     *)
LoadToken(tag, kind) == {r \in rows : r.token = tag /\ r.kind = kind}

RefreshGrant(t) ==
  /\ pc[t] = "flow" /\ req[t].kind = "refresh" /\ req[t].authentic
  /\ \E r \in LoadToken(req[t].tag, "refresh") :
       /\ r.until > now
       /\ DrawPair(t, NewPair(r.redirect, r.login, r.pair, r.token))
  /\ UNCHANGED <<now, codes, rows, locks, req, grant, out,
                 knownCodes, knownTokens, consents, lineage>>

(* The refresh token is unknown, replaced or expired (400), or reading the *)
(* table fails (500).                                                      *)
RefreshRefused(t) ==
  /\ pc[t] = "flow" /\ req[t].kind = "refresh" /\ req[t].authentic
  /\ Fail(t)
  /\ UNCHANGED <<now, nextTag, codes, rows,
                 knownCodes, knownTokens, consents, lineage>>

(* The two rows of a pair.                                                 *)
PairRows(p) ==
  {[token |-> AccessTag(p.pair), pair |-> p.pair, kind |-> "access",
    until |-> p.accessUntil, redirect |-> p.redirect, login |-> p.login],
   [token |-> RefreshTag(p.pair), pair |-> p.pair, kind |-> "refresh",
    until |-> p.refreshUntil, redirect |-> p.redirect, login |-> p.login]}

(* Mutants of DeletePair: WHERE token = ? AND ..., one of the two rows.    *)
DeleteRefreshRow(pair) == {r \in rows : r.pair # pair \/ r.kind = "access"}
DeleteAccessRow(pair) == {r \in rows : r.pair # pair \/ r.kind = "refresh"}

(* DELETE FROM oauth_tokens WHERE pair_id = ?                              *)
DeletePair(pair) == {r \in rows : r.pair # pair}

Committed(p) ==
  [pair |-> p.pair, login |-> p.login, parent |-> p.parent,
   refreshUntil |-> p.refreshUntil]

(* issue_pair: both rows in one transaction, then the reply carries them.  *)
IssuePair(t) ==
  /\ pc[t] = "commit" /\ req[t].kind = "exchange"
  /\ \E p \in pending[t] :
       /\ rows' = rows \cup PairRows(p)
       /\ lineage' = lineage \cup {Committed(p)}
       /\ Succeed(t, {AccessTag(p.pair), RefreshTag(p.pair)})
  /\ UNCHANGED <<now, nextTag, codes,
                 knownCodes, knownTokens, consents>>

(* rotate_refresh_pair: find the old refresh token, delete its pair and    *)
(* insert the new one, in one transaction.                                 *)
RotateRefreshPair(t) ==
  /\ pc[t] = "commit" /\ req[t].kind = "refresh"
  /\ \E p \in pending[t] : \E old \in LoadToken(p.old, "refresh") :
       /\ rows' = DeletePair(old.pair) \cup PairRows(p)
       /\ lineage' = lineage \cup {Committed(p)}
       /\ Succeed(t, {AccessTag(p.pair), RefreshTag(p.pair)})
  /\ UNCHANGED <<now, nextTag, codes,
                 knownCodes, knownTokens, consents>>

(* Mutant of TransactionFails: the error of the transaction is swallowed.  *)
ErrorSwallowed(t) ==
  /\ pc[t] = "commit"
  /\ \E p \in pending[t] : Succeed(t, {AccessTag(p.pair), RefreshTag(p.pair)})
  /\ UNCHANGED <<now, nextTag, codes, rows,
                 knownCodes, knownTokens, consents, lineage>>

(* The database fails (locked, full, or the old refresh token is gone):    *)
(* the transaction is rolled back and the client gets a 500.  A failed     *)
(* exchange does not put its code back.                                    *)
TransactionFails(t) ==
  /\ pc[t] = "commit"
  /\ Fail(t)
  /\ UNCHANGED <<now, nextTag, codes, rows,
                 knownCodes, knownTokens, consents, lineage>>

-----------------------------------------------------------------------------
(* validate_access_token: the row is read under the issuer lock, its       *)
(* expiry is compared with the clock after the lock is released, and the   *)
(* request is forwarded without looking again.                             *)

RecoverToken(t) ==
  /\ pc[t] = "flow" /\ req[t].kind = "mcp"
  /\ \E r \in LoadToken(req[t].tag, "access") :
       /\ Goto(t, "decide")
       /\ locks' = Released(t)
       /\ grant' = [grant EXCEPT ![t] = {r}]
  /\ UNCHANGED <<now, nextTag, codes, rows, req, pending, out,
                 knownCodes, knownTokens, consents, lineage>>

(* Not found, or a database error, which the check treats alike: 401.      *)
RecoverTokenFails(t) ==
  /\ pc[t] = "flow" /\ req[t].kind = "mcp"
  /\ Fail(t)
  /\ UNCHANGED <<now, nextTag, codes, rows,
                 knownCodes, knownTokens, consents, lineage>>

ExpiryCheck(t) ==
  /\ pc[t] = "decide"
  /\ \E g \in grant[t] :
       \/ g.until <= now /\ Fail(t)
       \/ g.until > now /\ Leave(t, "forward", req[t], {})
  /\ UNCHANGED <<now, nextTag, codes, rows,
                 knownCodes, knownTokens, consents, lineage>>

(* The upstream answered or failed, or the host name was wrong (421).      *)
UpstreamDone(t) ==
  /\ pc[t] = "forward"
  /\ Fail(t)
  /\ UNCHANGED <<now, nextTag, codes, rows,
                 knownCodes, knownTokens, consents, lineage>>

-----------------------------------------------------------------------------
(* The reply reaches the client, or is lost on the way.                    *)
Reply(t) ==
  /\ pc[t] = "reply"
  /\ \/ /\ knownCodes' = knownCodes \cup
             {tag \in out[t] : req[t].kind = "authorize"}
        /\ knownTokens' = knownTokens \cup
             {tag \in out[t] : req[t].kind # "authorize"}
     \/ UNCHANGED <<knownCodes, knownTokens>>
  /\ Fail(t)
  /\ UNCHANGED <<now, nextTag, codes, rows, consents, lineage>>

(* DELETE ... WHERE expires_at < now.  No caller schedules it today.       *)
CleanupExpired ==
  /\ locks["issuer"] = {}
  /\ rows' = {r \in rows : ~(r.until < now)}
  /\ UNCHANGED <<now, nextTag, codes, locks, pc, req, pending, grant, out,
                 knownCodes, knownTokens, consents, lineage>>

Tick ==
  /\ now < MaxTime
  /\ now' = now + 1
  /\ UNCHANGED <<nextTag, codes, rows, locks, pc, req, pending, grant, out,
                 knownCodes, knownTokens, consents, lineage>>

(* The process dies and is started again: the AuthMap is new, the table    *)
(* holds what was committed, every connection is gone.                     *)
CrashRestart ==
  /\ codes' = {}
  /\ locks' = [l \in Lock |-> {}]
  /\ pc' = [t \in Tasks |-> "idle"]
  /\ req' = [t \in Tasks |-> NoRequest]
  /\ pending' = [t \in Tasks |-> {}]
  /\ grant' = [t \in Tasks |-> {}]
  /\ out' = [t \in Tasks |-> {}]
  /\ UNCHANGED <<now, nextTag, rows,
                 knownCodes, knownTokens, consents, lineage>>

-----------------------------------------------------------------------------
Init ==
  /\ now = 0
  /\ nextTag = 1
  /\ codes = {}
  /\ rows = {}
  /\ locks = [l \in Lock |-> {}]
  /\ pc = [t \in Tasks |-> "idle"]
  /\ req = [t \in Tasks |-> NoRequest]
  /\ pending = [t \in Tasks |-> {}]
  /\ grant = [t \in Tasks |-> {}]
  /\ out = [t \in Tasks |-> {}]
  /\ knownCodes = {}
  /\ knownTokens = {}
  /\ consents = {}
  /\ lineage = {}

Arrival(t) ==
  \/ OauthAuthorizePost(t)
  \/ OauthTokenExchange(t)
  \/ OauthTokenRefresh(t)
  \/ McpReverseProxy(t)

(* The handler's own steps: nothing but the scheduler delays them.         *)
HandlerStep(t) ==
  \/ AuthorizationFlow(t)
  \/ AuthorizationRefused(t)
  \/ AccessTokenFlow(t)
  \/ AccessTokenRefused(t)
  \/ ClientRefused(t)
  \/ GeneratorFails(t)
  \/ RefreshGrant(t)
  \/ RefreshRefused(t)
  \/ IssuePair(t)
  \/ RotateRefreshPair(t)
  \/ TransactionFails(t)
  \/ RecoverToken(t)
  \/ RecoverTokenFails(t)
  \/ ExpiryCheck(t)

Next ==
  \/ \E t \in Tasks :
       \/ Arrival(t)
       \/ AcquireFirst(t)
       \/ AcquireSecond(t)
       \/ Disconnect(t)
       \/ HandlerStep(t)
       \/ UpstreamDone(t)
       \/ Reply(t)
  \/ CleanupExpired
  \/ Tick
  \/ CrashRestart

Spec == Init /\ [][Next]_vars

-----------------------------------------------------------------------------
(* Every variable has its type and every tag in use has been drawn.        *)
TypeOK ==
  /\ now \in 0 .. MaxTime
  /\ nextTag \in 1 .. (MaxTags + 1)
  /\ codes \subseteq Code
  /\ rows \subseteq Row
  /\ locks \in [Lock -> SUBSET Tasks]
  /\ pc \in [Tasks -> Location]
  /\ req \in [Tasks -> Request]
  /\ pending \in [Tasks -> SUBSET PendingPair]
  /\ grant \in [Tasks -> SUBSET Row]
  /\ out \in [Tasks -> SUBSET Tag]
  /\ knownCodes \subseteq Tag
  /\ knownTokens \subseteq Tag
  /\ consents \subseteq [login : Tag, redirect : Redirects, challenge : Challenge]
  /\ lineage \subseteq [pair : Tag, login : Tag, parent : Tag, refreshUntil : Time]
  /\ \A r \in rows : r.token < nextTag
  /\ \A t \in Tasks : req[t].kind = "authorize" => req[t].redirect \in Redirects

(* At any time the table holds the tokens of at most one pair of a login:  *)
(* a code is never exchanged into a second pair, and a rotation leaves no  *)
(* access token of the pair it replaces behind, whatever requests, crashes *)
(* and failed transactions came in between.                                *)
OneLivePairPerLogin ==
  \A r, s \in rows : r.login = s.login => r.pair = s.pair

(* A refresh token is single-use: no two pairs were ever minted from the   *)
(* same parent, nor two root pairs from the same code, even when a client  *)
(* retries because the reply was lost.                                     *)
RotationIsAChain ==
  \A p, q \in lineage :
    (p.login = q.login /\ p.parent = q.parent) => p.pair = q.pair

(* A stored token carries the redirect URI the owner consented to when the *)
(* code of its login was issued, through every rotation.                   *)
TokensMatchConsent ==
  \A r \in rows :
    \E c \in consents : c.login = r.login /\ c.redirect = r.redirect

(* A request whose bearer token was already revoked, expired, of the wrong *)
(* kind or unknown when it arrived never reaches the upstream.             *)
DeadTokenNeverForwarded ==
  \A t \in Tasks : pc[t] = "forward" => ~req[t].dead

(* A pair the client was told about survives: its refresh token is stored  *)
(* until it is exchanged or expires.  A reply never runs ahead of its      *)
(* commit, and no crash takes a delivered pair back.                       *)
DeliveredPairsDurable ==
  \A tag \in knownTokens :
    \E p \in lineage :
      /\ tag \in {AccessTag(p.pair), RefreshTag(p.pair)}
      /\ \/ \E r \in LoadToken(RefreshTag(p.pair), "refresh") : r.pair = p.pair
         \/ \E q \in lineage : q.parent = p.pair
         \/ p.refreshUntil < now

(* Nobody waits in a circle: whoever holds a mutex is running its flow,    *)
(* which no await suspends, or waits for one more mutex that is free or    *)
(* whose holder is running its flow.  A task that waits for the outside    *)
(* world, an upstream or a client, holds none.                             *)
NoCircularWait ==
  \A l \in Lock : \A t \in locks[l] :
    \/ pc[t] \in {"flow", "commit"}
    \/ /\ pc[t] = "awaitSecond"
       /\ \A u \in locks[SecondLock(req[t].kind)] : pc[u] \in {"flow", "commit"}

(* The gateway keeps the promises of TokenLifecycle: a code being redeemed *)
(* is outstanding until its pair is committed, a pair lives as long as its *)
(* refresh token is stored, and a name is used once consent or commit gave *)
(* it a meaning.                                                           *)
Redeeming ==
  {code \in Tag : \E t \in Tasks : \E p \in pending[t] :
                    p.parent = 0 /\ p.login = code}
Outstanding == {c.code : c \in codes} \cup Redeeming
Live == {[login |-> r.login, pair |-> r.pair] :
           r \in {x \in rows : x.kind = "refresh"}}
Used == {c.login : c \in consents} \cup {q.pair : q \in lineage}

Lifecycle == INSTANCE TokenLifecycle WITH
  Id <- Tag, outstanding <- Outstanding, live <- Live, used <- Used

ImplementsTokenLifecycle == Lifecycle!Spec
=============================================================================
