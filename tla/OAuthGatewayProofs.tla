------------------------ MODULE OAuthGatewayProofs ------------------------
(***************************************************************************)
(* Proofs about OAuthGateway, for any number of tasks, redirect URIs and   *)
(* verifiers, and any lifetimes and bounds.                                *)
(*                                                                         *)
(* The argument: whoever draws tags or writes the table holds the issuer   *)
(* mutex (MutexInv), so while a pair is pending no other tag is drawn and  *)
(* no row appears; the tags of the pending pair are therefore above every  *)
(* tag in the table and in the history (FreshInv), the code it redeems is  *)
(* in no other place and the refresh token it replaces still means the     *)
(* same row (LoginInv).                                                    *)
(***************************************************************************)
EXTENDS OAuthGateway, TLAPS

(* Mutual exclusion on the mutexes, taken in one order and held only in    *)
(* the flows and between the two; a pair is drawn and committed under the  *)
(* issuer mutex.                                                           *)
MutexInv ==
  /\ \A l \in Lock : \A t, u \in locks[l] : t = u
  /\ \A t \in locks["issuer"] : pc[t] \in {"flow", "commit"}
  /\ \A t \in locks["authorizer"] : pc[t] \in {"awaitSecond", "flow", "commit"}
  /\ \A t \in Tasks : pc[t] \in {"flow", "commit"} => t \in locks["issuer"]
  /\ \A t \in Tasks : pc[t] = "awaitSecond" => req[t].kind # "mcp"
  /\ \A t \in Tasks : pending[t] # {} => pc[t] = "commit"
  /\ \A t \in Tasks : \A p, q \in pending[t] : p = q

(* Tags in use have been drawn, and those of the pending pair after every  *)
(* tag of the table and of the history.                                    *)
FreshInv ==
  /\ \A c \in codes : 0 < c.code /\ c.code < nextTag
  /\ \A c \in consents : c.login < nextTag
  /\ \A r \in rows : 0 < r.pair /\ r.pair < r.token /\ r.login < nextTag
  /\ \A q \in lineage :
       0 < q.pair /\ q.pair + 2 < nextTag /\ q.parent < q.pair /\ q.login < nextTag
  /\ \A t \in Tasks : \A p \in pending[t] :
       /\ 0 < p.pair /\ p.pair + 2 < nextTag
       /\ p.parent < p.pair /\ p.login < p.pair
       /\ \A c \in consents : c.login < p.pair
       /\ \A r \in rows : r.token < p.pair
       /\ \A q \in lineage : q.pair + 2 < p.pair

(* No pair was ever minted from this code.                                 *)
Unredeemed(code) ==
  /\ \A r \in rows : r.login # code
  /\ \A q \in lineage : q.login # code

(* A code is in one place: in the map, with no pair minted from it, or in  *)
(* the exchange that took it out; a rotation replaces the row it read.     *)
LoginInv ==
  /\ \A c, d \in codes : c.code = d.code => c = d
  /\ \A c \in codes : Unredeemed(c.code)
  /\ \A t \in Tasks : \A p \in pending[t] :
       /\ \A c \in codes : c.code # p.login
       /\ req[t].kind \in {"exchange", "refresh"}
       /\ req[t].kind = "exchange" => p.parent = 0 /\ Unredeemed(p.login)
       /\ req[t].kind = "refresh" =>
            /\ p.parent # 0
            /\ \A r \in LoadToken(p.old, "refresh") :
                 r.pair = p.parent /\ r.login = p.login

(* A token names one row, a pair has one login, and the pair of a stored   *)
(* row was not replaced.                                                   *)
RowInv ==
  /\ \A r, s \in rows : r.token = s.token => r = s
  /\ \A r, s \in rows : r.pair = s.pair => r.login = s.login
  /\ \A r \in rows, q \in lineage : q.parent # r.pair

(* Codes, rows and the pending pair carry the redirect URI of a consent.   *)
ConsentedTo(login, redirect) ==
  \E c \in consents : c.login = login /\ c.redirect = redirect

ConsentInv ==
  /\ \A c \in codes : ConsentedTo(c.code, c.redirect)
  /\ \A r \in rows : ConsentedTo(r.login, r.redirect)
  /\ \A t \in Tasks : \A p \in pending[t] : ConsentedTo(p.login, p.redirect)

(* Some committed pair has this token.                                     *)
Minted(tag) ==
  \E q \in lineage : tag \in {AccessTag(q.pair), RefreshTag(q.pair)}

(* The refresh token of the pair is stored, was exchanged or has expired.  *)
Durable(q) ==
  \/ \E r \in LoadToken(RefreshTag(q.pair), "refresh") :
       r.pair = q.pair /\ r.until = q.refreshUntil
  \/ \E s \in lineage : s.parent = q.pair
  \/ q.refreshUntil < now

(* Clients only hold the tokens of committed pairs.                        *)
HeldInv ==
  /\ \A tag \in knownTokens : Minted(tag)
  /\ \A t \in Tasks :
       pc[t] = "reply" /\ req[t].kind # "authorize" =>
         \A tag \in out[t] : Minted(tag)

DurableInv == \A q \in lineage : Durable(q)

(* A bearer token that was dead on arrival stays dead: no pair minted      *)
(* later has its tag, and time does not run backwards.                     *)
BearerInv ==
  /\ \A t \in Tasks : req[t].dead => Minted(req[t].tag) /\ DeadBearer(req[t].tag)
  /\ \A t \in Tasks : pc[t] = "decide" /\ req[t].dead =>
       \A g \in grant[t] : g.until <= now

IInv ==
  /\ TypeOK
  /\ MutexInv
  /\ FreshInv
  /\ LoginInv
  /\ RowInv
  /\ ConsentInv
  /\ HeldInv
  /\ DurableInv
  /\ BearerInv
  /\ OneLivePairPerLogin
  /\ RotationIsAChain
  /\ DeadTokenNeverForwarded

-----------------------------------------------------------------------------
(* Types.                                                                  *)

(* A handler that answers with an error, or whose client is gone, leaves   *)
(* well-typed state behind.                                                *)
LEMMA FailType ==
  ASSUME TypeOK, NEW t \in Tasks, Fail(t)
  PROVE  /\ pc' \in [Tasks -> Location]
         /\ locks' \in [Lock -> SUBSET Tasks]
         /\ req' \in [Tasks -> Request]
         /\ pending' \in [Tasks -> SUBSET PendingPair]
         /\ grant' \in [Tasks -> SUBSET Row]
         /\ out' \in [Tasks -> SUBSET Tag]
         /\ \A u \in Tasks :
              req'[u].kind = "authorize" => req'[u].redirect \in Redirects
  BY LifetimeAssumption
  DEF TypeOK, Fail, Leave, Released, Goto, NoRequest, Request, Tag, Challenge,
      Location

(* So does a handler that goes on to its reply or to the upstream.         *)
LEMMA LeaveType ==
  ASSUME TypeOK, NEW t \in Tasks, NEW loc \in Location, NEW tags \in SUBSET Tag,
         Leave(t, loc, req[t], tags)
  PROVE  /\ pc' \in [Tasks -> Location]
         /\ locks' \in [Lock -> SUBSET Tasks]
         /\ req' \in [Tasks -> Request]
         /\ pending' \in [Tasks -> SUBSET PendingPair]
         /\ grant' \in [Tasks -> SUBSET Row]
         /\ out' \in [Tasks -> SUBSET Tag]
         /\ \A u \in Tasks :
              req'[u].kind = "authorize" => req'[u].redirect \in Redirects
  BY DEF TypeOK, Leave, Released, Goto

(* A request that arrives keeps every variable in its type.                *)
LEMMA ArriveType ==
  ASSUME TypeOK, NEW t \in Tasks,
         NEW kind \in {"authorize", "exchange", "refresh", "mcp"},
         NEW tag \in Tag, NEW redirect \in Redirects \cup {NoRedirect},
         kind = "authorize" => redirect \in Redirects,
         NEW verifier \in Challenge, NEW authentic \in BOOLEAN,
         Arrive(t, kind, tag, redirect, verifier, authentic)
  PROVE  TypeOK'
  BY DEF TypeOK, Arrive, Goto, Request, Location

(* The rows of a pair drawn below a bound.                                 *)
LEMMA PairRowsType ==
  ASSUME NEW p \in PendingPair, NEW bound \in 1 .. (MaxTags + 1),
         p.pair + 2 < bound
  PROVE  /\ PairRows(p) \subseteq Row
         /\ \A r \in PairRows(p) : r.token < bound
         /\ {AccessTag(p.pair), RefreshTag(p.pair)} \in SUBSET Tag
         /\ Committed(p) \in
              [pair : Tag, login : Tag, parent : Tag, refreshUntil : Time]
  BY LifetimeAssumption
  DEF PairRows, Committed, AccessTag, RefreshTag, Row, PendingPair, Tag, Time

(* The pair stamped by issue() or refresh() is a pair, its expiry in range.*)
LEMMA NewPairType ==
  ASSUME TypeOK, NEW redirect \in Redirects, NEW login \in Tag,
         NEW parent \in Tag, NEW old \in Tag, TagsLeft(TagsPerPair)
  PROVE  NewPair(redirect, login, parent, old) \in PendingPair
  BY LifetimeAssumption
  DEF TypeOK, NewPair, TagsLeft, TagsPerPair, PendingPair, Tag, Time

(* Drawing the tags of a pair moves the counter forward and no further than*)
(* the bound.                                                              *)
LEMMA DrawPairType ==
  ASSUME TypeOK, NEW t \in Tasks, NEW p \in PendingPair, DrawPair(t, p)
  PROVE  /\ pc' \in [Tasks -> Location]
         /\ pending' \in [Tasks -> SUBSET PendingPair]
         /\ nextTag' \in 1 .. (MaxTags + 1)
         /\ nextTag < nextTag'
  BY LifetimeAssumption
  DEF TypeOK, DrawPair, TagsLeft, TagsPerPair, Goto, Location

(* Every step of the gateway keeps the types.                              *)
LEMMA TypeStep ==
  ASSUME TypeOK, FreshInv, Next
  PROVE  TypeOK'
  <1>1. ASSUME NEW t \in Tasks, OauthAuthorizePost(t) PROVE TypeOK'
    BY <1>1, ArriveType, LifetimeAssumption DEF OauthAuthorizePost, Tag
  <1>2. ASSUME NEW t \in Tasks, OauthTokenExchange(t) PROVE TypeOK'
    <2>1. knownCodes \subseteq Tag /\ 0 \in Tag
      BY LifetimeAssumption DEF TypeOK, Tag
    <2>2. NoRedirect \in Redirects \cup {NoRedirect} /\ NoVerifier \in Challenge
      BY DEF Challenge
    <2> QED
      BY <1>2, <2>1, <2>2, ArriveType DEF OauthTokenExchange
  <1>3. ASSUME NEW t \in Tasks, OauthTokenRefresh(t) PROVE TypeOK'
    <2>1. knownTokens \subseteq Tag /\ 0 \in Tag
      BY LifetimeAssumption DEF TypeOK, Tag
    <2>2. NoRedirect \in Redirects \cup {NoRedirect} /\ NoVerifier \in Challenge
      BY DEF Challenge
    <2> QED
      BY <1>3, <2>1, <2>2, ArriveType DEF OauthTokenRefresh
  <1>4. ASSUME NEW t \in Tasks, McpReverseProxy(t) PROVE TypeOK'
    <2>1. knownTokens \subseteq Tag
      BY DEF TypeOK
    <2>2. NoRedirect \in Redirects \cup {NoRedirect} /\ NoVerifier \in Challenge
      BY DEF Challenge
    <2> QED
      BY <1>4, <2>1, <2>2, ArriveType DEF McpReverseProxy
  <1>5. ASSUME NEW t \in Tasks, AcquireFirst(t) PROVE TypeOK'
    BY <1>5 DEF TypeOK, AcquireFirst, FirstLock, LastWait, Lock, Goto, Location
  <1>6. ASSUME NEW t \in Tasks, AcquireSecond(t) PROVE TypeOK'
    BY <1>6 DEF TypeOK, AcquireSecond, FirstLock, SecondLock, Lock, Goto, Location
  <1>7. ASSUME NEW t \in Tasks, Disconnect(t) PROVE TypeOK'
    BY <1>7, FailType DEF TypeOK, Disconnect
  <1>8. ASSUME NEW t \in Tasks, AuthorizationRefused(t) PROVE TypeOK'
    BY <1>8, FailType DEF TypeOK, AuthorizationRefused
  <1>9. ASSUME NEW t \in Tasks, AccessTokenRefused(t) PROVE TypeOK'
    BY <1>9, FailType DEF TypeOK, AccessTokenRefused
  <1>10. ASSUME NEW t \in Tasks, ClientRefused(t) PROVE TypeOK'
    BY <1>10, FailType DEF TypeOK, ClientRefused
  <1>11. ASSUME NEW t \in Tasks, GeneratorFails(t) PROVE TypeOK'
    BY <1>11, FailType DEF TypeOK, GeneratorFails
  <1>12. ASSUME NEW t \in Tasks, RefreshRefused(t) PROVE TypeOK'
    BY <1>12, FailType DEF TypeOK, RefreshRefused
  <1>13. ASSUME NEW t \in Tasks, TransactionFails(t) PROVE TypeOK'
    BY <1>13, FailType DEF TypeOK, TransactionFails
  <1>14. ASSUME NEW t \in Tasks, RecoverTokenFails(t) PROVE TypeOK'
    BY <1>14, FailType DEF TypeOK, RecoverTokenFails
  <1>15. ASSUME NEW t \in Tasks, UpstreamDone(t) PROVE TypeOK'
    BY <1>15, FailType DEF TypeOK, UpstreamDone
  <1>16. ASSUME NEW t \in Tasks, AuthorizationFlow(t) PROVE TypeOK'
    <2>1. /\ nextTag \in Tag
          /\ nextTag + 1 \in 1 .. (MaxTags + 1)
          /\ now + CodeLifetime \in Time
          /\ req[t] \in Request
          /\ \A r \in rows : r.token < nextTag + 1
      BY <1>16, LifetimeAssumption
      DEF TypeOK, AuthorizationFlow, CodesLeft, TagsLeft, Tag, Time, Row
    <2>2. req[t].redirect \in Redirects /\ req[t].verifier \in Challenge
      BY <1>16, <2>1 DEF TypeOK, AuthorizationFlow, Request
    <2>3. codes' \subseteq Code
      BY <1>16, <2>1, <2>2 DEF TypeOK, AuthorizationFlow, Code
    <2>4. consents' \subseteq
            [login : Tag, redirect : Redirects, challenge : Challenge]
      BY <1>16, <2>1, <2>2 DEF TypeOK, AuthorizationFlow
    <2>5. Leave(t, "reply", req[t], {nextTag}) /\ {nextTag} \in SUBSET Tag
      BY <1>16, <2>1 DEF AuthorizationFlow, Succeed
    <2> QED
      BY <1>16, <2>1, <2>3, <2>4, <2>5, LeaveType
      DEF TypeOK, AuthorizationFlow, Location
  <1>17. ASSUME NEW t \in Tasks, AccessTokenFlow(t) PROVE TypeOK'
    <2>1. PICK c \in codes :
            /\ codes' = Extracted(c)
            /\ DrawPair(t, NewPair(c.redirect, c.code, 0, 0))
      BY <1>17 DEF AccessTokenFlow
    <2>2. NewPair(c.redirect, c.code, 0, 0) \in PendingPair
      BY <2>1, NewPairType, LifetimeAssumption DEF TypeOK, Code, DrawPair, Tag
    <2> QED
      BY <1>17, <2>1, <2>2, DrawPairType
      DEF TypeOK, AccessTokenFlow, Extracted, Row, Tag
  <1>18. ASSUME NEW t \in Tasks, RefreshGrant(t) PROVE TypeOK'
    <2>1. PICK r \in rows :
            DrawPair(t, NewPair(r.redirect, r.login, r.pair, r.token))
      BY <1>18 DEF RefreshGrant, LoadToken
    <2>2. NewPair(r.redirect, r.login, r.pair, r.token) \in PendingPair
      BY <2>1, NewPairType DEF TypeOK, Row, DrawPair
    <2> QED
      BY <1>18, <2>1, <2>2, DrawPairType DEF TypeOK, RefreshGrant, Row, Tag
  <1>19. ASSUME NEW t \in Tasks, IssuePair(t) PROVE TypeOK'
    <2>1. PICK p \in pending[t] :
            /\ rows' = rows \cup PairRows(p)
            /\ lineage' = lineage \cup {Committed(p)}
            /\ Succeed(t, {AccessTag(p.pair), RefreshTag(p.pair)})
      BY <1>19 DEF IssuePair
    <2>2. p \in PendingPair /\ p.pair + 2 < nextTag
      BY <2>1 DEF TypeOK, FreshInv
    <2> QED
      BY <1>19, <2>1, <2>2, PairRowsType, LeaveType
      DEF TypeOK, IssuePair, Succeed, Location
  <1>20. ASSUME NEW t \in Tasks, RotateRefreshPair(t) PROVE TypeOK'
    <2>1. PICK p \in pending[t], old \in rows :
            /\ rows' = DeletePair(old.pair) \cup PairRows(p)
            /\ lineage' = lineage \cup {Committed(p)}
            /\ Succeed(t, {AccessTag(p.pair), RefreshTag(p.pair)})
      BY <1>20 DEF RotateRefreshPair, LoadToken
    <2>2. p \in PendingPair /\ p.pair + 2 < nextTag
      BY <2>1 DEF TypeOK, FreshInv
    <2> QED
      BY <1>20, <2>1, <2>2, PairRowsType, LeaveType
      DEF TypeOK, RotateRefreshPair, Succeed, DeletePair, Location
  <1>21. ASSUME NEW t \in Tasks, RecoverToken(t) PROVE TypeOK'
    BY <1>21 DEF TypeOK, RecoverToken, LoadToken, Released, Goto, Location
  <1>22. ASSUME NEW t \in Tasks, ExpiryCheck(t) PROVE TypeOK'
    <2>1. CASE Fail(t)
      BY <1>22, <2>1, FailType DEF TypeOK, ExpiryCheck
    <2>2. CASE Leave(t, "forward", req[t], {})
      BY <1>22, <2>2, LeaveType DEF TypeOK, ExpiryCheck, Location
    <2> QED
      BY <1>22, <2>1, <2>2 DEF ExpiryCheck
  <1>23. ASSUME NEW t \in Tasks, Reply(t) PROVE TypeOK'
    <2>1. knownCodes' \subseteq Tag /\ knownTokens' \subseteq Tag
      BY <1>23 DEF TypeOK, Reply
    <2> QED
      BY <1>23, <2>1, FailType DEF TypeOK, Reply
  <1>24. ASSUME CleanupExpired PROVE TypeOK'
    BY <1>24 DEF TypeOK, CleanupExpired
  <1>25. ASSUME Tick PROVE TypeOK'
    BY <1>25, LifetimeAssumption DEF TypeOK, Tick
  <1>26. ASSUME CrashRestart PROVE TypeOK'
    BY <1>26, LifetimeAssumption DEF TypeOK, CrashRestart, NoRequest, Request, Lock, Tag, Challenge, Location
  <1> QED
    BY <1>1, <1>2, <1>3, <1>4, <1>5, <1>6, <1>7, <1>8, <1>9, <1>10, <1>11, <1>12, <1>13, <1>14, <1>15, <1>16, <1>17, <1>18, <1>19, <1>20, <1>21, <1>22, <1>23, <1>24, <1>25, <1>26
    DEF Next, Arrival, HandlerStep

-----------------------------------------------------------------------------
(* The steps that draw a tag or write a pair, and all the others.          *)

Writes(t) ==
  \/ AuthorizationFlow(t)
  \/ AccessTokenFlow(t)
  \/ RefreshGrant(t)
  \/ IssuePair(t)
  \/ RotateRefreshPair(t)

(* A step that draws nothing and writes nothing: codes and pending pairs   *)
(* can only be dropped, rows only when expired.                            *)
Quiet ==
  /\ nextTag' = nextTag /\ lineage' = lineage /\ consents' = consents
  /\ now \in Nat /\ now' \in Nat /\ now <= now'
  /\ codes' \subseteq codes
  /\ rows' \subseteq rows
  /\ \A r \in rows \ rows' : r.until < now
  /\ rows' = rows \/ (codes' = codes /\ pending' = pending)
  /\ \A t \in Tasks :
       pending'[t] = {} \/ (pending'[t] = pending[t] /\ req'[t] = req[t])

(* Every step of the gateway is quiet or is one of the five writing steps. *)
LEMMA StepCases ==
  ASSUME TypeOK, MutexInv, Next
  PROVE  Quiet \/ \E t \in Tasks : Writes(t)
  <1> USE LifetimeAssumption DEF TypeOK, MutexInv, Quiet
  <1>1. ASSUME NEW t \in Tasks, OauthAuthorizePost(t) PROVE Quiet
    BY <1>1 DEF OauthAuthorizePost, Arrive, Goto
  <1>2. ASSUME NEW t \in Tasks, OauthTokenExchange(t) PROVE Quiet
    BY <1>2 DEF OauthTokenExchange, Arrive, Goto
  <1>3. ASSUME NEW t \in Tasks, OauthTokenRefresh(t) PROVE Quiet
    BY <1>3 DEF OauthTokenRefresh, Arrive, Goto
  <1>4. ASSUME NEW t \in Tasks, McpReverseProxy(t) PROVE Quiet
    BY <1>4 DEF McpReverseProxy, Arrive, Goto
  <1>5. ASSUME NEW t \in Tasks, AcquireFirst(t) PROVE Quiet
    BY <1>5 DEF AcquireFirst, FirstLock, SecondLock, LastWait, Lock, Goto
  <1>6. ASSUME NEW t \in Tasks, AcquireSecond(t) PROVE Quiet
    BY <1>6 DEF AcquireSecond, FirstLock, SecondLock, LastWait, Lock, Goto
  <1>7. ASSUME NEW t \in Tasks, Disconnect(t) PROVE Quiet
    BY <1>7 DEF Disconnect, Fail, Leave, Released, Goto, NoRequest
  <1>8. ASSUME NEW t \in Tasks, AuthorizationRefused(t) PROVE Quiet
    BY <1>8 DEF AuthorizationRefused, Fail, Leave, Released, Goto, NoRequest
  <1>9. ASSUME NEW t \in Tasks, AccessTokenRefused(t) PROVE Quiet
    BY <1>9 DEF AccessTokenRefused, Fail, Leave, Released, Goto, NoRequest
  <1>10. ASSUME NEW t \in Tasks, ClientRefused(t) PROVE Quiet
    BY <1>10 DEF ClientRefused, Fail, Leave, Released, Goto, NoRequest
  <1>11. ASSUME NEW t \in Tasks, GeneratorFails(t) PROVE Quiet
    BY <1>11 DEF GeneratorFails, Fail, Leave, Released, Goto, NoRequest
  <1>12. ASSUME NEW t \in Tasks, RefreshRefused(t) PROVE Quiet
    BY <1>12 DEF RefreshRefused, Fail, Leave, Released, Goto, NoRequest
  <1>13. ASSUME NEW t \in Tasks, TransactionFails(t) PROVE Quiet
    BY <1>13 DEF TransactionFails, Fail, Leave, Released, Goto, NoRequest
  <1>14. ASSUME NEW t \in Tasks, RecoverTokenFails(t) PROVE Quiet
    BY <1>14 DEF RecoverTokenFails, Fail, Leave, Released, Goto, NoRequest
  <1>15. ASSUME NEW t \in Tasks, UpstreamDone(t) PROVE Quiet
    BY <1>15 DEF UpstreamDone, Fail, Leave, Released, Goto, NoRequest
  <1>16. ASSUME NEW t \in Tasks, RecoverToken(t) PROVE Quiet
    BY <1>16 DEF RecoverToken, Fail, Leave, Released, Goto, NoRequest
  <1>17. ASSUME NEW t \in Tasks, ExpiryCheck(t) PROVE Quiet
    BY <1>17 DEF ExpiryCheck, Fail, Leave, Released, Goto, NoRequest
  <1>18. ASSUME NEW t \in Tasks, Reply(t) PROVE Quiet
    BY <1>18 DEF Reply, Fail, Leave, Released, Goto, NoRequest
  <1>19. ASSUME CleanupExpired PROVE Quiet
    BY <1>19 DEF CleanupExpired
  <1>20. ASSUME Tick PROVE Quiet
    BY <1>20 DEF Tick
  <1>21. ASSUME CrashRestart PROVE Quiet
    BY <1>21 DEF CrashRestart
  <1> QED
    BY <1>1, <1>2, <1>3, <1>4, <1>5, <1>6, <1>7, <1>8, <1>9, <1>10, <1>11,
       <1>12, <1>13, <1>14, <1>15, <1>16, <1>17, <1>18, <1>19, <1>20, <1>21
    DEF Next, Arrival, HandlerStep, Writes

(* Every step keeps the locking discipline.                                *)
LEMMA MutexStep ==
  ASSUME TypeOK, MutexInv, Next
  PROVE  MutexInv'
  <1> USE DEF MutexInv, TypeOK, Lock
  <1>1. ASSUME NEW t \in Tasks, OauthAuthorizePost(t) PROVE MutexInv'
    BY <1>1 DEF OauthAuthorizePost, Arrive, Goto
  <1>2. ASSUME NEW t \in Tasks, OauthTokenExchange(t) PROVE MutexInv'
    BY <1>2 DEF OauthTokenExchange, Arrive, Goto
  <1>3. ASSUME NEW t \in Tasks, OauthTokenRefresh(t) PROVE MutexInv'
    BY <1>3 DEF OauthTokenRefresh, Arrive, Goto
  <1>4. ASSUME NEW t \in Tasks, McpReverseProxy(t) PROVE MutexInv'
    BY <1>4 DEF McpReverseProxy, Arrive, Goto
  <1>5. ASSUME NEW t \in Tasks, AcquireFirst(t) PROVE MutexInv'
    BY <1>5 DEF AcquireFirst, FirstLock, SecondLock, LastWait, Lock, Goto
  <1>6. ASSUME NEW t \in Tasks, AcquireSecond(t) PROVE MutexInv'
    BY <1>6 DEF AcquireSecond, FirstLock, SecondLock, LastWait, Lock, Goto
  <1>7. ASSUME NEW t \in Tasks, Disconnect(t) PROVE MutexInv'
    BY <1>7 DEF Disconnect, Succeed, Fail, Leave, Released, Goto, NoRequest
  <1>8. ASSUME NEW t \in Tasks, AuthorizationRefused(t) PROVE MutexInv'
    BY <1>8
    DEF AuthorizationRefused, Succeed, Fail, Leave, Released, Goto, NoRequest
  <1>9. ASSUME NEW t \in Tasks, AccessTokenRefused(t) PROVE MutexInv'
    BY <1>9
    DEF AccessTokenRefused, Succeed, Fail, Leave, Released, Goto, NoRequest
  <1>10. ASSUME NEW t \in Tasks, ClientRefused(t) PROVE MutexInv'
    BY <1>10
    DEF ClientRefused, Succeed, Fail, Leave, Released, Goto, NoRequest
  <1>11. ASSUME NEW t \in Tasks, GeneratorFails(t) PROVE MutexInv'
    BY <1>11
    DEF GeneratorFails, Succeed, Fail, Leave, Released, Goto, NoRequest
  <1>12. ASSUME NEW t \in Tasks, RefreshRefused(t) PROVE MutexInv'
    BY <1>12
    DEF RefreshRefused, Succeed, Fail, Leave, Released, Goto, NoRequest
  <1>13. ASSUME NEW t \in Tasks, TransactionFails(t) PROVE MutexInv'
    BY <1>13
    DEF TransactionFails, Succeed, Fail, Leave, Released, Goto, NoRequest
  <1>14. ASSUME NEW t \in Tasks, RecoverTokenFails(t) PROVE MutexInv'
    BY <1>14
    DEF RecoverTokenFails, Succeed, Fail, Leave, Released, Goto, NoRequest
  <1>15. ASSUME NEW t \in Tasks, UpstreamDone(t) PROVE MutexInv'
    BY <1>15 DEF UpstreamDone, Succeed, Fail, Leave, Released, Goto, NoRequest
  <1>16. ASSUME NEW t \in Tasks, RecoverToken(t) PROVE MutexInv'
    BY <1>16 DEF RecoverToken, Succeed, Fail, Leave, Released, Goto, NoRequest
  <1>17. ASSUME NEW t \in Tasks, ExpiryCheck(t) PROVE MutexInv'
    BY <1>17 DEF ExpiryCheck, Succeed, Fail, Leave, Released, Goto, NoRequest
  <1>18. ASSUME NEW t \in Tasks, Reply(t) PROVE MutexInv'
    BY <1>18 DEF Reply, Succeed, Fail, Leave, Released, Goto, NoRequest
  <1>19. ASSUME NEW t \in Tasks, AuthorizationFlow(t) PROVE MutexInv'
    BY <1>19 DEF AuthorizationFlow, Succeed, Leave, Released, Goto
  <1>20. ASSUME NEW t \in Tasks, AccessTokenFlow(t) PROVE MutexInv'
    BY <1>20
    DEF AccessTokenFlow, DrawPair, NewPair, TagsPerPair, Goto, Extracted
  <1>21. ASSUME NEW t \in Tasks, RefreshGrant(t) PROVE MutexInv'
    BY <1>21 DEF RefreshGrant, DrawPair, NewPair, TagsPerPair, Goto, LoadToken
  <1>22. ASSUME NEW t \in Tasks, IssuePair(t) PROVE MutexInv'
    BY <1>22
    DEF IssuePair, Succeed, Leave, Released, Goto, PairRows, Committed,
        AccessTag, RefreshTag
  <1>23. ASSUME NEW t \in Tasks, RotateRefreshPair(t) PROVE MutexInv'
    BY <1>23
    DEF RotateRefreshPair, Succeed, Leave, Released, Goto, PairRows,
        Committed, AccessTag, RefreshTag, DeletePair, LoadToken
  <1>24. ASSUME CleanupExpired PROVE MutexInv'
    BY <1>24 DEF CleanupExpired
  <1>25. ASSUME Tick PROVE MutexInv'
    BY <1>25 DEF Tick
  <1>26. ASSUME CrashRestart PROVE MutexInv'
    BY <1>26 DEF CrashRestart, NoRequest, Lock
  <1> QED
    BY <1>1, <1>2, <1>3, <1>4, <1>5, <1>6, <1>7, <1>8, <1>9, <1>10, <1>11,
       <1>12, <1>13, <1>14, <1>15, <1>16, <1>17, <1>18, <1>19, <1>20, <1>21,
       <1>22, <1>23, <1>24, <1>25, <1>26 DEF Next, Arrival, HandlerStep

(* New tags are above every tag in use.                                    *)
LEMMA FreshStep ==
  ASSUME TypeOK, MutexInv, FreshInv, Next
  PROVE  FreshInv'
  <1> USE LifetimeAssumption DEF MutexInv, TypeOK, Lock, FreshInv, Code, Row, PendingPair, Tag
  <1>1. CASE Quiet
    BY <1>1 DEF Quiet
  <1>2. ASSUME NEW t \in Tasks, AuthorizationFlow(t) PROVE FreshInv'
    BY <1>2 DEF AuthorizationFlow, Succeed, Leave, Released, Goto
  <1>3. ASSUME NEW t \in Tasks, AccessTokenFlow(t) PROVE FreshInv'
    BY <1>3
    DEF AccessTokenFlow, DrawPair, NewPair, TagsPerPair, Goto, Extracted
  <1>4. ASSUME NEW t \in Tasks, RefreshGrant(t) PROVE FreshInv'
    BY <1>4 DEF RefreshGrant, DrawPair, NewPair, TagsPerPair, Goto, LoadToken
  <1>5. ASSUME NEW t \in Tasks, IssuePair(t) PROVE FreshInv'
    BY <1>5
    DEF IssuePair, Succeed, Leave, Released, Goto, PairRows, Committed,
        AccessTag, RefreshTag
  <1>6. ASSUME NEW t \in Tasks, RotateRefreshPair(t) PROVE FreshInv'
    BY <1>6
    DEF RotateRefreshPair, Succeed, Leave, Released, Goto, PairRows,
        Committed, AccessTag, RefreshTag, DeletePair, LoadToken
  <1> QED
    BY StepCases, <1>1, <1>2, <1>3, <1>4, <1>5, <1>6 DEF Writes

(* A code stays in one place, and the row to rotate stays as it was read.  *)
LEMMA LoginStep ==
  ASSUME TypeOK, MutexInv, FreshInv, RowInv, LoginInv, Next
  PROVE  LoginInv'
  <1> USE LifetimeAssumption DEF MutexInv, TypeOK, Lock, FreshInv, LoginInv, RowInv, Unredeemed,
         LoadToken, Code, Row, PendingPair, Tag
  <1>1. CASE Quiet
    BY <1>1 DEF Quiet
  <1>2. ASSUME NEW t \in Tasks, AuthorizationFlow(t) PROVE LoginInv'
    BY <1>2 DEF AuthorizationFlow, Succeed, Leave, Released, Goto
  <1>3. ASSUME NEW t \in Tasks, AccessTokenFlow(t) PROVE LoginInv'
    BY <1>3
    DEF AccessTokenFlow, DrawPair, NewPair, TagsPerPair, Goto, Extracted
  <1>4. ASSUME NEW t \in Tasks, RefreshGrant(t) PROVE LoginInv'
    BY <1>4 DEF RefreshGrant, DrawPair, NewPair, TagsPerPair, Goto, LoadToken
  <1>5. ASSUME NEW t \in Tasks, IssuePair(t) PROVE LoginInv'
    BY <1>5
    DEF IssuePair, Succeed, Leave, Released, Goto, PairRows, Committed,
        AccessTag, RefreshTag
  <1>6. ASSUME NEW t \in Tasks, RotateRefreshPair(t) PROVE LoginInv'
    BY <1>6
    DEF RotateRefreshPair, Succeed, Leave, Released, Goto, PairRows,
        Committed, AccessTag, RefreshTag, DeletePair, LoadToken
  <1> QED
    BY StepCases, <1>1, <1>2, <1>3, <1>4, <1>5, <1>6 DEF Writes

(* New rows have new tokens and a new pair.                                *)
LEMMA RowStep ==
  ASSUME TypeOK, MutexInv, FreshInv, LoginInv, RowInv, Next
  PROVE  RowInv'
  <1> USE LifetimeAssumption DEF MutexInv, TypeOK, Lock, FreshInv, LoginInv, RowInv, LoadToken, Row,
         PendingPair, Tag
  <1>1. CASE Quiet
    BY <1>1 DEF Quiet
  <1>2. ASSUME NEW t \in Tasks, AuthorizationFlow(t) PROVE RowInv'
    BY <1>2 DEF AuthorizationFlow, Succeed, Leave, Released, Goto
  <1>3. ASSUME NEW t \in Tasks, AccessTokenFlow(t) PROVE RowInv'
    BY <1>3
    DEF AccessTokenFlow, DrawPair, NewPair, TagsPerPair, Goto, Extracted
  <1>4. ASSUME NEW t \in Tasks, RefreshGrant(t) PROVE RowInv'
    BY <1>4 DEF RefreshGrant, DrawPair, NewPair, TagsPerPair, Goto, LoadToken
  <1>5. ASSUME NEW t \in Tasks, IssuePair(t) PROVE RowInv'
    BY <1>5
    DEF IssuePair, Succeed, Leave, Released, Goto, PairRows, Committed,
        AccessTag, RefreshTag
  <1>6. ASSUME NEW t \in Tasks, RotateRefreshPair(t) PROVE RowInv'
    BY <1>6
    DEF RotateRefreshPair, Succeed, Leave, Released, Goto, PairRows,
        Committed, AccessTag, RefreshTag, DeletePair, LoadToken
  <1> QED
    BY StepCases, <1>1, <1>2, <1>3, <1>4, <1>5, <1>6 DEF Writes

(* The pair written is the only one of its login.                          *)
LEMMA OneLiveStep ==
  ASSUME TypeOK, MutexInv, FreshInv, LoginInv, RowInv, OneLivePairPerLogin, Next
  PROVE  OneLivePairPerLogin'
  <1> USE LifetimeAssumption DEF MutexInv, TypeOK, Lock, FreshInv, LoginInv, Unredeemed, RowInv,
         LoadToken, OneLivePairPerLogin
  <1>1. CASE Quiet
    BY <1>1 DEF Quiet
  <1>2. ASSUME NEW t \in Tasks, AuthorizationFlow(t) PROVE OneLivePairPerLogin'
    BY <1>2 DEF AuthorizationFlow, Succeed, Leave, Released, Goto
  <1>3. ASSUME NEW t \in Tasks, AccessTokenFlow(t) PROVE OneLivePairPerLogin'
    BY <1>3
    DEF AccessTokenFlow, DrawPair, NewPair, TagsPerPair, Goto, Extracted
  <1>4. ASSUME NEW t \in Tasks, RefreshGrant(t) PROVE OneLivePairPerLogin'
    BY <1>4 DEF RefreshGrant, DrawPair, NewPair, TagsPerPair, Goto, LoadToken
  <1>5. ASSUME NEW t \in Tasks, IssuePair(t) PROVE OneLivePairPerLogin'
    BY <1>5
    DEF IssuePair, Succeed, Leave, Released, Goto, PairRows, Committed,
        AccessTag, RefreshTag
  <1>6. ASSUME NEW t \in Tasks, RotateRefreshPair(t) PROVE OneLivePairPerLogin'
    BY <1>6
    DEF RotateRefreshPair, Succeed, Leave, Released, Goto, PairRows,
        Committed, AccessTag, RefreshTag, DeletePair, LoadToken
  <1> QED
    BY StepCases, <1>1, <1>2, <1>3, <1>4, <1>5, <1>6 DEF Writes

(* The pair written is the only child of its parent.                       *)
LEMMA ChainStep ==
  ASSUME TypeOK, MutexInv, FreshInv, LoginInv, RowInv, RotationIsAChain, Next
  PROVE  RotationIsAChain'
  <1> USE LifetimeAssumption DEF MutexInv, TypeOK, Lock, FreshInv, LoginInv, Unredeemed, RowInv,
         LoadToken, RotationIsAChain
  <1>1. CASE Quiet
    BY <1>1 DEF Quiet
  <1>2. ASSUME NEW t \in Tasks, AuthorizationFlow(t) PROVE RotationIsAChain'
    BY <1>2 DEF AuthorizationFlow, Succeed, Leave, Released, Goto
  <1>3. ASSUME NEW t \in Tasks, AccessTokenFlow(t) PROVE RotationIsAChain'
    BY <1>3
    DEF AccessTokenFlow, DrawPair, NewPair, TagsPerPair, Goto, Extracted
  <1>4. ASSUME NEW t \in Tasks, RefreshGrant(t) PROVE RotationIsAChain'
    BY <1>4 DEF RefreshGrant, DrawPair, NewPair, TagsPerPair, Goto, LoadToken
  <1>5. ASSUME NEW t \in Tasks, IssuePair(t) PROVE RotationIsAChain'
    BY <1>5
    DEF IssuePair, Succeed, Leave, Released, Goto, PairRows, Committed,
        AccessTag, RefreshTag
  <1>6. ASSUME NEW t \in Tasks, RotateRefreshPair(t) PROVE RotationIsAChain'
    BY <1>6
    DEF RotateRefreshPair, Succeed, Leave, Released, Goto, PairRows,
        Committed, AccessTag, RefreshTag, DeletePair, LoadToken
  <1> QED
    BY StepCases, <1>1, <1>2, <1>3, <1>4, <1>5, <1>6 DEF Writes

(* The redirect URI is handed on unchanged.                                *)
LEMMA ConsentStep ==
  ASSUME TypeOK, MutexInv, ConsentInv, Next
  PROVE  ConsentInv'
  <1> USE LifetimeAssumption DEF MutexInv, TypeOK, ConsentInv, ConsentedTo, LoadToken
  <1>1. CASE Quiet
    BY <1>1 DEF Quiet
  <1>2. ASSUME NEW t \in Tasks, AuthorizationFlow(t) PROVE ConsentInv'
    <2>1. /\ consents \subseteq consents'
          /\ rows' = rows
          /\ \A u \in Tasks : pending'[u] \subseteq pending[u]
      BY <1>2 DEF AuthorizationFlow, Succeed, Leave
    <2>2. \A c \in codes' \ codes : c.code = nextTag /\ c.redirect = req[t].redirect
      BY <1>2 DEF AuthorizationFlow
    <2>3. [login |-> nextTag, redirect |-> req[t].redirect,
           challenge |-> req[t].verifier] \in consents'
      BY <1>2 DEF AuthorizationFlow
    <2>4. \E d \in consents' : d.login = nextTag /\ d.redirect = req[t].redirect
      BY <2>3
    <2> QED
      BY <2>1, <2>2, <2>4
  <1>3. ASSUME NEW t \in Tasks, AccessTokenFlow(t) PROVE ConsentInv'
    BY <1>3
    DEF AccessTokenFlow, DrawPair, NewPair, TagsPerPair, Goto, Extracted
  <1>4. ASSUME NEW t \in Tasks, RefreshGrant(t) PROVE ConsentInv'
    BY <1>4 DEF RefreshGrant, DrawPair, NewPair, TagsPerPair, Goto, LoadToken
  <1>5. ASSUME NEW t \in Tasks, IssuePair(t) PROVE ConsentInv'
    BY <1>5
    DEF IssuePair, Succeed, Leave, Released, Goto, PairRows, Committed,
        AccessTag, RefreshTag
  <1>6. ASSUME NEW t \in Tasks, RotateRefreshPair(t) PROVE ConsentInv'
    BY <1>6
    DEF RotateRefreshPair, Succeed, Leave, Released, Goto, PairRows,
        Committed, AccessTag, RefreshTag, DeletePair, LoadToken
  <1> QED
    BY StepCases, <1>1, <1>2, <1>3, <1>4, <1>5, <1>6 DEF Writes

(* No later pair has the tag of a pair that was minted.                    *)
LEMMA MintedBelow ==
  ASSUME TypeOK, FreshInv, NEW t \in Tasks, NEW p \in pending[t], NEW tag,
         Minted(tag)
  PROVE  tag \notin {AccessTag(p.pair), RefreshTag(p.pair)}
  BY DEF TypeOK, FreshInv, Minted, AccessTag, RefreshTag, PendingPair, Tag

(* History is only added to.                                               *)
LEMMA LineageGrows ==
  ASSUME TypeOK, MutexInv, Next
  PROVE  lineage \subseteq lineage'
  BY StepCases
  DEF Quiet, Writes, AuthorizationFlow, AccessTokenFlow, RefreshGrant,
      IssuePair, RotateRefreshPair

(* The tags of a pair that is committed count as minted from then on.      *)
LEMMA CommittedIsMinted ==
  ASSUME NEW p, lineage' = lineage \cup {Committed(p)}
  PROVE  \A tag \in {AccessTag(p.pair), RefreshTag(p.pair)} : Minted(tag)'
  <1>1. Committed(p) \in lineage' /\ Committed(p).pair = p.pair
    BY DEF Committed
  <1> QED
    BY <1>1 DEF Minted, AccessTag, RefreshTag

(* A reply carries a pair only once it is committed.                       *)
LEMMA HeldStep ==
  ASSUME TypeOK, MutexInv, HeldInv, Next
  PROVE  HeldInv'
  <1> USE DEF TypeOK, HeldInv
  <1>0. \A tag : Minted(tag) => Minted(tag)'
    BY LineageGrows DEF Minted
  <1>1. ASSUME NEW t \in Tasks, OauthAuthorizePost(t) PROVE HeldInv'
    BY <1>1, <1>0 DEF OauthAuthorizePost, Arrive, Goto
  <1>2. ASSUME NEW t \in Tasks, OauthTokenExchange(t) PROVE HeldInv'
    BY <1>2, <1>0 DEF OauthTokenExchange, Arrive, Goto
  <1>3. ASSUME NEW t \in Tasks, OauthTokenRefresh(t) PROVE HeldInv'
    BY <1>3, <1>0 DEF OauthTokenRefresh, Arrive, Goto
  <1>4. ASSUME NEW t \in Tasks, McpReverseProxy(t) PROVE HeldInv'
    BY <1>4, <1>0 DEF McpReverseProxy, Arrive, Goto
  <1>5. ASSUME NEW t \in Tasks, AcquireFirst(t) PROVE HeldInv'
    BY <1>5, <1>0
    DEF AcquireFirst, FirstLock, SecondLock, LastWait, Lock, Goto
  <1>6. ASSUME NEW t \in Tasks, AcquireSecond(t) PROVE HeldInv'
    BY <1>6, <1>0
    DEF AcquireSecond, FirstLock, SecondLock, LastWait, Lock, Goto
  <1>7. ASSUME NEW t \in Tasks, Disconnect(t) PROVE HeldInv'
    BY <1>7, <1>0
    DEF Disconnect, Succeed, Fail, Leave, Released, Goto, NoRequest
  <1>8. ASSUME NEW t \in Tasks, AuthorizationRefused(t) PROVE HeldInv'
    BY <1>8, <1>0
    DEF AuthorizationRefused, Succeed, Fail, Leave, Released, Goto, NoRequest
  <1>9. ASSUME NEW t \in Tasks, AccessTokenRefused(t) PROVE HeldInv'
    BY <1>9, <1>0
    DEF AccessTokenRefused, Succeed, Fail, Leave, Released, Goto, NoRequest
  <1>10. ASSUME NEW t \in Tasks, ClientRefused(t) PROVE HeldInv'
    BY <1>10, <1>0
    DEF ClientRefused, Succeed, Fail, Leave, Released, Goto, NoRequest
  <1>11. ASSUME NEW t \in Tasks, GeneratorFails(t) PROVE HeldInv'
    BY <1>11, <1>0
    DEF GeneratorFails, Succeed, Fail, Leave, Released, Goto, NoRequest
  <1>12. ASSUME NEW t \in Tasks, RefreshRefused(t) PROVE HeldInv'
    BY <1>12, <1>0
    DEF RefreshRefused, Succeed, Fail, Leave, Released, Goto, NoRequest
  <1>13. ASSUME NEW t \in Tasks, TransactionFails(t) PROVE HeldInv'
    BY <1>13, <1>0
    DEF TransactionFails, Succeed, Fail, Leave, Released, Goto, NoRequest
  <1>14. ASSUME NEW t \in Tasks, RecoverTokenFails(t) PROVE HeldInv'
    BY <1>14, <1>0
    DEF RecoverTokenFails, Succeed, Fail, Leave, Released, Goto, NoRequest
  <1>15. ASSUME NEW t \in Tasks, UpstreamDone(t) PROVE HeldInv'
    BY <1>15, <1>0
    DEF UpstreamDone, Succeed, Fail, Leave, Released, Goto, NoRequest
  <1>16. ASSUME NEW t \in Tasks, RecoverToken(t) PROVE HeldInv'
    BY <1>16, <1>0
    DEF RecoverToken, Succeed, Fail, Leave, Released, Goto, NoRequest
  <1>17. ASSUME NEW t \in Tasks, ExpiryCheck(t) PROVE HeldInv'
    BY <1>17, <1>0
    DEF ExpiryCheck, Succeed, Fail, Leave, Released, Goto, NoRequest
  <1>18. ASSUME NEW t \in Tasks, Reply(t) PROVE HeldInv'
    BY <1>18, <1>0 DEF Reply, Succeed, Fail, Leave, Released, Goto, NoRequest
  <1>19. ASSUME NEW t \in Tasks, AuthorizationFlow(t) PROVE HeldInv'
    BY <1>19, <1>0 DEF AuthorizationFlow, Succeed, Leave, Released, Goto
  <1>20. ASSUME NEW t \in Tasks, AccessTokenFlow(t) PROVE HeldInv'
    BY <1>20, <1>0
    DEF AccessTokenFlow, DrawPair, NewPair, TagsPerPair, Goto, Extracted
  <1>21. ASSUME NEW t \in Tasks, RefreshGrant(t) PROVE HeldInv'
    BY <1>21, <1>0
    DEF RefreshGrant, DrawPair, NewPair, TagsPerPair, Goto, LoadToken
  <1>22. ASSUME NEW t \in Tasks, IssuePair(t) PROVE HeldInv'
    <2>1. PICK p \in pending[t] :
            /\ lineage' = lineage \cup {Committed(p)}
            /\ Succeed(t, {AccessTag(p.pair), RefreshTag(p.pair)})
      BY <1>22 DEF IssuePair
    <2>2. \A tag \in out'[t] : Minted(tag)'
      BY <2>1, CommittedIsMinted DEF Succeed, Leave
    <2> QED
      BY <1>22, <2>1, <2>2, <1>0 DEF IssuePair, Succeed, Leave, Goto
  <1>23. ASSUME NEW t \in Tasks, RotateRefreshPair(t) PROVE HeldInv'
    <2>1. PICK p \in pending[t] :
            /\ lineage' = lineage \cup {Committed(p)}
            /\ Succeed(t, {AccessTag(p.pair), RefreshTag(p.pair)})
      BY <1>23 DEF RotateRefreshPair
    <2>2. \A tag \in out'[t] : Minted(tag)'
      BY <2>1, CommittedIsMinted DEF Succeed, Leave
    <2> QED
      BY <1>23, <2>1, <2>2, <1>0 DEF RotateRefreshPair, Succeed, Leave, Goto
  <1>24. ASSUME CleanupExpired PROVE HeldInv'
    BY <1>24, <1>0 DEF CleanupExpired
  <1>25. ASSUME Tick PROVE HeldInv'
    BY <1>25, <1>0 DEF Tick
  <1>26. ASSUME CrashRestart PROVE HeldInv'
    BY <1>26, <1>0 DEF CrashRestart, NoRequest, Lock
  <1> QED
    BY <1>1, <1>2, <1>3, <1>4, <1>5, <1>6, <1>7, <1>8, <1>9, <1>10, <1>11,
       <1>12, <1>13, <1>14, <1>15, <1>16, <1>17, <1>18, <1>19, <1>20, <1>21,
       <1>22, <1>23, <1>24, <1>25, <1>26 DEF Next, Arrival, HandlerStep

(* The rows of a pair keep it durable, whatever else changes.              *)
LEMMA DurableKept ==
  ASSUME NEW q \in lineage, Durable(q), now' = now, lineage \subseteq lineage',
         \A r \in rows : r.pair = q.pair => r \in rows'
  PROVE  Durable(q)'
  BY DEF Durable, LoadToken

(* A pair whose rows were just inserted is durable.                        *)
LEMMA DurableFresh ==
  ASSUME NEW p, PairRows(p) \subseteq rows'
  PROVE  Durable(Committed(p))'
  <1>1. /\ Committed(p).pair = p.pair
        /\ Committed(p).refreshUntil = p.refreshUntil
    BY DEF Committed
  <1>2. PICK r \in PairRows(p) :
          /\ r.kind = "refresh" /\ r.token = RefreshTag(p.pair)
          /\ r.pair = p.pair /\ r.until = p.refreshUntil
    BY DEF PairRows
  <1>3. r \in rows'
    BY <1>2
  <1> QED
    BY <1>1, <1>2, <1>3 DEF Durable, LoadToken, RefreshTag

(* A refresh token leaves the table when it is exchanged or has expired.   *)
LEMMA DurableStep ==
  ASSUME TypeOK, MutexInv, FreshInv, LoginInv, DurableInv, Next
  PROVE  DurableInv'
  <1> USE DEF DurableInv
  <1>1. CASE Quiet
    BY <1>1, LifetimeAssumption DEF Quiet, TypeOK, Durable, LoadToken, Row, Time
  <1>2. ASSUME NEW t \in Tasks, AuthorizationFlow(t) PROVE DurableInv'
    BY <1>2, DurableKept DEF AuthorizationFlow
  <1>3. ASSUME NEW t \in Tasks, AccessTokenFlow(t) PROVE DurableInv'
    BY <1>3, DurableKept DEF AccessTokenFlow
  <1>4. ASSUME NEW t \in Tasks, RefreshGrant(t) PROVE DurableInv'
    BY <1>4, DurableKept DEF RefreshGrant
  <1>5. ASSUME NEW t \in Tasks, IssuePair(t) PROVE DurableInv'
    <2>1. PICK p \in pending[t] :
            /\ rows' = rows \cup PairRows(p)
            /\ lineage' = lineage \cup {Committed(p)}
      BY <1>5 DEF IssuePair
    <2>2. now' = now
      BY <1>5 DEF IssuePair
    <2>3. \A q \in lineage : Durable(q)'
      BY <2>1, <2>2, DurableKept
    <2>4. Durable(Committed(p))'
      BY <2>1, DurableFresh
    <2> QED
      BY <2>1, <2>3, <2>4
  <1>6. ASSUME NEW t \in Tasks, RotateRefreshPair(t) PROVE DurableInv'
    <2>1. PICK p \in pending[t] : \E old \in LoadToken(p.old, "refresh") :
            /\ rows' = DeletePair(old.pair) \cup PairRows(p)
            /\ lineage' = lineage \cup {Committed(p)}
      BY <1>6 DEF RotateRefreshPair
    <2>2. PICK old \in LoadToken(p.old, "refresh") :
            rows' = DeletePair(old.pair) \cup PairRows(p)
      BY <2>1
    <2>3. req[t].kind = "refresh" /\ now' = now
      BY <1>6 DEF RotateRefreshPair
    <2>4. Committed(p).parent = old.pair
      BY <2>2, <2>3 DEF LoginInv, Committed
    <2>5. ASSUME NEW q \in lineage, q.pair = old.pair PROVE Durable(q)'
      BY <2>1, <2>4, <2>5 DEF Durable
    <2>6. ASSUME NEW q \in lineage, q.pair # old.pair PROVE Durable(q)'
      BY <2>1, <2>2, <2>3, <2>6, DurableKept DEF DeletePair
    <2>7. Durable(Committed(p))'
      BY <2>2, DurableFresh
    <2> QED
      BY <2>1, <2>5, <2>6, <2>7
  <1> QED
    BY StepCases, <1>1, <1>2, <1>3, <1>4, <1>5, <1>6 DEF Writes

(* A dead tag stays dead.                                                  *)
LEMMA DeadStaysDead ==
  ASSUME TypeOK, MutexInv, FreshInv, Next, NEW tag, Minted(tag), DeadBearer(tag)
  PROVE  DeadBearer(tag)'
  <1> USE DEF DeadBearer
  <1>1. CASE Quiet
    BY <1>1, LifetimeAssumption DEF Quiet, TypeOK, Row, Time
  <1>2. ASSUME NEW t \in Tasks, AuthorizationFlow(t) PROVE DeadBearer(tag)'
    BY <1>2 DEF AuthorizationFlow
  <1>3. ASSUME NEW t \in Tasks, AccessTokenFlow(t) PROVE DeadBearer(tag)'
    BY <1>3 DEF AccessTokenFlow
  <1>4. ASSUME NEW t \in Tasks, RefreshGrant(t) PROVE DeadBearer(tag)'
    BY <1>4 DEF RefreshGrant
  <1>5. ASSUME NEW t \in Tasks, IssuePair(t) PROVE DeadBearer(tag)'
    BY <1>5, MintedBelow DEF IssuePair, PairRows
  <1>6. ASSUME NEW t \in Tasks, RotateRefreshPair(t) PROVE DeadBearer(tag)'
    BY <1>6, MintedBelow DEF RotateRefreshPair, PairRows, DeletePair
  <1> QED
    BY StepCases, <1>1, <1>2, <1>3, <1>4, <1>5, <1>6 DEF Writes

(* What the check knows of a request when it arrives.                      *)
LEMMA BearerArrives ==
  ASSUME TypeOK, HeldInv, BearerInv, NEW t \in Tasks, NEW kind, NEW tag,
         NEW redirect, NEW verifier, NEW authentic,
         Arrive(t, kind, tag, redirect, verifier, authentic),
         kind = "mcp" => tag \in knownTokens, DeadTokenNeverForwarded
  PROVE  BearerInv' /\ DeadTokenNeverForwarded'
  BY DEF TypeOK, HeldInv, BearerInv, DeadTokenNeverForwarded, Arrive, Goto, DeadBearer, Minted

(* The check never lets a token through that was dead on arrival.          *)
LEMMA BearerStep ==
  ASSUME TypeOK, MutexInv, FreshInv, HeldInv, BearerInv,
         DeadTokenNeverForwarded, Next
  PROVE  BearerInv' /\ DeadTokenNeverForwarded'
  <1>0. /\ \A tag : Minted(tag) /\ DeadBearer(tag) =>
             Minted(tag)' /\ DeadBearer(tag)'
        /\ \A g \in Row : g.until <= now => g.until <= now'
    <2>1. now \in Nat /\ now' \in Nat /\ now <= now'
      BY StepCases, LifetimeAssumption
      DEF TypeOK, Quiet, Writes, AuthorizationFlow, AccessTokenFlow,
          RefreshGrant, IssuePair, RotateRefreshPair
    <2>2. \A g \in Row : g.until \in Nat
      BY LifetimeAssumption DEF Row, Time
    <2> QED
      BY <2>1, <2>2, DeadStaysDead, LineageGrows DEF Minted
  <1>1. ASSUME NEW t \in Tasks, OauthAuthorizePost(t)
         PROVE BearerInv' /\ DeadTokenNeverForwarded'
    BY <1>1, BearerArrives DEF OauthAuthorizePost
  <1>2. ASSUME NEW t \in Tasks, OauthTokenExchange(t)
         PROVE BearerInv' /\ DeadTokenNeverForwarded'
    BY <1>2, BearerArrives DEF OauthTokenExchange
  <1>3. ASSUME NEW t \in Tasks, OauthTokenRefresh(t)
         PROVE BearerInv' /\ DeadTokenNeverForwarded'
    BY <1>3, BearerArrives DEF OauthTokenRefresh
  <1>4. ASSUME NEW t \in Tasks, McpReverseProxy(t)
         PROVE BearerInv' /\ DeadTokenNeverForwarded'
    BY <1>4, BearerArrives DEF McpReverseProxy
  <1> USE DEF TypeOK, BearerInv, DeadTokenNeverForwarded
  <1>5. ASSUME NEW t \in Tasks, AcquireFirst(t)
         PROVE BearerInv' /\ DeadTokenNeverForwarded'
    BY <1>5, <1>0
    DEF AcquireFirst, FirstLock, SecondLock, LastWait, Lock, Goto
  <1>6. ASSUME NEW t \in Tasks, AcquireSecond(t)
         PROVE BearerInv' /\ DeadTokenNeverForwarded'
    BY <1>6, <1>0
    DEF AcquireSecond, FirstLock, SecondLock, LastWait, Lock, Goto
  <1>7. ASSUME NEW t \in Tasks, Disconnect(t)
         PROVE BearerInv' /\ DeadTokenNeverForwarded'
    BY <1>7, <1>0
    DEF Disconnect, Succeed, Fail, Leave, Released, Goto, NoRequest
  <1>8. ASSUME NEW t \in Tasks, AuthorizationRefused(t)
         PROVE BearerInv' /\ DeadTokenNeverForwarded'
    BY <1>8, <1>0
    DEF AuthorizationRefused, Succeed, Fail, Leave, Released, Goto, NoRequest
  <1>9. ASSUME NEW t \in Tasks, AccessTokenRefused(t)
         PROVE BearerInv' /\ DeadTokenNeverForwarded'
    BY <1>9, <1>0
    DEF AccessTokenRefused, Succeed, Fail, Leave, Released, Goto, NoRequest
  <1>10. ASSUME NEW t \in Tasks, ClientRefused(t)
         PROVE BearerInv' /\ DeadTokenNeverForwarded'
    BY <1>10, <1>0
    DEF ClientRefused, Succeed, Fail, Leave, Released, Goto, NoRequest
  <1>11. ASSUME NEW t \in Tasks, GeneratorFails(t)
         PROVE BearerInv' /\ DeadTokenNeverForwarded'
    BY <1>11, <1>0
    DEF GeneratorFails, Succeed, Fail, Leave, Released, Goto, NoRequest
  <1>12. ASSUME NEW t \in Tasks, RefreshRefused(t)
         PROVE BearerInv' /\ DeadTokenNeverForwarded'
    BY <1>12, <1>0
    DEF RefreshRefused, Succeed, Fail, Leave, Released, Goto, NoRequest
  <1>13. ASSUME NEW t \in Tasks, TransactionFails(t)
         PROVE BearerInv' /\ DeadTokenNeverForwarded'
    BY <1>13, <1>0
    DEF TransactionFails, Succeed, Fail, Leave, Released, Goto, NoRequest
  <1>14. ASSUME NEW t \in Tasks, RecoverTokenFails(t)
         PROVE BearerInv' /\ DeadTokenNeverForwarded'
    BY <1>14, <1>0
    DEF RecoverTokenFails, Succeed, Fail, Leave, Released, Goto, NoRequest
  <1>15. ASSUME NEW t \in Tasks, UpstreamDone(t)
         PROVE BearerInv' /\ DeadTokenNeverForwarded'
    BY <1>15, <1>0
    DEF UpstreamDone, Succeed, Fail, Leave, Released, Goto, NoRequest
  <1>16. ASSUME NEW t \in Tasks, RecoverToken(t)
         PROVE BearerInv' /\ DeadTokenNeverForwarded'
    BY <1>16, <1>0 DEF RecoverToken, LoadToken, Goto, DeadBearer
  <1>17. ASSUME NEW t \in Tasks, ExpiryCheck(t)
         PROVE BearerInv' /\ DeadTokenNeverForwarded'
    <2>1. CASE Fail(t)
      BY <1>17, <2>1, <1>0 DEF ExpiryCheck, Fail, Leave, Goto, NoRequest
    <2>2. CASE /\ \E g \in grant[t] : g.until > now
               /\ Leave(t, "forward", req[t], {})
      <3>1. ~req[t].dead
        BY <1>17, <2>2, LifetimeAssumption DEF ExpiryCheck, Row, Time
      <3> QED
        BY <1>17, <2>2, <3>1, <1>0 DEF ExpiryCheck, Leave, Goto
    <2> QED
      BY <1>17, <2>1, <2>2 DEF ExpiryCheck
  <1>18. ASSUME NEW t \in Tasks, Reply(t)
         PROVE BearerInv' /\ DeadTokenNeverForwarded'
    BY <1>18, <1>0 DEF Reply, Succeed, Fail, Leave, Released, Goto, NoRequest
  <1>19. ASSUME NEW t \in Tasks, AuthorizationFlow(t)
         PROVE BearerInv' /\ DeadTokenNeverForwarded'
    BY <1>19, <1>0 DEF AuthorizationFlow, Succeed, Leave, Released, Goto
  <1>20. ASSUME NEW t \in Tasks, AccessTokenFlow(t)
         PROVE BearerInv' /\ DeadTokenNeverForwarded'
    BY <1>20, <1>0
    DEF AccessTokenFlow, DrawPair, NewPair, TagsPerPair, Goto, Extracted
  <1>21. ASSUME NEW t \in Tasks, RefreshGrant(t)
         PROVE BearerInv' /\ DeadTokenNeverForwarded'
    BY <1>21, <1>0
    DEF RefreshGrant, DrawPair, NewPair, TagsPerPair, Goto, LoadToken
  <1>22. ASSUME NEW t \in Tasks, IssuePair(t)
         PROVE BearerInv' /\ DeadTokenNeverForwarded'
    BY <1>22, <1>0 DEF IssuePair, Succeed, Leave, Goto
  <1>23. ASSUME NEW t \in Tasks, RotateRefreshPair(t)
         PROVE BearerInv' /\ DeadTokenNeverForwarded'
    BY <1>23, <1>0 DEF RotateRefreshPair, Succeed, Leave, Goto
  <1>24. ASSUME CleanupExpired PROVE BearerInv' /\ DeadTokenNeverForwarded'
    BY <1>24, <1>0 DEF CleanupExpired
  <1>25. ASSUME Tick PROVE BearerInv' /\ DeadTokenNeverForwarded'
    BY <1>25, <1>0 DEF Tick
  <1>26. ASSUME CrashRestart PROVE BearerInv' /\ DeadTokenNeverForwarded'
    BY <1>26, <1>0 DEF CrashRestart, NoRequest, Lock
  <1> QED
    BY <1>1, <1>2, <1>3, <1>4, <1>5, <1>6, <1>7, <1>8, <1>9, <1>10, <1>11,
       <1>12, <1>13, <1>14, <1>15, <1>16, <1>17, <1>18, <1>19, <1>20, <1>21,
       <1>22, <1>23, <1>24, <1>25, <1>26 DEF Next, Arrival, HandlerStep

-----------------------------------------------------------------------------
(* The invariant holds initially and is kept by every step.                *)
LEMMA InitIInv ==
  ASSUME Init
  PROVE  IInv
  BY LifetimeAssumption
  DEF Init, IInv, TypeOK, MutexInv, FreshInv, LoginInv, RowInv, ConsentInv,
      HeldInv, DurableInv, BearerInv, OneLivePairPerLogin, RotationIsAChain,
      DeadTokenNeverForwarded, NoRequest, Request, Location, Lock, Tag, Challenge

(* Every step of the gateway keeps the inductive invariant.                *)
LEMMA NextIInv ==
  ASSUME IInv, [Next]_vars
  PROVE  IInv'
  <1>1. CASE Next
    BY <1>1, TypeStep, MutexStep, FreshStep, LoginStep, RowStep, ConsentStep,
       HeldStep, DurableStep, BearerStep, OneLiveStep, ChainStep DEF IInv
  <1>2. CASE UNCHANGED vars
    BY <1>2
    DEF vars, IInv, TypeOK, MutexInv, FreshInv, LoginInv, Unredeemed, RowInv,
        ConsentInv, ConsentedTo, HeldInv, DurableInv, Durable, Minted, BearerInv,
        DeadBearer, LoadToken, OneLivePairPerLogin, RotationIsAChain,
        DeadTokenNeverForwarded
  <1> QED
    BY <1>1, <1>2

(* The inductive invariant holds in every reachable state of the gateway.  *)
THEOREM Invariance == Spec => []IInv
  BY InitIInv, NextIInv, PTL DEF Spec

(* Every variable keeps its type and every stored token has been drawn,    *)
(* whatever the handlers, crashes and clients do.                          *)
THEOREM TypeCorrect == Spec => []TypeOK
  BY Invariance, PTL DEF IInv

(* The oauth_tokens table never holds the tokens of two pairs of one login: *)
(* one code yields one pair, and a rotation leaves nothing behind.          *)
THEOREM OneLivePair == Spec => []OneLivePairPerLogin
  BY Invariance, PTL DEF IInv

(* Refresh tokens and codes are single-use: two committed pairs never have *)
(* the same parent within a login.                                         *)
THEOREM SingleUse == Spec => []RotationIsAChain
  BY Invariance, PTL DEF IInv

(* Every stored token carries the redirect URI its owner consented to.     *)
THEOREM Consent == Spec => []TokensMatchConsent
  <1>1. IInv => TokensMatchConsent
    BY DEF IInv, ConsentInv, ConsentedTo, TokensMatchConsent
  <1> QED
    BY <1>1, Invariance, PTL

(* The bearer check forwards no request whose token was dead on arrival,   *)
(* although it compares the clock after it has let go of the issuer.       *)
THEOREM DeadTokensStop == Spec => []DeadTokenNeverForwarded
  BY Invariance, PTL DEF IInv

(* What a client was handed survives crashes, failed transactions and lost *)
(* replies, until it is exchanged or expires.                              *)
THEOREM DeliveredSurvives == Spec => []DeliveredPairsDurable
  <1>1. IInv => DeliveredPairsDurable
    BY DEF IInv, HeldInv, DurableInv, Durable, Minted, DeliveredPairsDurable
  <1> QED
    BY <1>1, Invariance, PTL

(* The token endpoint, the authorization endpoint and the bearer check     *)
(* never wait for each other in a circle, however many requests there are, *)
(* and none of them keeps a mutex while it waits for the upstream.         *)
THEOREM NobodyWaitsInACircle == Spec => []NoCircularWait
  <1>1. ASSUME TypeOK, MutexInv PROVE NoCircularWait
    <2> SUFFICES ASSUME NEW l \in Lock, NEW t \in locks[l],
                        pc[t] \notin {"flow", "commit"}
                 PROVE  /\ pc[t] = "awaitSecond"
                        /\ \A u \in locks[SecondLock(req[t].kind)] :
                             pc[u] \in {"flow", "commit"}
      BY DEF NoCircularWait
    <2>1. t \in Tasks
      BY <1>1 DEF TypeOK
    <2>2. l = "authorizer" /\ pc[t] = "awaitSecond"
      BY <1>1 DEF MutexInv, Lock
    <2>3. SecondLock(req[t].kind) = "issuer"
      BY <1>1, <2>1, <2>2 DEF MutexInv, SecondLock, FirstLock
    <2> QED
      BY <1>1, <2>2, <2>3 DEF MutexInv
  <1> QED
    BY <1>1, Invariance, PTL DEF IInv

-----------------------------------------------------------------------------
(* OAuthGateway implements TokenLifecycle: every step of the gateway is a  *)
(* step of the abstract token lifecycle, or changes nothing there.         *)
(*   AuthorizationFlow   Authorize                                         *)
(*   IssuePair           Redeem                                            *)
(*   RotateRefreshPair   Rotate                                            *)
(*   CleanupExpired      Drop                                              *)
(*   AccessTokenFlow, RefreshGrant, reads and replies   no change          *)
(*   refusals, failures and crashes that lose a code    Forget             *)

(* Membership in the abstract sets.                                        *)
LEMMA OutstandingIs ==
  ASSUME TypeOK, NEW x
  PROVE  x \in Outstanding <=>
           \/ \E c \in codes : c.code = x
           \/ \E t \in Tasks : \E p \in pending[t] : p.parent = 0 /\ p.login = x
  BY DEF TypeOK, Outstanding, Redeeming, PendingPair

(* A live pair is a stored refresh token.                                  *)
LEMMA LiveIs ==
  ASSUME NEW x
  PROVE  x \in Live <=> \E r \in rows : /\ r.kind = "refresh"
                                        /\ x = [login |-> r.login, pair |-> r.pair]
  BY DEF Live

(* The same after a step.                                                  *)
LEMMA NextLiveIs ==
  ASSUME NEW x
  PROVE  x \in Live' <=> \E r \in rows' : /\ r.kind = "refresh"
                                         /\ x = [login |-> r.login, pair |-> r.pair]
  BY DEF Live

(* Of the rows of a pair one is a refresh token.                           *)
LEMMA PairIsLive ==
  ASSUME NEW p, NEW x
  PROVE  x = [login |-> p.login, pair |-> p.pair] <=>
           \E r \in PairRows(p) : /\ r.kind = "refresh"
                                  /\ x = [login |-> r.login, pair |-> r.pair]
  BY DEF PairRows

(* An empty gateway is an empty lifecycle.                                 *)
LEMMA LifecycleInit ==
  ASSUME Init
  PROVE  Lifecycle!Init
  BY DEF Init, Lifecycle!Init, Outstanding, Redeeming, Live, Used

(* Nothing is drawn or written: codes are forgotten or rows are dropped.   *)
LEMMA QuietRefines ==
  ASSUME TypeOK, Quiet
  PROVE  Lifecycle!Next \/ UNCHANGED Lifecycle!vars
  <1>1. Used' = Used
    BY DEF Quiet, Used
  <1>2. Outstanding' \subseteq Outstanding
    BY DEF Quiet, TypeOK, Outstanding, Redeeming
  <1>3. Live' \subseteq Live
    BY DEF Quiet, Live
  <1>4. CASE rows' = rows
    <2>1. Live' = Live
      BY <1>4 DEF Live
    <2>2. Outstanding' = Outstanding \ (Outstanding \ Outstanding')
      BY <1>2
    <2>3. Lifecycle!Forget(Outstanding \ Outstanding')
      BY <1>1, <2>1, <2>2 DEF Lifecycle!Forget
    <2> QED
      BY <2>3 DEF Lifecycle!Next
  <1>5. CASE codes' = codes /\ pending' = pending
    <2>1. Outstanding' = Outstanding
      BY <1>5 DEF Outstanding, Redeeming
    <2>2. Lifecycle!Drop(Live \ Live')
      BY <1>1, <1>3, <2>1 DEF Lifecycle!Drop
    <2> QED
      BY <2>2 DEF Lifecycle!Next
  <1> QED
    BY <1>4, <1>5 DEF Quiet

(* A consent makes a fresh code outstanding.                               *)
LEMMA AuthorizeRefines ==
  ASSUME IInv, NEW t \in Tasks, AuthorizationFlow(t)
  PROVE  Lifecycle!Next
  <1> USE DEF IInv, TypeOK
  <1>1. nextTag \in Tag
    BY LifetimeAssumption DEF AuthorizationFlow, CodesLeft, TagsLeft, Tag
  <1>2. nextTag \notin Used
    BY <1>1 DEF FreshInv, Used, Tag
  <1>3. pending' = pending /\ rows' = rows /\ lineage' = lineage
    BY DEF AuthorizationFlow, Succeed, Leave, MutexInv
  <1>4. Outstanding' = Outstanding \cup {nextTag}
    <2>1. Redeeming' = Redeeming
      BY <1>3 DEF Redeeming
    <2>2. PICK c : c.code = nextTag /\ codes' = codes \cup {c}
      BY DEF AuthorizationFlow
    <2> QED
      BY <2>1, <2>2 DEF Outstanding
  <1>5. Used' = Used \cup {nextTag}
    <2>1. PICK c : c.login = nextTag /\ consents' = consents \cup {c}
      BY DEF AuthorizationFlow
    <2> QED
      BY <1>3, <2>1 DEF Used
  <1>6. Live' = Live
    BY <1>3 DEF Live
  <1>7. Lifecycle!Authorize(nextTag)
    BY <1>2, <1>4, <1>5, <1>6 DEF Lifecycle!Authorize
  <1> QED
    BY <1>1, <1>7 DEF Lifecycle!Next

(* Taking a code out of the map leaves it outstanding: it is redeemed at   *)
(* the commit.                                                             *)
LEMMA ExchangeRefines ==
  ASSUME IInv, NEW t \in Tasks, AccessTokenFlow(t)
  PROVE  UNCHANGED Lifecycle!vars
  <1> USE DEF IInv
  <1>1. PICK c \in codes : /\ codes' = codes \ {c}
                           /\ DrawPair(t, NewPair(c.redirect, c.code, 0, 0))
    BY DEF AccessTokenFlow, Extracted
  <1>2. pending[t] = {} /\ \A u \in Tasks : u # t => pending'[u] = pending[u]
    BY <1>1 DEF TypeOK, MutexInv, AccessTokenFlow, DrawPair
  <1>3. PICK p : p.parent = 0 /\ p.login = c.code /\ pending'[t] = {p}
    <2>1. pending'[t] = {NewPair(c.redirect, c.code, 0, 0)}
      BY <1>1 DEF TypeOK, DrawPair
    <2>2. /\ NewPair(c.redirect, c.code, 0, 0).parent = 0
          /\ NewPair(c.redirect, c.code, 0, 0).login = c.code
      BY DEF NewPair
    <2> QED
      BY <2>1, <2>2
  <1>4. \A d \in codes : d \in codes' \/ d.code = c.code
    BY <1>1
  <1>5. c.code \in Tag
    BY DEF TypeOK, Code
  <1>6. Outstanding' = Outstanding
    BY <1>1, <1>2, <1>3, <1>4, <1>5 DEF Outstanding, Redeeming
  <1>7. Live' = Live /\ Used' = Used
    BY DEF AccessTokenFlow, Live, Used
  <1> QED
    BY <1>6, <1>7 DEF Lifecycle!vars

(* A refresh that has drawn its tags has not changed anything yet.         *)
LEMMA RefreshRefines ==
  ASSUME IInv, NEW t \in Tasks, RefreshGrant(t)
  PROVE  UNCHANGED Lifecycle!vars
  <1> USE DEF IInv
  <1>1. PICK r \in rows : DrawPair(t, NewPair(r.redirect, r.login, r.pair, r.token))
    BY DEF RefreshGrant, LoadToken
  <1>2. pending[t] = {} /\ \A u \in Tasks : u # t => pending'[u] = pending[u]
    BY <1>1 DEF TypeOK, MutexInv, RefreshGrant, DrawPair
  <1>3. PICK p : p.parent = r.pair /\ pending'[t] = {p}
    <2>1. pending'[t] = {NewPair(r.redirect, r.login, r.pair, r.token)}
      BY <1>1 DEF TypeOK, DrawPair
    <2>2. NewPair(r.redirect, r.login, r.pair, r.token).parent = r.pair
      BY DEF NewPair
    <2> QED
      BY <2>1, <2>2
  <1>4. r.pair # 0
    BY DEF FreshInv
  <1>5. Redeeming' = Redeeming
    BY <1>2, <1>3, <1>4 DEF Redeeming
  <1> QED
    BY <1>5 DEF RefreshGrant, Outstanding, Live, Used, Lifecycle!vars

(* While a pair is pending no other is.                                    *)
LEMMA OnePending ==
  ASSUME TypeOK, MutexInv, NEW t \in Tasks, pc[t] = "commit",
         NEW u \in Tasks, u # t
  PROVE  pending[u] = {}
  BY DEF TypeOK, MutexInv, Lock

(* The commit of an exchange turns the code into the root pair of a login. *)
LEMMA RedeemRefines ==
  ASSUME IInv, NEW t \in Tasks, IssuePair(t)
  PROVE  Lifecycle!Next
  <1> USE DEF IInv
  <1>1. PICK p \in pending[t] :
          /\ rows' = rows \cup PairRows(p)
          /\ lineage' = lineage \cup {Committed(p)}
          /\ Succeed(t, {AccessTag(p.pair), RefreshTag(p.pair)})
    BY DEF IssuePair
  <1>2. /\ p.parent = 0 /\ Unredeemed(p.login)
        /\ \A c \in codes : c.code # p.login
    BY DEF LoginInv, IssuePair
  <1>3. p.login \in Outstanding /\ p.pair \in Tag
    BY <1>2, OutstandingIs DEF TypeOK, PendingPair
  <1>4. p.pair \notin Used
    <2>1. \A c \in consents : c.login # p.pair
      BY DEF FreshInv, TypeOK, PendingPair, Tag
    <2>2. \A q \in lineage : q.pair # p.pair
      BY DEF FreshInv, TypeOK, PendingPair, Tag
    <2> QED
      BY <2>1, <2>2 DEF Used
  <1>5. \A l \in Live : l.login # p.login
    BY <1>2 DEF Live, Unredeemed
  <1>6. Outstanding' = Outstanding \ {p.login}
    <2>1. codes' = codes /\ \A u \in Tasks : pending'[u] = {}
      BY <1>1, OnePending DEF IssuePair, Succeed, Leave, TypeOK
    <2>2. Redeeming' = {}
      BY <2>1 DEF Redeeming
    <2>3. \A u \in Tasks : \A q \in pending[u] : q.login = p.login
      BY OnePending DEF IssuePair, MutexInv
    <2>4. \A x : x \in Redeeming => x = p.login
      BY <2>3 DEF Redeeming
    <2> QED
      BY <1>2, <2>1, <2>2, <2>4 DEF Outstanding
  <1>7. Live' = Live \cup {[login |-> p.login, pair |-> p.pair]}
    <2>1. \A x : x \in Live' <=>
            x \in Live \/ x = [login |-> p.login, pair |-> p.pair]
      BY <1>1, LiveIs, NextLiveIs, PairIsLive
    <2> QED
      BY <2>1
  <1>8. Used' = Used \cup {p.pair}
    <2>1. Committed(p).pair = p.pair /\ consents' = consents
      BY DEF Committed, IssuePair
    <2> QED
      BY <1>1, <2>1 DEF Used
  <1>9. Lifecycle!Redeem(p.login, p.pair)
    BY <1>3, <1>4, <1>5, <1>6, <1>7, <1>8 DEF Lifecycle!Redeem
  <1> QED
    BY <1>3, <1>9 DEF Lifecycle!Next

(* The commit of a refresh replaces the pair it read.                      *)
LEMMA RotateRefines ==
  ASSUME IInv, NEW t \in Tasks, RotateRefreshPair(t)
  PROVE  Lifecycle!Next
  <1> USE DEF IInv
  <1>1. PICK p \in pending[t] : \E old \in LoadToken(p.old, "refresh") :
          /\ rows' = DeletePair(old.pair) \cup PairRows(p)
          /\ lineage' = lineage \cup {Committed(p)}
          /\ Succeed(t, {AccessTag(p.pair), RefreshTag(p.pair)})
    BY DEF RotateRefreshPair
  <1>2. PICK old \in LoadToken(p.old, "refresh") :
          rows' = DeletePair(old.pair) \cup PairRows(p)
    BY <1>1
  <1>3. /\ old \in rows /\ old.kind = "refresh"
        /\ old.pair = p.parent /\ old.login = p.login /\ p.parent # 0
    BY <1>2 DEF LoginInv, RotateRefreshPair, LoadToken
  <1> DEFINE dead == [login |-> old.login, pair |-> old.pair]
             fresh == [login |-> p.login, pair |-> p.pair]
  <1>4. dead \in Live /\ p.pair \in Tag
    BY <1>3 DEF Live, TypeOK, PendingPair
  <1>5. p.pair \notin Used
    <2>1. \A c \in consents : c.login # p.pair
      BY DEF FreshInv, TypeOK, PendingPair, Tag
    <2>2. \A q \in lineage : q.pair # p.pair
      BY DEF FreshInv, TypeOK, PendingPair, Tag
    <2> QED
      BY <2>1, <2>2 DEF Used
  <1>6. Outstanding' = Outstanding
    <2>1. codes' = codes /\ \A u \in Tasks : pending'[u] = {}
      BY <1>1, OnePending DEF RotateRefreshPair, Succeed, Leave, TypeOK
    <2>2. \A q \in pending[t] : q.parent # 0
      BY DEF LoginInv, RotateRefreshPair
    <2> QED
      BY <2>1, <2>2, OnePending DEF RotateRefreshPair, Outstanding, Redeeming
  <1>7. Live' = (Live \ {dead}) \cup {fresh}
    <2>1. \A r \in rows : r.pair = old.pair <=> [login |-> r.login, pair |-> r.pair] = dead
      BY <1>3 DEF RowInv
    <2>2. \A x : x \in Live' <=> x = fresh \/ (x \in Live /\ x # dead)
      BY <1>2, <2>1, LiveIs, NextLiveIs, PairIsLive DEF DeletePair
    <2>3. dead # fresh
      BY <1>4, <1>3 DEF FreshInv, RowInv, TypeOK, PendingPair, Row, Tag
    <2> QED
      BY <2>2, <2>3
  <1>8. Used' = Used \cup {p.pair}
    <2>1. Committed(p).pair = p.pair /\ consents' = consents
      BY DEF Committed, RotateRefreshPair
    <2> QED
      BY <1>1, <2>1 DEF Used
  <1>9. Lifecycle!Rotate(dead, p.pair)
    BY <1>3, <1>4, <1>5, <1>6, <1>7, <1>8 DEF Lifecycle!Rotate
  <1> QED
    BY <1>4, <1>9 DEF Lifecycle!Next

(* A step of the gateway is a step of the lifecycle or leaves it alone.    *)
LEMMA LifecycleStep ==
  ASSUME IInv, [Next]_vars
  PROVE  [Lifecycle!Next]_Lifecycle!vars
  <1>1. CASE UNCHANGED vars
    BY <1>1 DEF vars, Lifecycle!vars, Outstanding, Redeeming, Live, Used
  <1>2. ASSUME NEW t \in Tasks, Writes(t)
        PROVE  Lifecycle!Next \/ UNCHANGED Lifecycle!vars
    BY <1>2, AuthorizeRefines, ExchangeRefines, RefreshRefines, RedeemRefines,
       RotateRefines DEF Writes
  <1>3. CASE Quiet
    BY <1>3, QuietRefines DEF IInv
  <1> QED
    BY <1>1, <1>2, <1>3, StepCases DEF IInv

(* The gateway implements the abstract token lifecycle.                    *)
THEOREM Refinement == Spec => ImplementsTokenLifecycle
  BY Invariance, LifecycleInit, LifecycleStep, PTL
  DEF Spec, ImplementsTokenLifecycle, Lifecycle!Spec
=============================================================================
