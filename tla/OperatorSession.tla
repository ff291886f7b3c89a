-------------------------- MODULE OperatorSession --------------------------
(***************************************************************************)
(* Operator sessions of the console: login with a personal access token,   *)
(* rotation of the refresh token, logout, protected reads, and legal-hold  *)
(* changes that need a step-up proof.  Several tabs of one browser share a *)
(* cookie jar; every request reads it once, when it is sent.               *)
(*                                                                         *)
(* Outside development the auth service owns the sessions.  Its calls are  *)
(* modelled command by command against the Redis store of consumed and     *)
(* revoked identifiers, because requests of other tabs run in between; the *)
(* API may give up on a call that the auth service goes on with.  In       *)
(* development the API signs provisional tokens itself and revokes none.   *)
(*                                                                         *)
(* Revocation markers live as long as a refresh token and are not expired  *)
(* here: the properties speak of that time.                                *)
(***************************************************************************)
EXTENDS Integers, Sequences, FiniteSets

CONSTANTS
  Tabs,         \* tabs of the browser, each of which makes one request
  SessionCases, \* [settings, jar, pairs, ops]: deployment, cookies held, operations, step-ups
  MaxMishaps    \* bound of failed commands, abandoned calls and lost responses

NoToken == [form |-> "none"]
Nobody == 0
NoClaims == [sid |-> Nobody, n |-> Nobody]

VARIABLES
  settings,  \* the configuration the process was started with
  jar,       \* cookies of the browser: [access, refresh, csrf]
  req,       \* request -> where it is and what it carries
  pairs,     \* the token pairs issued: [sid, from], by serial number
  lapsed,    \* tokens past their expiry: <<kind, serial>>
  consumed,  \* refresh token serials in the auth store
  revoked,   \* sessions (with their families) in the auth store
  accessOut, \* access token serials revoked in the auth store
  spent,     \* step-up serials in the auth store
  ended,     \* sessions whose end was reported to a client
  grants,    \* [step, by] for every legal-hold change made
  holds,     \* an active hold of the scope exists
  admin,     \* the user is an owner or admin of the organisation
  csrfs,     \* CSRF tokens minted
  mishaps    \* failed commands, abandoned calls, lost responses, expiries

store == <<consumed, revoked, accessOut, spent>>
sessionVars == <<settings, jar, req, pairs, lapsed, store, ended, grants, holds, admin, csrfs, mishaps>>

----------------------------------------------------------------------------
(* Types *)

Ops == {"none", "login", "refresh", "logout", "me", "read", "hold", "unhold"}
ProtectedOps == {"me", "read", "hold", "unhold"}
Configurations ==
  [env : STRING, feature : BOOLEAN, hmac : BOOLEAN, keys : BOOLEAN, csrf : BOOLEAN,
   secure : BOOLEAN, ca : BOOLEAN]
KeyIds == {"v1", "v0"}         \* the key of this deployment, and any other
Issuers == {"ibex", "other"}
SessionTokens ==
  [form : {"jwt"}, kind : {"access", "refresh"}, sid : Nat, n : Nat, alg : {"RS256", "HS256"},
   kid : KeyIds, iss : Issuers, perms : SUBSET {"metadata_read", "legal_hold_manage"}]
StepUpTokens ==
  [form : {"jwt"}, kind : {"step_up"}, sid : Nat, n : Nat, alg : {"RS256", "HS256"},
   kid : KeyIds, iss : Issuers, action : STRING]
CookieTokens == SessionTokens \union {NoToken}
Jars == [access : CookieTokens, refresh : CookieTokens, csrf : Nat]
ProofPairs == [access : CookieTokens, refresh : CookieTokens]
CookieHeaders ==
  [kind : {"keep", "clear"}]
    \union [kind : {"set"}, access : SessionTokens, refresh : SessionTokens, csrf : Nat]
    \union [kind : {"access"}, access : SessionTokens, csrf : Nat]
PairRows == [sid : Nat, from : Nat]
GrantRows == [step : Nat, by : Nat, late : SUBSET Nat]
TabOps == [op : Ops, pat : BOOLEAN, step : StepUpTokens \union {NoToken}]

\* The cookies a browser starts with came out of one login of an earlier day.
ASSUME SessionAssumption ==
  /\ MaxMishaps \in Nat
  /\ \A s \in SessionCases :
       /\ s.settings \in Configurations /\ s.jar \in Jars /\ s.ops \in [Tabs -> TabOps]
       /\ s.pairs \in Seq(PairRows) /\ \A i \in 1..Len(s.pairs) : s.pairs[i].from = Nobody
       /\ s.jar.access # NoToken /\ s.jar.refresh # NoToken => s.jar.access.sid = s.jar.refresh.sid

----------------------------------------------------------------------------
(* Which configurations a process starts with *)

RejectHmacOutsideDevelopment(s) == s.env # "development" => ~s.hmac
RequireNonDevOperatorMaterial(s) == s.keys /\ s.csrf /\ s.secure
ValidateAuthCaBoundary(s) == s.env # "development" => s.ca
ValidateOperatorSessionBoundary(s) ==
  /\ RejectHmacOutsideDevelopment(s)
  /\ s.env # "development" /\ s.feature => RequireNonDevOperatorMaterial(s)
MayStart(s) == ValidateOperatorSessionBoundary(s) /\ ValidateAuthCaBoundary(s)

Development == settings.env = "development"

----------------------------------------------------------------------------
(* Tokens and their local verification *)

\* A token of the pair with serial number n; HS256 is the provisional issuer's.
Token(kind, sid, n, alg) ==
  [form |-> "jwt", kind |-> kind, sid |-> sid, n |-> n, alg |-> alg, kid |-> "v1", iss |-> "ibex",
   perms |-> {"metadata_read", "legal_hold_manage"}]

IssueTokenOpts(kind, n) == Token(kind, n, n, "HS256")
AuthToken(kind, sid, n) == Token(kind, sid, n, "RS256")

\* Three parts of bounded length.
SplitJwt(t) == t.form = "jwt"
PeekTokenAlg(t) == t.alg
HeaderKid(t) == t.kid
\* The key is of this deployment: a token of another key id was signed with another key.
VerifyRs256(t) == settings.keys /\ t.kid = "v1"
VerifyHs256(t) == settings.hmac /\ t.kid = "v1"

AssertIssuerAudience(t) == t.iss = "ibex"
AssertExpectedKind(t, kind) == t.kind = kind
AssertTemporalClaims(t) == <<t.kind, t.n>> \notin lapsed
\* sub, org_id, exp, iat and jti are there in every token either issuer signs.
ToClaims(t) == [sid |-> t.sid, n |-> t.n]
ValidateClaims(t, kind) ==
  AssertIssuerAudience(t) /\ AssertExpectedKind(t, kind) /\ AssertTemporalClaims(t)

VerifyRs256Token(t, kind) == HeaderKid(t) = "v1" /\ VerifyRs256(t) /\ ValidateClaims(t, kind)
VerifyHs256Token(t, kind) == VerifyHs256(t) /\ ValidateClaims(t, kind)
VerifyTokenOpts(t, kind) ==
  /\ SplitJwt(t)
  /\ \/ PeekTokenAlg(t) = "RS256" /\ VerifyRs256Token(t, kind)
     \/ PeekTokenAlg(t) = "HS256" /\ VerifyHs256Token(t, kind)

\* The auth service's own verifier knows RS256 and its one key id.
AuthVerify(t, kind) ==
  SplitJwt(t) /\ t.alg = "RS256" /\ t.kid = "v1" /\ ValidateClaims(t, kind)

----------------------------------------------------------------------------
(* Cookies and the CSRF check *)

EmptyJar == [access |-> NoToken, refresh |-> NoToken, csrf |-> Nobody]
Keep == [kind |-> "keep"]

\* Faulty variant: the refresh cookie of an earlier login is left in place.
ApplySessionCookiesAccess(a, f) == [kind |-> "access", access |-> a, csrf |-> csrfs + 1]
\* Both tokens of the pair and a new CSRF token.
ApplySessionCookies(a, f) == [kind |-> "set", access |-> a, refresh |-> f, csrf |-> csrfs + 1]

\* Development: the access cookie only, the refresh cookie stays.
ApplyAccessCookie(a) == [kind |-> "access", access |-> a, csrf |-> csrfs + 1]
ClearSessionCookies == [kind |-> "clear"]

Applied(set) ==
  CASE set.kind = "set"    -> [access |-> set.access, refresh |-> set.refresh, csrf |-> set.csrf]
    [] set.kind = "access" -> [jar EXCEPT !.access = set.access, !.csrf = set.csrf]
    [] set.kind = "clear"  -> EmptyJar
    [] OTHER               -> jar

SessionCookiesPresent(c) == c.access # NoToken \/ c.refresh # NoToken
VerifyCsrfToken(cookie, header) == cookie # Nobody /\ cookie = header
\* GET is safe and login is exempt.
ShouldSkip(op) == op \in {"login", "me", "read"}
CsrfAllows(op, c, header) ==
  \/ ShouldSkip(op)
  \/ ~SessionCookiesPresent(c)
  \/ settings.csrf /\ VerifyCsrfToken(c.csrf, header)

----------------------------------------------------------------------------
(* Steps of a request *)

At(r, pc) == req[r].pc = pc
Cookie(r) == req[r].cookies
Others == <<settings, jar, pairs, lapsed, store, ended, grants, holds, admin, csrfs, mishaps>>

Proceed(r, pc) == req' = [req EXCEPT ![r] = [req[r] EXCEPT !.pc = pc]]
\* The response is on its way with its cookies; a call the API gave up on has none.
Responded(q, out, set) == [q EXCEPT !.pc = "deliver", !.out = out, !.set = set]
Answered(q, out, set) == IF q.gone THEN [q EXCEPT !.pc = "done"] ELSE Responded(q, out, set)
Answer(r, out, set) == req' = [req EXCEPT ![r] = Answered(req[r], out, set)]

\* Errors of logout take the cookies away, other errors leave them.
ErrorCookies(op) == IF op = "logout" THEN ClearSessionCookies ELSE Keep
Deny(r, out) == Answer(r, out, ErrorCookies(req[r].op))

RequireOperatorEnabled == settings.feature
RequireMeVerifyMaterial == settings.keys \/ (Development /\ settings.hmac)

Proof(t, kind) == VerifyTokenOpts(t, kind)
LogoutClaims(c, kind) ==
  LET t == IF kind = "access" THEN c.access ELSE c.refresh
  IN  IF t # NoToken /\ Proof(t, kind) THEN ToClaims(t) ELSE NoClaims
LogoutProofsMismatch(a, f) == a # NoClaims /\ f # NoClaims /\ a.sid # f.sid
\* The session to revoke, or NoClaims when the cookies prove none.
SelectLogoutClaims(c) ==
  LET a == LogoutClaims(c, "access")
      f == LogoutClaims(c, "refresh")
  IN  IF LogoutProofsMismatch(a, f) THEN NoClaims
      ELSE IF a # NoClaims THEN a ELSE f

\* Only proofs that verified here are sent on.
RevokeSessionParams(c) ==
  [access  |-> IF LogoutClaims(c, "access") # NoClaims THEN c.access ELSE NoToken,
   refresh |-> IF LogoutClaims(c, "refresh") # NoClaims THEN c.refresh ELSE NoToken]

AuthOwnedRefresh(t) == t.alg = "RS256" \/ (settings.keys /\ t.alg # "HS256")

\* Faulty variant: a signature the API can check itself is enough.
ValidatesLocallyAlways == TRUE
\* Only development decides without the auth service.
ValidatesLocally == Development

\* What the router decides before the first call it waits for.
FirstOfRefresh(c) ==
  IF c.refresh = NoToken THEN "invalid"
  ELSE IF ~Development THEN "r_session"
  ELSE IF ~SplitJwt(c.refresh) THEN "invalid"
  ELSE IF ~AuthOwnedRefresh(c.refresh) THEN "hmac"
  ELSE IF settings.keys THEN "r_session" ELSE "degraded"

FirstOfLogout(c) ==
  IF Development THEN "clear"
  ELSE IF SelectLogoutClaims(c) = NoClaims THEN "invalid" ELSE "revoke"

FirstOfProtected(op, c) ==
  IF op = "me" /\ ~RequireMeVerifyMaterial THEN "degraded"
  ELSE IF c.access = NoToken THEN IF op = "me" THEN "bearer" ELSE "invalid"
  ELSE IF ~ValidatesLocally THEN "v_session"
  ELSE IF VerifyTokenOpts(c.access, "access") THEN "admitted" ELSE "invalid"

First(op, c) ==
  IF ~RequireOperatorEnabled THEN "degraded"
  ELSE CASE op = "login"   -> "pat"
         [] op = "refresh" -> FirstOfRefresh(c)
         [] op = "logout"  -> FirstOfLogout(c)
         [] OTHER          -> FirstOfProtected(op, c)

\* The script of the page reads the CSRF token, then the browser adds the cookies.
Begin(r) ==
  /\ At(r, "idle")
  /\ req' = [req EXCEPT ![r] = [req[r] EXCEPT !.pc = "send", !.header = jar.csrf]]
  /\ UNCHANGED Others

\* The record of a request that was sent, decided at once or on its way to its first call.
Sent(q) ==
  LET first == IF CsrfAllows(q.op, jar, q.header) THEN First(q.op, jar) ELSE "csrf_failed"
      sent  == [q EXCEPT !.cookies = jar, !.late = ended, !.proofs = RevokeSessionParams(jar)]
  IN  CASE first \in {"invalid", "degraded", "csrf_failed"} ->
             Responded(sent, first, IF first = "invalid" THEN ErrorCookies(q.op) ELSE Keep)
        [] first = "clear" -> Responded(sent, "ok", ClearSessionCookies)
        [] OTHER -> [sent EXCEPT !.pc = first]

Send(r) ==
  /\ At(r, "send")
  /\ req' = [req EXCEPT ![r] = Sent(req[r])]
  /\ UNCHANGED Others

\* The browser applies the Set-Cookie headers, or the response is lost on the way.
Deliver(r) ==
  /\ At(r, "deliver")
  /\ \/ jar' = Applied(req[r].set) /\ UNCHANGED mishaps
     \/ mishaps < MaxMishaps /\ mishaps' = mishaps + 1 /\ UNCHANGED jar
  /\ Proceed(r, "done")
  /\ UNCHANGED <<settings, pairs, lapsed, store, ended, grants, holds, admin, csrfs>>

----------------------------------------------------------------------------
(* Login *)

Mint(sid, from) == pairs' = Append(pairs, [sid |-> sid, from |-> from])
NewPair(sid) == LET n == Len(pairs) + 1
                IN  ApplySessionCookies(AuthToken("access", sid, n), AuthToken("refresh", sid, n))
LoginCookies == NewPair(Len(pairs) + 1)
RefreshedCookies(sid) == NewPair(sid)
LocalPair == LET n == Len(pairs) + 1
             IN  ApplySessionCookies(IssueTokenOpts("access", n), IssueTokenOpts("refresh", n))

\* The personal access token is validated first; the provisional pair follows at once.
ValidatePat(r) ==
  /\ At(r, "pat")
  /\ \/ Deny(r, "invalid") /\ UNCHANGED <<pairs, csrfs>>
     \/ ~Development /\ Proceed(r, "issue") /\ UNCHANGED <<pairs, csrfs>>
     \/ Development /\ ~settings.hmac /\ Deny(r, "degraded") /\ UNCHANGED <<pairs, csrfs>>
     \/ /\ Development /\ settings.hmac
        /\ Mint(Len(pairs) + 1, Nobody) /\ Answer(r, "ok", LocalPair) /\ csrfs' = csrfs + 1
  /\ UNCHANGED <<settings, jar, lapsed, store, ended, grants, holds, admin, mishaps>>

IssueFromCaller(r) ==
  /\ At(r, "issue")
  /\ Mint(Len(pairs) + 1, Nobody)
  /\ Answer(r, "ok", LoginCookies) /\ csrfs' = csrfs + 1
  /\ UNCHANGED <<settings, jar, lapsed, store, ended, grants, holds, admin, mishaps>>

----------------------------------------------------------------------------
(* Refresh *)

\* Provisional tokens: the refresh token is verified and not rotated.
RefreshViaHmac(r) ==
  /\ At(r, "hmac")
  /\ IF settings.hmac /\ VerifyTokenOpts(Cookie(r).refresh, "refresh")
     THEN /\ Mint(Cookie(r).refresh.sid, Nobody)
          /\ Answer(r, "ok", ApplyAccessCookie(IssueTokenOpts("access", Len(pairs) + 1)))
          /\ csrfs' = csrfs + 1
     ELSE /\ Deny(r, IF settings.hmac THEN "invalid" ELSE "degraded")
          /\ UNCHANGED <<pairs, csrfs>>
  /\ UNCHANGED <<settings, jar, lapsed, store, ended, grants, holds, admin, mishaps>>

\* One lookup of the auth store: go on, or refuse because the state is revoked.
Lookup(r, from, isRevoked, to) ==
  /\ At(r, from)
  /\ IF isRevoked THEN Deny(r, "invalid") ELSE Proceed(r, to)
  /\ UNCHANGED Others

RefreshSessionLookup(r) ==
  LET t == Cookie(r).refresh
  IN  Lookup(r, "r_session", ~AuthVerify(t, "refresh") \/ t.sid \in revoked, "r_family")
RefreshFamilyLookup(r) == Lookup(r, "r_family", Cookie(r).refresh.sid \in revoked, "r_consume")

\* Faulty variant: the identifier is looked up and not claimed.
ConsumeOnceRead(n) == IF n \in consumed THEN consumed \union {n} ELSE consumed
\* SET NX: the set afterwards; unchanged means that it was there.
ConsumeOnce(n) == consumed \union {n}

ConsumeRefresh(r) ==
  LET t == Cookie(r).refresh
  IN  /\ At(r, "r_consume")
      /\ consumed' = ConsumeOnce(t.n)
      /\ IF t.n \in consumed
         THEN Proceed(r, "r_replay") /\ UNCHANGED <<pairs, csrfs>>
         ELSE /\ Mint(t.sid, t.n) /\ Answer(r, "ok", RefreshedCookies(t.sid)) /\ csrfs' = csrfs + 1
      /\ UNCHANGED <<settings, jar, lapsed, revoked, accessOut, spent, ended, grants, holds,
                     admin, mishaps>>

\* A refresh token presented again ends its session and family.
RevokeRefreshReplay(r) ==
  /\ At(r, "r_replay")
  /\ revoked' = revoked \union {Cookie(r).refresh.sid}
  /\ ended' = IF req[r].gone THEN ended ELSE ended \union {Cookie(r).refresh.sid}
  /\ Deny(r, "invalid")
  /\ UNCHANGED <<settings, jar, pairs, lapsed, consumed, accessOut, spent, grants, holds, admin,
                 csrfs, mishaps>>

----------------------------------------------------------------------------
(* Logout *)

\* The auth service verifies the proofs again, apart from their revocation.
VerifyRevokeSessionProofs(p) ==
  LET a == p.access # NoToken /\ AuthVerify(p.access, "access")
      f == p.refresh # NoToken /\ AuthVerify(p.refresh, "refresh")
  IN  IF a /\ f /\ p.access.sid # p.refresh.sid THEN NoClaims
      ELSE IF a THEN ToClaims(p.access)
      ELSE IF f THEN ToClaims(p.refresh) ELSE NoClaims

\* One script writes the markers of session and family.
RevokeSession(r) ==
  LET claims == VerifyRevokeSessionProofs(req[r].proofs)
  IN  /\ At(r, "revoke")
      /\ IF claims = NoClaims THEN Deny(r, "invalid") /\ UNCHANGED revoked
         ELSE /\ revoked' = revoked \union {claims.sid}
              /\ req' = [req EXCEPT ![r] =
                           [req[r] EXCEPT !.pc = "revoke_access", !.sid = claims.sid]]
      /\ UNCHANGED <<settings, jar, pairs, lapsed, consumed, accessOut, spent, ended, grants,
                     holds, admin, csrfs, mishaps>>

\* A command of its own, for the access token that was among the proofs.
RevokeAccess(r) ==
  /\ At(r, "revoke_access")
  /\ accessOut' = accessOut \union
       (IF req[r].proofs.access # NoToken THEN {req[r].proofs.access.n} ELSE {})
  /\ ended' = IF req[r].gone THEN ended ELSE ended \union {req[r].sid}
  /\ Answer(r, "ok", ClearSessionCookies)
  /\ UNCHANGED <<settings, jar, pairs, lapsed, consumed, revoked, spent, grants, holds, admin,
                 csrfs, mishaps>>

----------------------------------------------------------------------------
(* Protected requests *)

\* ValidateAccess: signature, then session, family and token identifier.
ValidateSessionLookup(r) ==
  LET t == Cookie(r).access
  IN  Lookup(r, "v_session", ~AuthVerify(t, "access") \/ t.sid \in revoked, "v_family")
ValidateFamilyLookup(r) == Lookup(r, "v_family", Cookie(r).access.sid \in revoked, "v_access")
ValidateAccessLookup(r) == Lookup(r, "v_access", Cookie(r).access.n \in accessOut, "admitted")

\* GET /me without a cookie falls back to a personal access token.
MeBearer(r) ==
  /\ At(r, "bearer")
  /\ \/ req[r].pat /\ Answer(r, "ok", Keep)
     \/ Deny(r, "invalid")
  /\ UNCHANGED Others

RequiresStepUp(p) == p = "legal_hold_manage"
AssertOperatorPermission(perms, p) == settings.feature /\ p \in perms /\ ~RequiresStepUp(p)

Admitted(r) ==
  /\ At(r, "admitted")
  /\ CASE req[r].op = "me"   -> Answer(r, "ok", Keep)
       [] req[r].op = "read" -> IF AssertOperatorPermission(Cookie(r).access.perms, "metadata_read")
                                THEN Answer(r, "ok", Keep) ELSE Deny(r, "forbidden")
       [] OTHER -> Proceed(r, "role")
  /\ UNCHANGED Others

\* A step-up token binds its session and action; this console asks for legal_hold.manage.
StepUpToken(r) == req[r].step
ResolveStepUpProof(r) == StepUpToken(r) # NoToken
\* The session the request was admitted under, as validation reported it.
ParseValidatedSession(r) == ToClaims(Cookie(r).access)
IdentityMatches(r) == StepUpToken(r).sid = ParseValidatedSession(r).sid
ActionMatches(r) == StepUpToken(r).action = "legal_hold.manage"
VerifyStepUpToken(t) == VerifyTokenOpts(t, "step_up")
EnforceLocalStepUp(r) ==
  VerifyStepUpToken(StepUpToken(r)) /\ IdentityMatches(r) /\ ActionMatches(r)

\* Where the proof takes the request: on, to the auth service, or nowhere.
EnforceStepUp(r) ==
  IF ~ResolveStepUpProof(r) THEN "forbidden"
  ELSE IF ~Development THEN "s_session"
  ELSE IF EnforceLocalStepUp(r) THEN "change" ELSE "forbidden"

\* The role is read in a transaction of its own, then the proof is asked for.
RequireLegalHoldManage(r) ==
  /\ At(r, "role")
  /\ LET next == IF admin /\ "legal_hold_manage" \in Cookie(r).access.perms
                 THEN EnforceStepUp(r) ELSE "forbidden"
     IN  IF next = "forbidden" THEN Deny(r, "forbidden") ELSE Proceed(r, next)
  /\ UNCHANGED Others

\* Subject, organisation, session, action and permission are those of the request.
MatchesStepUpExpectations(r) == IdentityMatches(r) /\ ActionMatches(r)

StepUpSessionLookup(r) ==
  LET t == StepUpToken(r)
      usable == AuthVerify(t, "step_up") /\ MatchesStepUpExpectations(r)
  IN  /\ At(r, "s_session")
      /\ IF ~usable \/ t.sid \in revoked THEN Deny(r, "forbidden") ELSE Proceed(r, "s_consume")
      /\ UNCHANGED Others

ConsumeStepUp(r) ==
  /\ At(r, "s_consume")
  /\ spent' = spent \union {StepUpToken(r).n}
  /\ IF StepUpToken(r).n \in spent THEN Deny(r, "forbidden")
     ELSE IF req[r].gone THEN Proceed(r, "done") ELSE Proceed(r, "change")
  /\ UNCHANGED <<settings, jar, pairs, lapsed, consumed, revoked, accessOut, ended, grants, holds,
                 admin, csrfs, mishaps>>

\* set_hold meets the unique index of active holds, clear_hold a hold that is not active.
ChangeHold(r) ==
  /\ At(r, "change")
  /\ IF (req[r].op = "hold") = ~holds
     THEN /\ holds' = ~holds
          /\ grants' = Append(grants, [step |-> StepUpToken(r).n, by |-> Cookie(r).access.sid,
                                       late |-> req[r].late])
          /\ Answer(r, "ok", Keep)
     ELSE Answer(r, "conflict", Keep) /\ UNCHANGED <<holds, grants>>
  /\ UNCHANGED <<settings, jar, pairs, lapsed, store, ended, admin, csrfs, mishaps>>

----------------------------------------------------------------------------
(* Faults and the environment *)

Calls == {"pat", "issue", "r_session", "r_family", "r_consume", "r_replay", "revoke",
          "revoke_access", "v_session", "v_family", "v_access", "bearer", "s_session", "s_consume"}
Mishap == mishaps < MaxMishaps /\ mishaps' = mishaps + 1

\* A command of the auth service fails, or the service is away: SERVICE_DEGRADED.
AuthFails(r) ==
  /\ Mishap /\ req[r].pc \in Calls
  /\ Deny(r, "degraded")
  /\ UNCHANGED <<settings, jar, pairs, lapsed, store, ended, grants, holds, admin, csrfs>>

\* The API's deadline passes; the auth service is still at work.
GiveUp(r) ==
  /\ Mishap /\ req[r].pc \in Calls /\ ~req[r].gone
  /\ req' = [req EXCEPT ![r] = [req[r] EXCEPT !.gone = TRUE, !.out = "degraded"]]
  /\ jar' = IF req[r].op = "logout" THEN EmptyJar ELSE jar
  /\ UNCHANGED <<settings, pairs, lapsed, store, ended, grants, holds, admin, csrfs>>

Active == \E r \in Tabs : req[r].pc # "done"

\* An access token and its cookie run out together.
AccessExpires ==
  /\ Active /\ Mishap /\ jar.access # NoToken
  /\ lapsed' = lapsed \union {<<"access", jar.access.n>>}
  /\ jar' = [jar EXCEPT !.access = NoToken]
  /\ UNCHANGED <<settings, req, pairs, store, ended, grants, holds, admin, csrfs>>

\* A refresh token may run out while it is on its way.
RefreshExpires ==
  /\ Active /\ Mishap /\ jar.refresh # NoToken
  /\ lapsed' = lapsed \union {<<"refresh", jar.refresh.n>>}
  /\ jar' = [jar EXCEPT !.refresh = NoToken]
  /\ UNCHANGED <<settings, req, pairs, store, ended, grants, holds, admin, csrfs>>

\* The user loses the role while a request is on its way.
Demote == /\ admin /\ Mishap /\ admin' = FALSE
          /\ \E r \in Tabs : req[r].pc \in {"v_session", "admitted", "role", "change"}
          /\ UNCHANGED <<settings, jar, req, pairs, lapsed, store, ended, grants, holds, csrfs>>

SessionInit ==
  /\ \E s \in {x \in SessionCases : MayStart(x.settings)} :
       /\ settings = s.settings
       /\ jar = s.jar
       /\ pairs = s.pairs
       /\ req = [r \in Tabs |->
            [pc |-> IF s.ops[r].op = "none" THEN "done" ELSE "idle",
             op |-> s.ops[r].op, pat |-> s.ops[r].pat, step |-> s.ops[r].step,
             cookies |-> EmptyJar, header |-> Nobody, sid |-> Nobody, late |-> {},
             proofs |-> [access |-> NoToken, refresh |-> NoToken], out |-> "none",
             set |-> Keep, gone |-> FALSE]]
  /\ lapsed = {} /\ consumed = {} /\ revoked = {} /\ accessOut = {} /\ spent = {}
  /\ ended = {} /\ grants = <<>> /\ holds = FALSE /\ admin = TRUE /\ csrfs = 1 /\ mishaps = 0

SessionNext ==
  \/ \E r \in Tabs :
       \/ Begin(r) \/ Send(r) \/ Deliver(r)
       \/ ValidatePat(r) \/ IssueFromCaller(r)
       \/ RefreshViaHmac(r) \/ RefreshSessionLookup(r) \/ RefreshFamilyLookup(r)
       \/ ConsumeRefresh(r) \/ RevokeRefreshReplay(r)
       \/ RevokeSession(r) \/ RevokeAccess(r)
       \/ ValidateSessionLookup(r) \/ ValidateFamilyLookup(r) \/ ValidateAccessLookup(r)
       \/ MeBearer(r) \/ Admitted(r) \/ RequireLegalHoldManage(r)
       \/ StepUpSessionLookup(r) \/ ConsumeStepUp(r) \/ ChangeHold(r)
       \/ AuthFails(r) \/ GiveUp(r)
  \/ AccessExpires \/ RefreshExpires \/ Demote

SessionSpec == SessionInit /\ [][SessionNext]_sessionVars

----------------------------------------------------------------------------
(* Properties *)

Outcomes == {"none", "ok", "invalid", "degraded", "csrf_failed", "forbidden", "conflict"}
Steps == Calls \union {"idle", "send", "deliver", "done", "hmac", "admitted", "role", "change"}
TabStates ==
  [pc : Steps, op : Ops, pat : BOOLEAN, step : StepUpTokens \union {NoToken}, cookies : Jars,
   header : Nat, sid : Nat, late : SUBSET Nat, proofs : ProofPairs, out : Outcomes,
   set : CookieHeaders, gone : BOOLEAN]

\* The state of browser, API and auth service has its types.
SessionTypeOK ==
  /\ settings \in Configurations
  /\ jar \in Jars
  /\ req \in [Tabs -> TabStates]
  /\ pairs \in Seq(PairRows)
  /\ lapsed \in SUBSET ({"access", "refresh"} \X Nat)
  /\ consumed \in SUBSET Nat
  /\ revoked \in SUBSET Nat
  /\ accessOut \in SUBSET Nat
  /\ spent \in SUBSET Nat
  /\ ended \in SUBSET Nat
  /\ grants \in Seq(GrantRows)
  /\ holds \in BOOLEAN
  /\ admin \in BOOLEAN
  /\ csrfs \in Nat
  /\ mishaps \in Nat

\* Outside development, once a client was told that its session is over - logout
\* answered 200, or a replayed refresh token was refused - no request sent afterwards
\* is admitted under that session, gets a pair for it or changes a legal hold, whatever
\* pairs were issued meanwhile (session.py:532, jwt.go ValidateAccess).  Development
\* admits by the signature alone and does not ask what the auth service revoked.
EndedSessionIsOut ==
  ~Development =>
    /\ \A r \in Tabs : req[r].out = "ok" /\ req[r].op \in ProtectedOps /\
         Cookie(r).access # NoToken => Cookie(r).access.sid \notin req[r].late
    /\ \A r \in Tabs : req[r].out = "ok" /\ req[r].op = "refresh" =>
         Cookie(r).refresh.sid \notin req[r].late
    /\ \A i \in 1..Len(grants) : grants[i].by \notin grants[i].late

\* Outside development every proof is used once: a refresh token has at most one
\* successor pair and a step-up token allows one change of a hold, although tabs
\* present them at the same time and calls are abandoned and repeated
\* (jwt.go consumeRefreshOrRevoke, step_up.py:134).
ProofsAreUsedOnce ==
  ~Development =>
    /\ \A i, j \in 1..Len(pairs) : i # j /\ pairs[i].from # Nobody =>
         pairs[i].from # pairs[j].from
    /\ \A i, j \in 1..Len(grants) : i # j => grants[i].step # grants[j].step

\* Outside development the access and refresh cookie the browser holds are of one
\* session, however the responses of its tabs arrive, so that a logout never fails
\* because its two proofs disagree (session.py:556).
CookiesBelongTogether ==
  ~Development /\ jar.access # NoToken /\ jar.refresh # NoToken =>
    jar.access.sid = jar.refresh.sid

\* A session whose end was reported admits nothing sent later, refresh and step-up
\* proofs are used once, and the cookies of a browser belong to one session however
\* the answers of its tabs arrive (jwt.go consumeRefreshOrRevoke, session.py:532).
SessionsEndAndProofsAreSpent == EndedSessionIsOut /\ ProofsAreUsedOnce /\ CookiesBelongTogether
=============================================================================
