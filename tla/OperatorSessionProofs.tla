----------------------- MODULE OperatorSessionProofs ------------------------
(***************************************************************************)
(* Proofs about OperatorSession for any number of tabs, cases and faults.  *)
(*                                                                         *)
(* A session is marked in the store before its end is reported, so what    *)
(* was reported when a request was sent (late) is marked when its session  *)
(* is looked up: the lookup is what keeps it out.  Proofs are spent before *)
(* they are used, which makes the use unique.                              *)
(***************************************************************************)
EXTENDS OperatorSession, TLAPS

\* Steps in which a request waits for the auth service to rotate its refresh token.
RefreshSteps == {"r_session", "r_family", "r_consume", "r_replay", "hmac"}

\* Steps a request passes after its session was found to stand.
PassedSteps == {"v_family", "v_access", "admitted", "role", "s_session", "s_consume", "change"}

\* What the record of a request says by itself.
TabOK(q) ==
  /\ q.pc \in {"idle", "send"} => q.op # "none" /\ q.out = "none"
  /\ q.pc \in {"pat", "issue"} => q.op = "login"
  /\ q.pc \in RefreshSteps => q.op = "refresh" /\ q.cookies.refresh # NoToken
  /\ q.pc = "hmac" => Development
  /\ q.pc \in {"revoke", "revoke_access"} => q.op = "logout"
  /\ q.pc = "bearer" => q.op = "me" /\ q.cookies.access = NoToken
  /\ q.pc \in PassedSteps \union {"v_session"}
    => q.op \in ProtectedOps /\ q.cookies.access # NoToken
  /\ q.pc \in {"s_session", "s_consume", "change"} => q.step # NoToken
  /\ q.pc \in {"s_session", "s_consume"} => ~Development

\* Outside development: nothing is let through under a session whose end had been
\* reported when the request was sent, and the answers carry cookies of one session.
TabIsClean(q) ==
  ~Development =>
    /\ q.pc \in {"r_family", "r_consume"} => q.cookies.refresh.sid \notin q.late
    /\ q.pc \in PassedSteps => q.cookies.access.sid \notin q.late
    /\ q.out = "ok" /\ q.op \in ProtectedOps /\ q.cookies.access # NoToken =>
         q.cookies.access.sid \notin q.late
    /\ q.out = "ok" /\ q.op = "refresh" => q.cookies.refresh.sid \notin q.late
    /\ q.set.kind # "access"
    /\ q.set.kind = "set" => q.set.access.sid = q.set.refresh.sid

\* A reported end is on record in the auth store.
EndsAreMarked ==
  /\ ended \subseteq revoked
  /\ \A r \in Tabs : /\ req[r].late \subseteq revoked
                     /\ req[r].pc = "revoke_access" => req[r].sid \in revoked

\* Outside development a change of a hold that is due or made has its proof spent,
\* and no two have the same.
ChangesArePaid ==
  ~Development =>
    /\ \A r \in Tabs : req[r].pc = "change" =>
         /\ req[r].step.n \in spent
         /\ \A i \in 1..Len(grants) : grants[i].step # req[r].step.n
         /\ \A s \in Tabs : s # r /\ req[s].pc = "change" => req[s].step.n # req[r].step.n
    /\ \A i \in 1..Len(grants) : grants[i].step \in spent /\ grants[i].by \notin grants[i].late

\* The predecessor of a pair is consumed.
SuccessorsAreOnRecord ==
  \A i \in 1..Len(pairs) : pairs[i].from # Nobody => pairs[i].from \in consumed

\* The inductive invariant.
SessionInv ==
  /\ SessionTypeOK
  /\ \A r \in Tabs : TabOK(req[r]) /\ TabIsClean(req[r])
  /\ EndsAreMarked
  /\ ChangesArePaid
  /\ SuccessorsAreOnRecord
  /\ ProofsAreUsedOnce
  /\ CookiesBelongTogether

-----------------------------------------------------------------------------
(* The record of a request *)

\* Two records of one request.
Carries(m, q) ==
  m.op = q.op /\ m.step = q.step /\ m.cookies = q.cookies /\ m.late = q.late

\* A tab that goes on carries the same request.
LEMMA TabMoves ==
  ASSUME NEW q \in TabStates, NEW p \in Steps, NEW m, m = [q EXCEPT !.pc = p]
  PROVE  /\ m \in TabStates /\ m.pc = p /\ Carries(m, q)
         /\ m.out = q.out /\ m.set = q.set /\ m.sid = q.sid
  BY Zenon DEF TabStates, Carries

\* An answer leaves the request as it was; one the API gave up on is only over.
LEMMA TabAnswers ==
  ASSUME NEW q \in TabStates, NEW out \in Outcomes, NEW set \in CookieHeaders,
         NEW m, m = Answered(q, out, set)
  PROVE  /\ m \in TabStates /\ Carries(m, q) /\ m.sid = q.sid
         /\ \/ m.pc = "done" /\ m.out = q.out /\ m.set = q.set
            \/ m.pc = "deliver" /\ m.out = out /\ m.set = set
  <1>0. "done" \in Steps /\ "deliver" \in Steps  BY Zenon DEF Steps
  <1>1. CASE q.gone
    <2>1. m = [q EXCEPT !.pc = "done"]  BY <1>1, Zenon DEF Answered
    <2> QED  BY <2>1, <1>0, TabMoves
  <1>2. CASE ~q.gone
    <2>1. m = Responded(q, out, set)  BY <1>2, Zenon DEF Answered
    <2> QED  BY <2>1, <1>0, Zenon DEF TabStates, Carries, Responded
  <1> QED  BY <1>1, <1>2, Zenon

\* What an answer has to observe: cookies of one session, and "ok" only for a request
\* that may be let through.
AnswerIsClean(q, out, set) ==
  ~Development =>
    /\ set.kind # "access"
    /\ set.kind = "set" => set.access.sid = set.refresh.sid
    /\ out = "ok" /\ q.op \in ProtectedOps /\ q.cookies.access # NoToken =>
         q.cookies.access.sid \notin q.late
    /\ out = "ok" /\ q.op = "refresh" => q.cookies.refresh.sid \notin q.late

\* A clean answer keeps what the record of its tab says.
LEMMA AnswerKeeps ==
  ASSUME NEW q \in TabStates, NEW out \in Outcomes, NEW set \in CookieHeaders,
         NEW m, m = Answered(q, out, set), TabIsClean(q), AnswerIsClean(q, out, set)
  PROVE  /\ m \in TabStates /\ TabOK(m) /\ TabIsClean(m)
         /\ m.late = q.late /\ m.pc # "revoke_access" /\ m.pc # "change"
  <1>1. /\ m \in TabStates /\ Carries(m, q) /\ m.sid = q.sid
        /\ \/ m.pc = "done" /\ m.out = q.out /\ m.set = q.set
           \/ m.pc = "deliver" /\ m.out = out /\ m.set = set
    BY TabAnswers
  <1>2. TabOK(m)  BY <1>1, Zenon DEF TabOK, RefreshSteps, PassedSteps
  <1>3. TabIsClean(m)  BY <1>1 DEF TabIsClean, AnswerIsClean, Carries, PassedSteps
  <1> QED  BY <1>1, <1>2, <1>3, Zenon DEF Carries

\* Moving on keeps what the record says, if the next step may follow.
LEMMA MoveKeeps ==
  ASSUME NEW q \in TabStates, NEW p \in Steps, NEW m, m = [q EXCEPT !.pc = p], TabIsClean(q),
         TabOK(m),
         ~Development =>
            /\ p \in {"r_family", "r_consume"} => q.cookies.refresh.sid \notin q.late
            /\ p \in PassedSteps => q.cookies.access.sid \notin q.late
  PROVE  m \in TabStates /\ m.late = q.late /\ m.sid = q.sid /\ m.pc = p /\ TabIsClean(m)
  <1>1. /\ m \in TabStates /\ m.pc = p /\ Carries(m, q)
        /\ m.out = q.out /\ m.set = q.set /\ m.sid = q.sid
    BY TabMoves
  <1> QED  BY <1>1, Zenon DEF TabIsClean, Carries

\* A step of one tab keeps what holds of every tab.
LEMMA OneTab ==
  ASSUME SessionInv, NEW r \in Tabs, NEW q \in TabStates, req' = [req EXCEPT ![r] = q],
         settings' = settings, TabOK(q), TabIsClean(q), revoked \subseteq revoked',
         q.late \subseteq revoked', q.pc = "revoke_access" => q.sid \in revoked',
         ended' \subseteq revoked'
  PROVE  /\ req' \in [Tabs -> TabStates]
         /\ (\A s \in Tabs : TabOK(req[s]) /\ TabIsClean(req[s]))'
         /\ EndsAreMarked'
  <1>0. req \in [Tabs -> TabStates]  BY Zenon DEF SessionInv, SessionTypeOK
  <1>1. req' \in [Tabs -> TabStates]  BY <1>0, Zenon
  <1>2. \A s \in Tabs : req'[s] = IF s = r THEN q ELSE req[s]  BY <1>0, Zenon
  <1>3. \A s \in Tabs : TabOK(req'[s]) /\ TabIsClean(req'[s])  BY <1>2, Zenon DEF SessionInv
  <1>4. (\A s \in Tabs : TabOK(req[s]) /\ TabIsClean(req[s]))'
    BY <1>3 DEF TabOK, TabIsClean, Development
  <1>5. EndsAreMarked'
    BY <1>2, Zenon DEF SessionInv, EndsAreMarked
  <1> QED  BY <1>1, <1>4, <1>5, Zenon

\* Outside development only a spent proof leads to a change of a hold.
LEMMA NoNewChange ==
  ASSUME SessionInv, NEW r \in Tabs, NEW q \in TabStates, req' = [req EXCEPT ![r] = q],
         settings' = settings, q.pc = "change" => Development, grants' = grants,
         spent \subseteq spent'
  PROVE  ChangesArePaid'
  <1>0. req \in [Tabs -> TabStates]  BY Zenon DEF SessionInv, SessionTypeOK
  <1>2. \A s \in Tabs : req'[s] = IF s = r THEN q ELSE req[s]  BY <1>0, Zenon
  <1> SUFFICES ASSUME ~Development  PROVE ChangesArePaid'
    BY Zenon DEF ChangesArePaid, Development
  <1>3. \A s \in Tabs : req'[s].pc = "change" => req'[s] = req[s]  BY <1>2, Zenon
  <1> QED  BY <1>3 DEF SessionInv, ChangesArePaid, Development

\* A step that changes nothing but the record of its tab.
LEMMA QuietStep ==
  ASSUME SessionInv, NEW r \in Tabs, NEW q \in TabStates, req' = [req EXCEPT ![r] = q],
         UNCHANGED Others, TabOK(q), TabIsClean(q), q.late \subseteq revoked,
         q.pc = "revoke_access" => q.sid \in revoked, q.pc = "change" => Development
  PROVE  SessionInv'
  <1>0. /\ UNCHANGED <<settings, jar, pairs, lapsed, ended, grants, holds, admin, csrfs, mishaps>>
        /\ UNCHANGED <<consumed, revoked, accessOut, spent>>
    BY Zenon DEF Others, store
  <1>1. /\ req' \in [Tabs -> TabStates]
        /\ (\A s \in Tabs : TabOK(req[s]) /\ TabIsClean(req[s]))'
        /\ EndsAreMarked'
    BY <1>0, OneTab, Zenon DEF SessionInv, EndsAreMarked
  <1>2. ChangesArePaid'  BY <1>0, NoNewChange, Zenon
  <1>3. SessionTypeOK'  BY <1>0, <1>1, Zenon DEF SessionInv, SessionTypeOK
  <1>4. SuccessorsAreOnRecord' /\ ProofsAreUsedOnce' /\ CookiesBelongTogether'
    BY <1>0 DEF SessionInv, SuccessorsAreOnRecord, ProofsAreUsedOnce, CookiesBelongTogether,
      Development
  <1> QED  BY <1>1, <1>2, <1>3, <1>4, Zenon DEF SessionInv

-----------------------------------------------------------------------------
(* Steps that change nothing but the record of a tab *)

Refusals == {"invalid", "degraded", "forbidden"}

\* The headers of answers that bring no token.
LEMMA PlainCookies ==
  /\ Keep \in CookieHeaders /\ Keep.kind = "keep"
  /\ ClearSessionCookies \in CookieHeaders /\ ClearSessionCookies.kind = "clear"
  /\ \A op \in Ops : ErrorCookies(op) \in {Keep, ClearSessionCookies}
  BY Zenon DEF Keep, ClearSessionCookies, CookieHeaders, ErrorCookies

\* A refusal is always clean.
LEMMA DenyKeeps ==
  ASSUME SessionInv, NEW r \in Tabs, NEW out \in Refusals, NEW m,
         m = Answered(req[r], out, ErrorCookies(req[r].op))
  PROVE  /\ m \in TabStates /\ TabOK(m) /\ TabIsClean(m)
         /\ m.late = req[r].late /\ m.pc # "revoke_access" /\ m.pc # "change"
  <1>1. req[r] \in TabStates /\ TabIsClean(req[r])  BY Zenon DEF SessionInv, SessionTypeOK
  <1>2. req[r].op \in Ops  BY <1>1, Zenon DEF TabStates
  <1>3. /\ ErrorCookies(req[r].op) \in CookieHeaders
        /\ ErrorCookies(req[r].op).kind \in {"keep", "clear"}
    BY <1>2, PlainCookies, Zenon
  <1>4. out \in Outcomes /\ out # "ok"  BY Zenon DEF Refusals, Outcomes
  <1>5. AnswerIsClean(req[r], out, ErrorCookies(req[r].op))  BY <1>3, <1>4, Zenon DEF AnswerIsClean
  <1> QED  BY <1>1, <1>3, <1>4, <1>5, AnswerKeeps

\* A refusal that touches no store (Deny).
LEMMA QuietDeny ==
  ASSUME SessionInv, NEW r \in Tabs, NEW out \in Refusals, Deny(r, out),
         UNCHANGED Others
  PROVE  SessionInv'
  <1> DEFINE m == Answered(req[r], out, ErrorCookies(req[r].op))
  <1>1. /\ m \in TabStates /\ TabOK(m) /\ TabIsClean(m)
        /\ m.late = req[r].late /\ m.pc # "revoke_access" /\ m.pc # "change"
    BY DenyKeeps, Zenon
  <1>2. req' = [req EXCEPT ![r] = m]  BY Zenon DEF Deny, Answer
  <1>3. req[r].late \subseteq revoked  BY Zenon DEF SessionInv, EndsAreMarked
  <1> HIDE DEF m
  <1> QED  BY <1>1, <1>2, <1>3, QuietStep, Zenon

\* A request that goes on and touches no store (Proceed).
LEMMA QuietMove ==
  ASSUME SessionInv, NEW r \in Tabs, NEW p \in Steps, Proceed(r, p), UNCHANGED Others,
         TabOK([req[r] EXCEPT !.pc = p]), p # "revoke_access", p = "change" => Development,
         ~Development =>
            /\ p \in {"r_family", "r_consume"} => Cookie(r).refresh.sid \notin req[r].late
            /\ p \in PassedSteps => Cookie(r).access.sid \notin req[r].late
  PROVE  SessionInv'
  <1> DEFINE m == [req[r] EXCEPT !.pc = p]
  <1>1. req[r] \in TabStates /\ TabIsClean(req[r])  BY Zenon DEF SessionInv, SessionTypeOK
  <1>2. m \in TabStates /\ m.late = req[r].late /\ m.pc = p /\ TabIsClean(m)
    BY <1>1, MoveKeeps DEF Cookie
  <1>3. req' = [req EXCEPT ![r] = m] /\ TabOK(m)  BY Zenon DEF Proceed
  <1>4. req[r].late \subseteq revoked  BY Zenon DEF SessionInv, EndsAreMarked
  <1> HIDE DEF m
  <1> QED  BY <1>2, <1>3, <1>4, QuietStep, Zenon

\* The record after a move: what TabOK reads of it.
LEMMA MoveIsOK ==
  ASSUME SessionInv, NEW r \in Tabs, NEW p \in Steps,
         p \in {"idle", "send"} => req[r].op # "none" /\ req[r].out = "none",
         p \in {"pat", "issue"} => req[r].op = "login",
         p \in RefreshSteps => req[r].op = "refresh" /\ Cookie(r).refresh # NoToken,
         p = "hmac" => Development,
         p \in {"revoke", "revoke_access"} => req[r].op = "logout",
         p = "bearer" => req[r].op = "me" /\ Cookie(r).access = NoToken,
         p \in PassedSteps \union {"v_session"} =>
           req[r].op \in ProtectedOps /\ Cookie(r).access # NoToken,
         p \in {"s_session", "s_consume", "change"} => req[r].step # NoToken,
         p \in {"s_session", "s_consume"} => ~Development
  PROVE  TabOK([req[r] EXCEPT !.pc = p])
  <1> DEFINE m == [req[r] EXCEPT !.pc = p]
  <1>1. req[r] \in TabStates  BY Zenon DEF SessionInv, SessionTypeOK
  <1>2. m.pc = p /\ Carries(m, req[r]) /\ m.out = req[r].out  BY <1>1, TabMoves
  <1> HIDE DEF m
  <1>3. TabOK(m)  BY <1>2 DEF TabOK, Carries, Cookie
  <1> QED  BY <1>3, Zenon DEF m

\* The page reads the CSRF cookie (Begin).
LEMMA BeginStep ==
  ASSUME SessionInv, NEW r \in Tabs, Begin(r)
  PROVE  SessionInv'
  <1> DEFINE m == [req[r] EXCEPT !.pc = "send", !.header = jar.csrf]
  <1>1. /\ req[r] \in TabStates /\ TabIsClean(req[r]) /\ TabOK(req[r])
        /\ jar.csrf \in Nat /\ "send" \in Steps
    BY Zenon DEF SessionInv, SessionTypeOK, Jars, Steps
  <1>2. m \in TabStates /\ m.pc = "send" /\ Carries(m, req[r]) /\ m.out = req[r].out
          /\ m.set = req[r].set
    BY <1>1, Zenon DEF TabStates, Carries
  <1>3. req' = [req EXCEPT ![r] = m] /\ UNCHANGED Others /\ req[r].pc = "idle"
    BY Zenon DEF Begin, At
  <1>4. req[r].late \subseteq revoked  BY Zenon DEF SessionInv, EndsAreMarked
  <1> HIDE DEF m
  <1>5. TabOK(m)  BY <1>1, <1>2, <1>3, Zenon DEF TabOK, Carries, RefreshSteps, PassedSteps
  <1>6. TabIsClean(m)  BY <1>1, <1>2, Zenon DEF TabIsClean, Carries, PassedSteps
  <1> QED  BY <1>2, <1>3, <1>4, <1>5, <1>6, QuietStep, Zenon DEF Carries

\* The first lookup of a refresh: session (requireActiveSessionState).
LEMMA RefreshSessionStep ==
  ASSUME SessionInv, NEW r \in Tabs, RefreshSessionLookup(r)
  PROVE  SessionInv'
  <1>1. CASE Deny(r, "invalid") /\ UNCHANGED Others  BY <1>1, QuietDeny, Zenon DEF Refusals
  <1>2. CASE ~(Cookie(r).refresh.sid \in revoked) /\ Proceed(r, "r_family")
          /\ UNCHANGED Others /\ req[r].pc = "r_session"
    <2>1. TabOK(req[r]) /\ TabIsClean(req[r]) /\ req[r].late \subseteq revoked
            /\ "r_family" \in Steps
      BY Zenon DEF SessionInv, EndsAreMarked, Steps, Calls
    <2>2. /\ req[r].op = "refresh" /\ Cookie(r).refresh # NoToken
          /\ ~Development => Cookie(r).refresh.sid \notin req[r].late
      BY <1>2, <2>1, Zenon DEF TabOK, TabIsClean, Cookie, RefreshSteps, PassedSteps
    <2>3. TabOK([req[r] EXCEPT !.pc = "r_family"])
      BY <2>1, <2>2, MoveIsOK, Zenon DEF RefreshSteps, PassedSteps
    <2> QED  BY <1>2, <2>1, <2>2, <2>3, QuietMove, Zenon DEF PassedSteps
  <1> QED  BY <1>1, <1>2, Zenon DEF RefreshSessionLookup, Lookup, At

\* The second lookup of a refresh: family (assertRefreshNotRevoked).
LEMMA RefreshFamilyStep ==
  ASSUME SessionInv, NEW r \in Tabs, RefreshFamilyLookup(r)
  PROVE  SessionInv'
  <1>1. CASE Deny(r, "invalid") /\ UNCHANGED Others  BY <1>1, QuietDeny, Zenon DEF Refusals
  <1>2. CASE ~(Cookie(r).refresh.sid \in revoked) /\ Proceed(r, "r_consume")
          /\ UNCHANGED Others /\ req[r].pc = "r_family"
    <2>1. TabOK(req[r]) /\ TabIsClean(req[r]) /\ req[r].late \subseteq revoked
            /\ "r_consume" \in Steps
      BY Zenon DEF SessionInv, EndsAreMarked, Steps, Calls
    <2>2. /\ req[r].op = "refresh" /\ Cookie(r).refresh # NoToken
          /\ ~Development => Cookie(r).refresh.sid \notin req[r].late
      BY <1>2, <2>1, Zenon DEF TabOK, TabIsClean, Cookie, RefreshSteps, PassedSteps
    <2>3. TabOK([req[r] EXCEPT !.pc = "r_consume"])
      BY <2>1, <2>2, MoveIsOK, Zenon DEF RefreshSteps, PassedSteps
    <2> QED  BY <1>2, <2>1, <2>2, <2>3, QuietMove, Zenon DEF PassedSteps
  <1> QED  BY <1>1, <1>2, Zenon DEF RefreshFamilyLookup, Lookup, At

\* The first lookup of a validation: session.
LEMMA ValidateSessionStep ==
  ASSUME SessionInv, NEW r \in Tabs, ValidateSessionLookup(r)
  PROVE  SessionInv'
  <1>1. CASE Deny(r, "invalid") /\ UNCHANGED Others  BY <1>1, QuietDeny, Zenon DEF Refusals
  <1>2. CASE ~(Cookie(r).access.sid \in revoked) /\ Proceed(r, "v_family") /\ UNCHANGED Others
          /\ req[r].pc = "v_session"
    <2>1. TabOK(req[r]) /\ TabIsClean(req[r]) /\ req[r].late \subseteq revoked
            /\ "v_family" \in Steps
      BY Zenon DEF SessionInv, EndsAreMarked, Steps, Calls
    <2>2. /\ req[r].op \in ProtectedOps /\ Cookie(r).access # NoToken
          /\ ~Development => Cookie(r).access.sid \notin req[r].late
      BY <1>2, <2>1, Zenon DEF TabOK, TabIsClean, Cookie, RefreshSteps, PassedSteps
    <2>3. TabOK([req[r] EXCEPT !.pc = "v_family"])
      BY <2>1, <2>2, MoveIsOK, Zenon DEF RefreshSteps, PassedSteps
    <2> QED  BY <1>2, <2>1, <2>2, <2>3, QuietMove, Zenon DEF PassedSteps
  <1> QED  BY <1>1, <1>2, Zenon DEF ValidateSessionLookup, Lookup, At

\* The second lookup of a validation: family.
LEMMA ValidateFamilyStep ==
  ASSUME SessionInv, NEW r \in Tabs, ValidateFamilyLookup(r)
  PROVE  SessionInv'
  <1>1. CASE Deny(r, "invalid") /\ UNCHANGED Others  BY <1>1, QuietDeny, Zenon DEF Refusals
  <1>2. CASE ~(Cookie(r).access.sid \in revoked) /\ Proceed(r, "v_access") /\ UNCHANGED Others
          /\ req[r].pc = "v_family"
    <2>1. TabOK(req[r]) /\ TabIsClean(req[r]) /\ req[r].late \subseteq revoked
            /\ "v_access" \in Steps
      BY Zenon DEF SessionInv, EndsAreMarked, Steps, Calls
    <2>2. /\ req[r].op \in ProtectedOps /\ Cookie(r).access # NoToken
          /\ ~Development => Cookie(r).access.sid \notin req[r].late
      BY <1>2, <2>1, Zenon DEF TabOK, TabIsClean, Cookie, RefreshSteps, PassedSteps
    <2>3. TabOK([req[r] EXCEPT !.pc = "v_access"])
      BY <2>1, <2>2, MoveIsOK, Zenon DEF RefreshSteps, PassedSteps
    <2> QED  BY <1>2, <2>1, <2>2, <2>3, QuietMove, Zenon DEF PassedSteps
  <1> QED  BY <1>1, <1>2, Zenon DEF ValidateFamilyLookup, Lookup, At

\* The third lookup of a validation: the token itself (ValidateAccess).
LEMMA ValidateAccessStep ==
  ASSUME SessionInv, NEW r \in Tabs, ValidateAccessLookup(r)
  PROVE  SessionInv'
  <1>1. CASE Deny(r, "invalid") /\ UNCHANGED Others  BY <1>1, QuietDeny, Zenon DEF Refusals
  <1>2. CASE ~(Cookie(r).access.n \in accessOut) /\ Proceed(r, "admitted") /\ UNCHANGED Others
          /\ req[r].pc = "v_access"
    <2>1. TabOK(req[r]) /\ TabIsClean(req[r]) /\ req[r].late \subseteq revoked
            /\ "admitted" \in Steps
      BY Zenon DEF SessionInv, EndsAreMarked, Steps, Calls
    <2>2. /\ req[r].op \in ProtectedOps /\ Cookie(r).access # NoToken
          /\ ~Development => Cookie(r).access.sid \notin req[r].late
      BY <1>2, <2>1, Zenon DEF TabOK, TabIsClean, Cookie, RefreshSteps, PassedSteps
    <2>3. TabOK([req[r] EXCEPT !.pc = "admitted"])
      BY <2>1, <2>2, MoveIsOK, Zenon DEF RefreshSteps, PassedSteps
    <2> QED  BY <1>2, <2>1, <2>2, <2>3, QuietMove, Zenon DEF PassedSteps
  <1> QED  BY <1>1, <1>2, Zenon DEF ValidateAccessLookup, Lookup, At

\* An "ok" of a protected route for a request that got as far as it needs.
LEMMA QuietOk ==
  ASSUME SessionInv, NEW r \in Tabs, Answer(r, "ok", Keep), UNCHANGED Others,
         req[r].op # "refresh",
         ~Development /\ Cookie(r).access # NoToken => Cookie(r).access.sid \notin req[r].late
  PROVE  SessionInv'
  <1> DEFINE m == Answered(req[r], "ok", Keep)
  <1>1. req[r] \in TabStates /\ TabIsClean(req[r]) /\ req[r].late \subseteq revoked
    BY Zenon DEF SessionInv, SessionTypeOK, EndsAreMarked
  <1>2. AnswerIsClean(req[r], "ok", Keep)  BY PlainCookies, Zenon DEF AnswerIsClean, Cookie
  <1>3. /\ m \in TabStates /\ TabOK(m) /\ TabIsClean(m)
        /\ m.late = req[r].late /\ m.pc # "revoke_access" /\ m.pc # "change"
    BY <1>1, <1>2, PlainCookies, AnswerKeeps DEF Outcomes
  <1>4. req' = [req EXCEPT ![r] = m]  BY Zenon DEF Answer
  <1> HIDE DEF m
  <1> QED  BY <1>1, <1>3, <1>4, QuietStep, Zenon

\* GET /me with a personal access token (_me_bearer).
LEMMA MeBearerStep ==
  ASSUME SessionInv, NEW r \in Tabs, MeBearer(r)
  PROVE  SessionInv'
  <1>1. CASE Deny(r, "invalid") /\ UNCHANGED Others  BY <1>1, QuietDeny, Zenon DEF Refusals
  <1>2. CASE Answer(r, "ok", Keep) /\ UNCHANGED Others
    <2>1. req[r].op = "me" /\ Cookie(r).access = NoToken
      BY Zenon DEF SessionInv, TabOK, MeBearer, At, Cookie
    <2> QED  BY <1>2, <2>1, QuietOk, Zenon
  <1> QED  BY <1>1, <1>2, Zenon DEF MeBearer

\* An admitted request is answered or goes on to its role (me, authz.py).
LEMMA AdmittedStep ==
  ASSUME SessionInv, NEW r \in Tabs, Admitted(r)
  PROVE  SessionInv'
  <1>0. TabOK(req[r]) /\ TabIsClean(req[r]) /\ req[r].pc = "admitted" /\ UNCHANGED Others
    BY Zenon DEF SessionInv, Admitted, At
  <1>1. /\ req[r].op \in ProtectedOps /\ Cookie(r).access # NoToken
        /\ ~Development => Cookie(r).access.sid \notin req[r].late
    BY <1>0, Zenon DEF TabOK, TabIsClean, Cookie, PassedSteps
  <1>2. CASE Deny(r, "forbidden")  BY <1>0, <1>2, QuietDeny, Zenon DEF Refusals
  <1>3. CASE Answer(r, "ok", Keep)  BY <1>0, <1>1, <1>3, QuietOk, Zenon DEF ProtectedOps
  <1>4. CASE Proceed(r, "role")
    <2>1. TabOK([req[r] EXCEPT !.pc = "role"]) /\ "role" \in Steps
      BY <1>1, MoveIsOK, Zenon DEF RefreshSteps, PassedSteps, Steps
    <2> QED  BY <1>0, <1>1, <1>4, <2>1, QuietMove, Zenon DEF PassedSteps
  <1> QED  BY <1>2, <1>3, <1>4, Zenon DEF Admitted

\* The role and the step-up proof are asked for (require_operator_legal_hold_manage).
LEMMA RoleStep ==
  ASSUME SessionInv, NEW r \in Tabs, RequireLegalHoldManage(r)
  PROVE  SessionInv'
  <1>0. TabOK(req[r]) /\ TabIsClean(req[r]) /\ req[r].pc = "role" /\ UNCHANGED Others
    BY Zenon DEF SessionInv, RequireLegalHoldManage, At
  <1>1. /\ req[r].op \in ProtectedOps /\ Cookie(r).access # NoToken
        /\ ~Development => Cookie(r).access.sid \notin req[r].late
    BY <1>0, Zenon DEF TabOK, TabIsClean, Cookie, PassedSteps
  <1>2. CASE Deny(r, "forbidden")  BY <1>0, <1>2, QuietDeny, Zenon DEF Refusals
  <1>3. CASE Proceed(r, "s_session") /\ ~Development /\ req[r].step # NoToken
    <2>1. TabOK([req[r] EXCEPT !.pc = "s_session"]) /\ "s_session" \in Steps
      BY <1>1, <1>3, MoveIsOK, Zenon DEF RefreshSteps, PassedSteps, Steps, Calls
    <2> QED  BY <1>0, <1>1, <1>3, <2>1, QuietMove, Zenon DEF PassedSteps
  <1>4. CASE Proceed(r, "change") /\ Development /\ req[r].step # NoToken
    <2>1. TabOK([req[r] EXCEPT !.pc = "change"]) /\ "change" \in Steps
      BY <1>1, <1>4, MoveIsOK, Zenon DEF RefreshSteps, PassedSteps, Steps
    <2> QED  BY <1>0, <1>1, <1>4, <2>1, QuietMove, Zenon DEF PassedSteps
  <1>5. EnforceStepUp(r) \in {"forbidden", "s_session", "change"}
    BY Zenon DEF EnforceStepUp
  <1>6. EnforceStepUp(r) # "forbidden" => req[r].step # NoToken
    BY Zenon DEF EnforceStepUp, ResolveStepUpProof, StepUpToken
  <1>7. /\ EnforceStepUp(r) = "s_session" => ~Development
        /\ EnforceStepUp(r) = "change" => Development
    BY Zenon DEF EnforceStepUp
  <1>8. \/ Deny(r, "forbidden")
        \/ EnforceStepUp(r) # "forbidden" /\ Proceed(r, EnforceStepUp(r))
    BY Zenon DEF RequireLegalHoldManage
  <1> QED  BY <1>2, <1>3, <1>4, <1>5, <1>6, <1>7, <1>8, Zenon

\* The session of a step-up proof is looked up (consume_step_up).
LEMMA StepUpSessionStep ==
  ASSUME SessionInv, NEW r \in Tabs, StepUpSessionLookup(r)
  PROVE  SessionInv'
  <1>0. TabOK(req[r]) /\ TabIsClean(req[r]) /\ req[r].pc = "s_session" /\ UNCHANGED Others
    BY Zenon DEF SessionInv, StepUpSessionLookup, At
  <1>1. /\ req[r].op \in ProtectedOps /\ Cookie(r).access # NoToken
        /\ req[r].step # NoToken /\ ~Development
        /\ ~Development => Cookie(r).access.sid \notin req[r].late
    BY <1>0, Zenon DEF TabOK, TabIsClean, Cookie, PassedSteps
  <1>2. CASE Deny(r, "forbidden")  BY <1>0, <1>2, QuietDeny, Zenon DEF Refusals
  <1>3. CASE Proceed(r, "s_consume")
    <2>1. TabOK([req[r] EXCEPT !.pc = "s_consume"]) /\ "s_consume" \in Steps
      BY <1>1, MoveIsOK, Zenon DEF RefreshSteps, PassedSteps, Steps, Calls
    <2> QED  BY <1>0, <1>1, <1>3, <2>1, QuietMove, Zenon DEF PassedSteps
  <1> QED  BY <1>2, <1>3, Zenon DEF StepUpSessionLookup

\* Where a request goes first, and what the router has seen by then.
LEMMA FirstSteps ==
  ASSUME NEW op \in Ops, op # "none", NEW c
  PROVE  /\ First(op, c) \in {"degraded", "invalid", "clear", "pat", "r_session", "hmac", "revoke",
                               "bearer", "v_session", "admitted"}
         /\ First(op, c) = "clear" => op = "logout"
         /\ First(op, c) = "pat" => op = "login"
         /\ First(op, c) \in {"r_session", "hmac"} => op = "refresh" /\ c.refresh # NoToken
         /\ First(op, c) = "hmac" => Development
         /\ First(op, c) = "revoke" => op = "logout"
         /\ First(op, c) = "bearer" => op = "me" /\ c.access = NoToken
         /\ First(op, c) \in {"v_session", "admitted"} => op \in ProtectedOps /\ c.access # NoToken
         /\ First(op, c) = "admitted" => Development
  <1> USE DEF First
  <1>1. CASE ~RequireOperatorEnabled  BY <1>1, Zenon
  <1>2. CASE RequireOperatorEnabled /\ op = "login"  BY <1>2, Zenon
  <1>3. CASE RequireOperatorEnabled /\ op = "refresh"
    <2>1. First(op, c) = FirstOfRefresh(c)  BY <1>3, Zenon
    <2>2. /\ FirstOfRefresh(c) \in {"invalid", "r_session", "hmac", "degraded"}
          /\ FirstOfRefresh(c) \in {"r_session", "hmac"} => c.refresh # NoToken
          /\ FirstOfRefresh(c) = "hmac" => Development
      BY Zenon DEF FirstOfRefresh
    <2> QED  BY <1>3, <2>1, <2>2, Zenon
  <1>4. CASE RequireOperatorEnabled /\ op = "logout"
    <2>1. First(op, c) = FirstOfLogout(c)  BY <1>4, Zenon
    <2>2. FirstOfLogout(c) \in {"clear", "invalid", "revoke"}  BY Zenon DEF FirstOfLogout
    <2> QED  BY <1>4, <2>1, <2>2, Zenon
  <1>5. CASE RequireOperatorEnabled /\ op \in ProtectedOps
    <2>1. First(op, c) = FirstOfProtected(op, c)  BY <1>5, Zenon DEF ProtectedOps
    <2>2. /\ FirstOfProtected(op, c) \in {"degraded", "bearer", "invalid", "v_session", "admitted"}
          /\ FirstOfProtected(op, c) = "bearer" => op = "me" /\ c.access = NoToken
          /\ FirstOfProtected(op, c) \in {"v_session", "admitted"} => c.access # NoToken
          /\ FirstOfProtected(op, c) = "admitted" => Development
      BY Zenon DEF FirstOfProtected, ValidatesLocally
    <2> QED  BY <1>5, <2>1, <2>2, Zenon
  <1> QED  BY <1>1, <1>2, <1>3, <1>4, <1>5, Zenon DEF Ops, ProtectedOps

\* The record of a request that was sent and is decided at once.
LEMMA SentAnswered ==
  ASSUME NEW sent \in TabStates, sent.late = ended,
         NEW out \in Outcomes, out = "ok" => sent.op = "logout",
         NEW set \in {Keep, ClearSessionCookies},
         NEW m, m = Responded(sent, out, set)
  PROVE  m \in TabStates /\ TabOK(m) /\ TabIsClean(m) /\ m.late = ended /\ m.pc = "deliver"
  <1>1. set \in CookieHeaders /\ set.kind \in {"keep", "clear"} /\ "deliver" \in Steps
    BY PlainCookies, Zenon DEF Steps
  <1>2. /\ m \in TabStates /\ m.pc = "deliver" /\ m.late = ended /\ m.out = out
        /\ m.set = set /\ m.op = sent.op
    BY <1>1, Zenon DEF TabStates, Responded
  <1>3. TabOK(m)  BY <1>2, Zenon DEF TabOK, RefreshSteps, PassedSteps
  <1>4. TabIsClean(m)  BY <1>1, <1>2, Zenon DEF TabIsClean, PassedSteps, ProtectedOps
  <1> QED  BY <1>2, <1>3, <1>4, Zenon

\* Only proofs the API has verified are sent on.
LEMMA ProofsTyped ==
  ASSUME NEW c \in Jars
  PROVE  RevokeSessionParams(c) \in ProofPairs
  BY Zenon DEF RevokeSessionParams, ProofPairs, Jars, CookieTokens

\* The record of a request that was sent says what it should.
LEMMA SentIsOK ==
  ASSUME SessionInv, NEW r \in Tabs, NEW m, m = Sent(req[r]), req[r].pc = "send"
  PROVE  /\ m \in TabStates /\ TabOK(m) /\ TabIsClean(m) /\ m.late = ended
         /\ m.pc # "revoke_access" /\ m.pc # "change"
  <1> DEFINE q == req[r]
             first == IF CsrfAllows(q.op, jar, q.header) THEN First(q.op, jar) ELSE "csrf_failed"
             sent == [q EXCEPT !.cookies = jar, !.late = ended, !.proofs = RevokeSessionParams(jar)]
  <1>1. /\ q \in TabStates /\ TabOK(q) /\ TabIsClean(q) /\ jar \in Jars /\ ended \in SUBSET Nat
        /\ RevokeSessionParams(jar) \in ProofPairs
    BY ProofsTyped, Zenon DEF SessionInv, SessionTypeOK
  <1>2. q.op \in Ops /\ q.op # "none" /\ q.out = "none"  BY <1>1, Zenon DEF TabOK, TabStates
  <1>3. /\ sent \in TabStates /\ sent.cookies = jar /\ sent.late = ended /\ sent.op = q.op
        /\ sent.out = q.out /\ sent.set = q.set
    BY <1>1, Zenon DEF TabStates
  <1>4. /\ first \in {"csrf_failed", "degraded", "invalid", "clear", "pat", "r_session", "hmac",
                      "revoke", "bearer", "v_session", "admitted"}
        /\ first = "clear" => q.op = "logout"
        /\ first = "pat" => q.op = "login"
        /\ first \in {"r_session", "hmac"} => q.op = "refresh" /\ jar.refresh # NoToken
        /\ first = "hmac" => Development
        /\ first = "revoke" => q.op = "logout"
        /\ first = "bearer" => q.op = "me" /\ jar.access = NoToken
        /\ first \in {"v_session", "admitted"} => q.op \in ProtectedOps /\ jar.access # NoToken
        /\ first = "admitted" => Development
    BY <1>2, FirstSteps
  <1>5. m = CASE first \in {"invalid", "degraded", "csrf_failed"} ->
                   Responded(sent, first, IF first = "invalid" THEN ErrorCookies(q.op) ELSE Keep)
              [] first = "clear" -> Responded(sent, "ok", ClearSessionCookies)
              [] OTHER -> [sent EXCEPT !.pc = first]
    BY Zenon DEF Sent
  <1> HIDE DEF q, first, sent
  <1>6. CASE first \in {"invalid", "degraded", "csrf_failed"}
    <2> DEFINE set == IF first = "invalid" THEN ErrorCookies(q.op) ELSE Keep
    <2>1. set \in {Keep, ClearSessionCookies}  BY <1>2, PlainCookies, Zenon
    <2>2. m = Responded(sent, first, set)  BY <1>5, <1>6, Zenon
    <2>3. first \in Outcomes /\ first # "ok"  BY <1>6, Zenon DEF Outcomes
    <2> HIDE DEF set
    <2>4. m \in TabStates /\ TabOK(m) /\ TabIsClean(m) /\ m.late = ended /\ m.pc = "deliver"
      BY <1>3, <2>1, <2>2, <2>3, SentAnswered
    <2> QED  BY <2>4, Zenon
  <1>7. CASE first = "clear"
    <2>1. m = Responded(sent, "ok", ClearSessionCookies)
      BY <1>5, <1>7, Zenon
    <2>2. "ok" \in Outcomes /\ ClearSessionCookies \in {Keep, ClearSessionCookies}
      BY Zenon DEF Outcomes
    <2>3. q.op = "logout"  BY <1>4, <1>7, Zenon
    <2>4. m \in TabStates /\ TabOK(m) /\ TabIsClean(m) /\ m.late = ended /\ m.pc = "deliver"
      BY <1>3, <2>1, <2>2, <2>3, SentAnswered
    <2> QED  BY <2>4, Zenon
  <1>8. CASE first \notin {"invalid", "degraded", "csrf_failed", "clear"}
    <2>1. m = [sent EXCEPT !.pc = first]  BY <1>5, <1>8, Zenon
    <2>2. first \in Steps  BY <1>4, <1>8, Zenon DEF Steps, Calls
    <2>3. m \in TabStates /\ m.pc = first /\ Carries(m, sent) /\ m.out = sent.out
            /\ m.set = sent.set
      BY <2>1, <2>2, <1>3, TabMoves
    <2>4. TabOK(m)
      BY <2>3, <1>3, <1>4, <1>8 DEF TabOK, Carries, RefreshSteps, PassedSteps
    <2>5. TabIsClean(m)
      BY <2>3, <1>1, <1>2, <1>3, <1>4, <1>8 DEF TabIsClean, Carries, PassedSteps
    <2> QED  BY <2>3, <2>4, <2>5, <1>3, <1>4, <1>8, Zenon DEF Carries
  <1> QED  BY <1>6, <1>7, <1>8, Zenon

\* The browser adds the cookies and the router decides (Send).
LEMMA SendStep ==
  ASSUME SessionInv, NEW r \in Tabs, Send(r)
  PROVE  SessionInv'
  <1> DEFINE m == Sent(req[r])
  <1>1. req' = [req EXCEPT ![r] = m] /\ UNCHANGED Others /\ req[r].pc = "send"
    BY Zenon DEF Send, At
  <1>2. /\ m \in TabStates /\ TabOK(m) /\ TabIsClean(m) /\ m.late = ended
        /\ m.pc # "revoke_access" /\ m.pc # "change"
    BY <1>1, SentIsOK, Zenon
  <1>3. ended \subseteq revoked  BY Zenon DEF SessionInv, EndsAreMarked
  <1> HIDE DEF m
  <1> QED  BY <1>1, <1>2, <1>3, QuietStep, Zenon

-----------------------------------------------------------------------------
(* Steps that change the browser, the store or the holds *)

\* SessionTypeOK without settings and requests.
OtherTypesOK ==
  /\ jar \in Jars
  /\ pairs \in Seq(PairRows)
  /\ lapsed \in SUBSET ({"access", "refresh"} \X Nat)
  /\ consumed \in SUBSET Nat /\ revoked \in SUBSET Nat /\ accessOut \in SUBSET Nat
  /\ spent \in SUBSET Nat /\ ended \in SUBSET Nat
  /\ grants \in Seq(GrantRows)
  /\ holds \in BOOLEAN /\ admin \in BOOLEAN /\ csrfs \in Nat /\ mishaps \in Nat

\* A step of one tab, from what it does to the rest of the state.
LEMMA TabStep ==
  ASSUME SessionInv, NEW r \in Tabs, NEW q \in TabStates, req' = [req EXCEPT ![r] = q],
         settings' = settings, TabOK(q), TabIsClean(q), revoked \subseteq revoked',
         q.late \subseteq revoked', q.pc = "revoke_access" => q.sid \in revoked',
         ended' \subseteq revoked', OtherTypesOK', ChangesArePaid', SuccessorsAreOnRecord',
         ProofsAreUsedOnce', CookiesBelongTogether'
  PROVE  SessionInv'
  <1>1. /\ req' \in [Tabs -> TabStates]
        /\ (\A s \in Tabs : TabOK(req[s]) /\ TabIsClean(req[s]))'
        /\ EndsAreMarked'
    BY OneTab, Zenon
  <1>2. SessionTypeOK'  BY <1>1, Zenon DEF SessionInv, SessionTypeOK, OtherTypesOK
  <1> QED  BY <1>1, <1>2, Zenon DEF SessionInv

\* The types of everything but settings and requests.
LEMMA TypesSplit == ASSUME SessionInv PROVE OtherTypesOK
  BY Zenon DEF SessionInv, SessionTypeOK, OtherTypesOK

\* Set-Cookie headers turn a jar into a jar (Applied).
LEMMA AppliedTyped ==
  ASSUME jar \in Jars, NEW set \in CookieHeaders
  PROVE  Applied(set) \in Jars
  <1>0. EmptyJar \in Jars  BY Zenon DEF EmptyJar, Jars, CookieTokens, Nobody
  <1>1. CASE set \in [kind : {"keep", "clear"}]
    <2>1. Applied(set) = IF set.kind = "clear" THEN EmptyJar ELSE jar  BY <1>1, Zenon DEF Applied
    <2> QED  BY <1>0, <2>1, Zenon
  <1>2. CASE set \in [kind : {"set"}, access : SessionTokens, refresh : SessionTokens, csrf : Nat]
    <2>1. Applied(set) = [access |-> set.access, refresh |-> set.refresh, csrf |-> set.csrf]
      BY <1>2, Zenon DEF Applied
    <2> QED  BY <1>2, <2>1 DEF Jars, CookieTokens
  <1>3. CASE set \in [kind : {"access"}, access : SessionTokens, csrf : Nat]
    <2>1. Applied(set) = [jar EXCEPT !.access = set.access, !.csrf = set.csrf]
      BY <1>3, Zenon DEF Applied
    <2> QED  BY <1>3, <2>1, Zenon DEF Jars, CookieTokens
  <1> QED  BY <1>1, <1>2, <1>3, Zenon DEF CookieHeaders

\* Outside development they leave cookies of one session.
LEMMA AppliedTogether ==
  ASSUME jar \in Jars, CookiesBelongTogether, ~Development, NEW set \in CookieHeaders,
         set.kind # "access", set.kind = "set" => set.access.sid = set.refresh.sid,
         Applied(set).access # NoToken, Applied(set).refresh # NoToken
  PROVE  Applied(set).access.sid = Applied(set).refresh.sid
  <1>1. CASE set.kind = "set"
    <2>1. Applied(set) = [access |-> set.access, refresh |-> set.refresh, csrf |-> set.csrf]
      BY <1>1, Zenon DEF Applied
    <2> QED  BY <1>1, <2>1
  <1>2. CASE set.kind = "clear"
    <2>1. Applied(set) = EmptyJar  BY <1>2, Zenon DEF Applied
    <2> QED  BY <2>1 DEF EmptyJar
  <1>3. CASE set.kind \notin {"set", "clear"}
    <2>1. Applied(set) = jar  BY <1>3, Zenon DEF Applied
    <2> QED  BY <2>1, Zenon DEF CookiesBelongTogether
  <1> QED  BY <1>1, <1>2, <1>3, Zenon

\* A request that is over says nothing new.
LEMMA DoneKeeps ==
  ASSUME SessionInv, NEW r \in Tabs, NEW m, m = [req[r] EXCEPT !.pc = "done"]
  PROVE  /\ m \in TabStates /\ TabOK(m) /\ TabIsClean(m) /\ m.late = req[r].late
         /\ m.pc # "revoke_access" /\ m.pc # "change"
  <1>1. req[r] \in TabStates /\ TabIsClean(req[r]) /\ "done" \in Steps
    BY Zenon DEF SessionInv, SessionTypeOK, Steps
  <1>2. /\ m \in TabStates /\ m.pc = "done" /\ Carries(m, req[r])
        /\ m.out = req[r].out /\ m.set = req[r].set
    BY <1>1, TabMoves
  <1>3. TabOK(m)  BY <1>2, Zenon DEF TabOK, RefreshSteps, PassedSteps
  <1>4. TabIsClean(m)  BY <1>1, <1>2, Zenon DEF TabIsClean, Carries, PassedSteps
  <1> QED  BY <1>2, <1>3, <1>4, Zenon DEF Carries

\* A response arrives or is lost (Deliver).
LEMMA DeliverStep ==
  ASSUME SessionInv, NEW r \in Tabs, Deliver(r)
  PROVE  SessionInv'
  <1> DEFINE m == [req[r] EXCEPT !.pc = "done"]
  <1>1. /\ m \in TabStates /\ TabOK(m) /\ TabIsClean(m) /\ m.late = req[r].late
        /\ m.pc # "revoke_access" /\ m.pc # "change"
    BY DoneKeeps, Zenon
  <1>2. /\ req' = [req EXCEPT ![r] = m]
        /\ UNCHANGED <<settings, pairs, lapsed, ended, grants, holds, admin, csrfs>>
        /\ UNCHANGED <<consumed, revoked, accessOut, spent>>
    BY Zenon DEF Deliver, Proceed, store
  <1>3. req[r].late \subseteq revoked /\ ended \subseteq revoked
    BY Zenon DEF SessionInv, EndsAreMarked
  <1>4. jar \in Jars /\ req[r].set \in CookieHeaders /\ mishaps \in Nat /\ TabIsClean(req[r])
    BY Zenon DEF SessionInv, SessionTypeOK, TabStates
  <1>5. mishaps' \in Nat  BY <1>4 DEF Deliver
  <1>6. jar' = Applied(req[r].set) \/ jar' = jar  BY Zenon DEF Deliver
  <1>7. jar' \in Jars  BY <1>4, <1>6, AppliedTyped, Zenon
  <1>8. OtherTypesOK'  BY <1>2, <1>5, <1>7, TypesSplit, Zenon DEF OtherTypesOK
  <1>9. CookiesBelongTogether'
    <2> SUFFICES ASSUME ~Development, jar'.access # NoToken, jar'.refresh # NoToken
                 PROVE  jar'.access.sid = jar'.refresh.sid
      BY <1>2, Zenon DEF CookiesBelongTogether, Development
    <2>1. CASE jar' = jar  BY <2>1, Zenon DEF SessionInv, CookiesBelongTogether
    <2>2. CASE jar' = Applied(req[r].set)
      <3>1. /\ req[r].set.kind # "access"
            /\ req[r].set.kind = "set" => req[r].set.access.sid = req[r].set.refresh.sid
        BY <1>4, Zenon DEF TabIsClean
      <3> QED  BY <1>4, <2>2, <3>1, AppliedTogether, Zenon DEF SessionInv
    <2> QED  BY <1>6, <2>1, <2>2, Zenon
  <1> HIDE DEF m
  <1>10. ChangesArePaid'  BY <1>1, <1>2, NoNewChange, Zenon
  <1>11. SuccessorsAreOnRecord' /\ ProofsAreUsedOnce'
    BY <1>2 DEF SessionInv, SuccessorsAreOnRecord, ProofsAreUsedOnce, Development
  <1> QED  BY <1>1, <1>2, <1>3, <1>8, <1>9, <1>10, <1>11, TabStep, Zenon

-----------------------------------------------------------------------------
(* Pairs of tokens *)

\* Both issuers sign session tokens.
LEMMA TokenTyped ==
  ASSUME NEW kind \in {"access", "refresh"}, NEW sid \in Nat, NEW n \in Nat,
         NEW alg \in {"RS256", "HS256"}
  PROVE  Token(kind, sid, n, alg) \in SessionTokens /\ Token(kind, sid, n, alg).sid = sid
  <1>1. "v1" \in KeyIds /\ "ibex" \in Issuers  BY Zenon DEF KeyIds, Issuers
  <1>2. {"metadata_read", "legal_hold_manage"} \in SUBSET {"metadata_read", "legal_hold_manage"}
    OBVIOUS
  <1>3. Token(kind, sid, n, alg).sid = sid  BY Zenon DEF Token
  <1> QED  BY <1>1, <1>2, <1>3, Zenon DEF Token, SessionTokens

\* The two tokens of a response name one session.
LEMMA PairCookies ==
  ASSUME SessionInv, NEW a \in SessionTokens, NEW f \in SessionTokens, a.sid = f.sid,
         NEW set, set = ApplySessionCookies(a, f)
  PROVE  set \in CookieHeaders /\ set.kind = "set" /\ set.access.sid = set.refresh.sid
  <1>1. csrfs + 1 \in Nat  BY DEF SessionInv, SessionTypeOK
  <1>2. set \in [kind : {"set"}, access : SessionTokens, refresh : SessionTokens, csrf : Nat]
    BY <1>1, Zenon DEF ApplySessionCookies
  <1>3. set.kind = "set" /\ set.access = a /\ set.refresh = f  BY Zenon DEF ApplySessionCookies
  <1> QED  BY <1>2, <1>3, Zenon DEF CookieHeaders

\* Serial numbers are naturals.
LEMMA NewSerial == ASSUME SessionInv PROVE Len(pairs) + 1 \in Nat
  BY DEF SessionInv, SessionTypeOK

\* The headers of login and refresh (_apply_session_cookies, _mint_access).
LEMMA MintedCookies ==
  ASSUME SessionInv, NEW sid \in Nat
  PROVE  /\ NewPair(sid) \in CookieHeaders /\ NewPair(sid).kind = "set"
         /\ NewPair(sid).access.sid = NewPair(sid).refresh.sid
         /\ LocalPair \in CookieHeaders /\ LocalPair.kind = "set"
         /\ LocalPair.access.sid = LocalPair.refresh.sid
         /\ ApplyAccessCookie(IssueTokenOpts("access", Len(pairs) + 1)) \in CookieHeaders
  <1> DEFINE n == Len(pairs) + 1
  <1>0. n \in Nat /\ csrfs + 1 \in Nat  BY NewSerial DEF SessionInv, SessionTypeOK
  <1>1. /\ AuthToken("access", sid, n) \in SessionTokens
          /\ AuthToken("refresh", sid, n) \in SessionTokens
        /\ AuthToken("access", sid, n).sid = AuthToken("refresh", sid, n).sid
    BY <1>0, TokenTyped DEF AuthToken
  <1>2. /\ IssueTokenOpts("access", n) \in SessionTokens
          /\ IssueTokenOpts("refresh", n) \in SessionTokens
        /\ IssueTokenOpts("access", n).sid = IssueTokenOpts("refresh", n).sid
    BY <1>0, TokenTyped DEF IssueTokenOpts
  <1>3. NewPair(sid) = ApplySessionCookies(AuthToken("access", sid, n), AuthToken("refresh", sid,
          n))
    BY Zenon DEF NewPair
  <1>4. LocalPair = ApplySessionCookies(IssueTokenOpts("access", n), IssueTokenOpts("refresh", n))
    BY Zenon DEF LocalPair
  <1>5. ApplyAccessCookie(IssueTokenOpts("access", n)) \in [kind : {"access"},
          access : SessionTokens, csrf : Nat]
    BY <1>0, <1>2, Zenon DEF ApplyAccessCookie
  <1>6. ApplyAccessCookie(IssueTokenOpts("access", n)) \in CookieHeaders
    BY <1>5, Zenon DEF CookieHeaders
  <1>7. /\ NewPair(sid) \in CookieHeaders /\ NewPair(sid).kind = "set"
        /\ NewPair(sid).access.sid = NewPair(sid).refresh.sid
    BY <1>1, <1>3, PairCookies, Zenon
  <1>8. /\ LocalPair \in CookieHeaders /\ LocalPair.kind = "set"
        /\ LocalPair.access.sid = LocalPair.refresh.sid
    BY <1>2, <1>4, PairCookies
  <1> QED  BY <1>6, <1>7, <1>8, Zenon

\* A new pair keeps the ledger of successors: its predecessor was not consumed before.
LEMMA MintKeeps ==
  ASSUME SessionInv, NEW sid \in Nat, NEW from \in Nat, Mint(sid, from),
         consumed \subseteq consumed', from # Nobody => from \in consumed' /\ from \notin consumed,
         grants' = grants, settings' = settings
  PROVE  pairs' \in Seq(PairRows) /\ SuccessorsAreOnRecord' /\ ProofsAreUsedOnce'
  <1> DEFINE row == [sid |-> sid, from |-> from]
  <1>1. pairs \in Seq(PairRows) /\ row \in PairRows /\ row.from = from
    BY Zenon DEF SessionInv, SessionTypeOK, PairRows
  <1>2. pairs' = Append(pairs, row)  BY Zenon DEF Mint
  <1> HIDE DEF row
  <1>3. /\ pairs' \in Seq(PairRows) /\ Len(pairs') = Len(pairs) + 1 /\ Len(pairs) \in Nat
        /\ \A i \in 1..Len(pairs) : pairs'[i] = pairs[i]
        /\ pairs'[Len(pairs) + 1] = row
    BY <1>1, <1>2
  <1>4. \A i \in 1..Len(pairs') : i \in 1..Len(pairs) \/ i = Len(pairs) + 1  BY <1>3
  <1>5. \A i \in 1..Len(pairs) : pairs[i].from # Nobody => pairs[i].from \in consumed
    BY Zenon DEF SessionInv, SuccessorsAreOnRecord
  <1>6. \A i \in 1..Len(pairs') : pairs'[i].from # Nobody => pairs'[i].from \in consumed'
    BY <1>1, <1>3, <1>4, <1>5, Zenon
  <1>7. SuccessorsAreOnRecord'  BY <1>6, Zenon DEF SuccessorsAreOnRecord
  <1>8. ProofsAreUsedOnce'
    <2> SUFFICES ASSUME ~Development
                 PROVE  \A i, j \in 1..Len(pairs') : i # j /\ pairs'[i].from # Nobody =>
                          pairs'[i].from # pairs'[j].from
      BY DEF SessionInv, ProofsAreUsedOnce, Development
    <2>1. \A i, j \in 1..Len(pairs) : i # j /\ pairs[i].from # Nobody
            => pairs[i].from # pairs[j].from
      BY Zenon DEF SessionInv, ProofsAreUsedOnce
    <2> TAKE i, j \in 1..Len(pairs')
    <2>2. CASE i \in 1..Len(pairs) /\ j \in 1..Len(pairs)  BY <2>1, <2>2, <1>3, Zenon
    <2>3. CASE i = Len(pairs) + 1 /\ j \in 1..Len(pairs)  BY <2>3, <1>1, <1>3, <1>5, Zenon
    <2>4. CASE i \in 1..Len(pairs) /\ j = Len(pairs) + 1  BY <2>4, <1>1, <1>3, <1>5
    <2> QED  BY <1>4, <2>2, <2>3, <2>4, Zenon
  <1> QED  BY <1>3, <1>7, <1>8, Zenon

\* An answer with a new pair.
LEMMA PairStep ==
  ASSUME SessionInv, NEW r \in Tabs, NEW sid \in Nat, NEW from \in Nat, Mint(sid, from),
         consumed \subseteq consumed', from # Nobody => from \in consumed' /\ from \notin consumed,
         consumed' \in SUBSET Nat, NEW set \in CookieHeaders, Answer(r, "ok", set),
         AnswerIsClean(req[r], "ok", set), csrfs' = csrfs + 1,
         UNCHANGED <<settings, jar, lapsed, revoked, accessOut, spent, ended, grants, holds, admin,
                     mishaps>>
  PROVE  SessionInv'
  <1> DEFINE m == Answered(req[r], "ok", set)
  <1>1. req[r] \in TabStates /\ TabIsClean(req[r]) /\ req[r].late \subseteq revoked
          /\ ended \subseteq revoked
    BY Zenon DEF SessionInv, SessionTypeOK, EndsAreMarked
  <1>2. /\ m \in TabStates /\ TabOK(m) /\ TabIsClean(m)
        /\ m.late = req[r].late /\ m.pc # "revoke_access" /\ m.pc # "change"
    BY <1>1, AnswerKeeps DEF Outcomes
  <1>3. req' = [req EXCEPT ![r] = m]  BY Zenon DEF Answer
  <1> HIDE DEF m
  <1>4. pairs' \in Seq(PairRows) /\ SuccessorsAreOnRecord' /\ ProofsAreUsedOnce'
    BY MintKeeps, Zenon
  <1>5. csrfs' \in Nat  BY DEF SessionInv, SessionTypeOK
  <1>6. OtherTypesOK'  BY <1>4, <1>5, TypesSplit, Zenon DEF OtherTypesOK
  <1>7. ChangesArePaid'  BY <1>2, <1>3, NoNewChange, Zenon
  <1>8. CookiesBelongTogether'  BY Zenon DEF SessionInv, CookiesBelongTogether, Development
  <1> QED  BY <1>1, <1>2, <1>3, <1>4, <1>6, <1>7, <1>8, TabStep, Zenon

\* Login with a personal access token (_validate_pat, _login_via_hmac).
LEMMA ValidatePatStep ==
  ASSUME SessionInv, NEW r \in Tabs, ValidatePat(r)
  PROVE  SessionInv'
  <1>0. req[r].pc = "pat" /\ req[r].op = "login"  BY Zenon DEF ValidatePat, At, SessionInv, TabOK
  <1>1. CASE Deny(r, "invalid") /\ UNCHANGED <<pairs, csrfs>>
    BY <1>1, QuietDeny, Zenon DEF ValidatePat, Others, Refusals
  <1>2. CASE Deny(r, "degraded") /\ UNCHANGED <<pairs, csrfs>>
    BY <1>2, QuietDeny, Zenon DEF ValidatePat, Others, Refusals
  <1>3. CASE Proceed(r, "issue") /\ UNCHANGED <<pairs, csrfs>>
    <2>1. TabOK([req[r] EXCEPT !.pc = "issue"]) /\ "issue" \in Steps
      BY <1>0, MoveIsOK, Zenon DEF RefreshSteps, PassedSteps, Steps, Calls
    <2>2. UNCHANGED Others  BY <1>3, Zenon DEF ValidatePat, Others
    <2> QED  BY <1>3, <2>1, <2>2, QuietMove, Zenon DEF PassedSteps
  <1>4. CASE Mint(Len(pairs) + 1, Nobody) /\ Answer(r, "ok", LocalPair) /\ csrfs' = csrfs + 1
    <2>1. LocalPair \in CookieHeaders /\ AnswerIsClean(req[r], "ok", LocalPair)
      BY <1>0, NewSerial, MintedCookies, Zenon DEF AnswerIsClean, ProtectedOps
    <2>2. UNCHANGED <<settings, jar, lapsed, consumed, revoked, accessOut, spent, ended, grants,
                      holds, admin, mishaps>>
      BY Zenon DEF ValidatePat, store
    <2>3. Nobody \in Nat /\ consumed \in SUBSET Nat  BY Zenon DEF Nobody, SessionInv, SessionTypeOK
    <2> QED  BY <1>4, <2>1, <2>2, <2>3, NewSerial, PairStep, Zenon
  <1> QED  BY <1>1, <1>2, <1>3, <1>4, Zenon DEF ValidatePat

\* The auth service issues a pair (IssuePair).
LEMMA IssueStep ==
  ASSUME SessionInv, NEW r \in Tabs, IssueFromCaller(r)
  PROVE  SessionInv'
  <1>0. req[r].pc = "issue" /\ req[r].op = "login"
    BY Zenon DEF IssueFromCaller, At, SessionInv, TabOK
  <1>1. LoginCookies \in CookieHeaders /\ AnswerIsClean(req[r], "ok", LoginCookies)
    BY <1>0, NewSerial, MintedCookies, Zenon DEF AnswerIsClean, ProtectedOps, LoginCookies
  <1>2. /\ UNCHANGED <<settings, jar, lapsed, consumed, revoked, accessOut, spent, ended, grants,
                       holds, admin, mishaps>>
        /\ Mint(Len(pairs) + 1, Nobody) /\ Answer(r, "ok", LoginCookies) /\ csrfs' = csrfs + 1
    BY Zenon DEF IssueFromCaller, store
  <1>3. Nobody \in Nat /\ consumed \in SUBSET Nat  BY Zenon DEF Nobody, SessionInv, SessionTypeOK
  <1> QED  BY <1>1, <1>2, <1>3, NewSerial, PairStep, Zenon

\* The cookies of a request have a session and a serial number.
LEMMA CookieTyped ==
  ASSUME SessionInv, NEW r \in Tabs
  PROVE  /\ Cookie(r).refresh # NoToken =>
              Cookie(r).refresh.sid \in Nat /\ Cookie(r).refresh.n \in Nat
         /\ Cookie(r).access # NoToken => Cookie(r).access.sid \in Nat /\ Cookie(r).access.n \in Nat
  <1>1. Cookie(r) \in Jars  BY Zenon DEF SessionInv, SessionTypeOK, TabStates, Cookie
  <1>2. Cookie(r).refresh \in CookieTokens /\ Cookie(r).access \in CookieTokens
    BY <1>1, Zenon DEF Jars
  <1> QED  BY <1>2, Zenon DEF CookieTokens, SessionTokens

\* Development refreshes without rotation (_refresh_via_hmac).
LEMMA RefreshViaHmacStep ==
  ASSUME SessionInv, NEW r \in Tabs, RefreshViaHmac(r)
  PROVE  SessionInv'
  <1>0. req[r].pc = "hmac" /\ Development /\ Cookie(r).refresh # NoToken
    BY Zenon DEF RefreshViaHmac, At, SessionInv, TabOK, RefreshSteps, Cookie
  <1>1. CASE Deny(r, "invalid") /\ UNCHANGED <<pairs, csrfs>>
    BY <1>1, QuietDeny, Zenon DEF RefreshViaHmac, Others, Refusals
  <1>2. CASE Deny(r, "degraded") /\ UNCHANGED <<pairs, csrfs>>
    BY <1>2, QuietDeny, Zenon DEF RefreshViaHmac, Others, Refusals
  <1>3. CASE /\ Mint(Cookie(r).refresh.sid, Nobody) /\ csrfs' = csrfs + 1
             /\ Answer(r, "ok", ApplyAccessCookie(IssueTokenOpts("access", Len(pairs) + 1)))
    <2>0. Cookie(r).refresh.sid \in Nat  BY <1>0, CookieTyped, Zenon
    <2>1. /\ ApplyAccessCookie(IssueTokenOpts("access", Len(pairs) + 1)) \in CookieHeaders
          /\ AnswerIsClean(req[r], "ok", ApplyAccessCookie(IssueTokenOpts("access",
            Len(pairs) + 1)))
      BY <1>0, <2>0, MintedCookies, Zenon DEF AnswerIsClean
    <2>2. UNCHANGED <<settings, jar, lapsed, consumed, revoked, accessOut, spent, ended, grants,
                      holds, admin, mishaps>>
      BY Zenon DEF RefreshViaHmac, store
    <2>3. Nobody \in Nat /\ consumed \in SUBSET Nat  BY Zenon DEF Nobody, SessionInv, SessionTypeOK
    <2> QED  BY <1>3, <2>0, <2>1, <2>2, <2>3, PairStep, Zenon
  <1> QED  BY <1>1, <1>2, <1>3, Zenon DEF RefreshViaHmac

-----------------------------------------------------------------------------
(* The store of the auth service *)

\* A refresh token is consumed, or found consumed (consumeRefreshOrRevoke).
LEMMA ConsumeRefreshStep ==
  ASSUME SessionInv, NEW r \in Tabs, ConsumeRefresh(r)
  PROVE  SessionInv'
  <1> DEFINE t == Cookie(r).refresh
  <1>0. /\ req[r].pc = "r_consume" /\ req[r].op = "refresh" /\ t # NoToken
        /\ ~Development => t.sid \notin req[r].late
    BY Zenon DEF ConsumeRefresh, At, SessionInv, TabOK, TabIsClean, RefreshSteps, Cookie
  <1>1. t.sid \in Nat /\ t.n \in Nat  BY <1>0, CookieTyped, Zenon
  <1>2. consumed' = consumed \union {t.n}  BY Zenon DEF ConsumeRefresh, ConsumeOnce
  <1>3. UNCHANGED <<settings, jar, lapsed, revoked, accessOut, spent, ended, grants, holds, admin,
                    mishaps>>
    BY Zenon DEF ConsumeRefresh
  <1>4. consumed' \in SUBSET Nat  BY <1>1, <1>2, Zenon DEF SessionInv, SessionTypeOK
  <1>5. CASE t.n \notin consumed
    <2>1. Mint(t.sid, t.n) /\ Answer(r, "ok", RefreshedCookies(t.sid)) /\ csrfs' = csrfs + 1
      BY <1>5, Zenon DEF ConsumeRefresh
    <2>2. /\ RefreshedCookies(t.sid) \in CookieHeaders
          /\ AnswerIsClean(req[r], "ok", RefreshedCookies(t.sid))
      BY <1>0, <1>1, MintedCookies, Zenon DEF AnswerIsClean, ProtectedOps, RefreshedCookies, Cookie
    <2> HIDE DEF t
    <2> QED  BY <1>1, <1>2, <1>3, <1>4, <1>5, <2>1, <2>2, PairStep
  <1>6. CASE t.n \in consumed
    <2>1. Proceed(r, "r_replay") /\ UNCHANGED <<pairs, csrfs>>  BY <1>6, Zenon DEF ConsumeRefresh
    <2>2. TabOK([req[r] EXCEPT !.pc = "r_replay"]) /\ "r_replay" \in Steps
      BY <1>0, MoveIsOK, Zenon DEF RefreshSteps, PassedSteps, Steps, Calls
    <2>3. consumed' = consumed  BY <1>2, <1>6, Zenon
    <2>4. UNCHANGED Others  BY <1>3, <2>1, <2>3 DEF Others, store
    <2> QED  BY <2>1, <2>2, <2>4, QuietMove, Zenon DEF PassedSteps
  <1> QED  BY <1>5, <1>6, Zenon

\* A step that answers or goes on and adds to what is revoked or reported.
LEMMA MarkStep ==
  ASSUME SessionInv, NEW r \in Tabs, NEW q \in TabStates, req' = [req EXCEPT ![r] = q],
         TabOK(q), TabIsClean(q), q.late = req[r].late, q.pc # "change",
         q.pc = "revoke_access" => q.sid \in revoked',
         revoked \subseteq revoked', revoked' \in SUBSET Nat, ended' \subseteq revoked',
         accessOut' \in SUBSET Nat,
         UNCHANGED <<settings, jar, pairs, lapsed, consumed, spent, grants, holds, admin, csrfs,
                     mishaps>>
  PROVE  SessionInv'
  <1>1. req[r].late \subseteq revoked  BY Zenon DEF SessionInv, EndsAreMarked
  <1>2. ended' \in SUBSET Nat  OBVIOUS
  <1>3. OtherTypesOK'  BY <1>2, TypesSplit, Zenon DEF OtherTypesOK
  <1>4. ChangesArePaid'  BY NoNewChange, Zenon
  <1>5. SuccessorsAreOnRecord' /\ ProofsAreUsedOnce' /\ CookiesBelongTogether'
    BY DEF SessionInv, SuccessorsAreOnRecord, ProofsAreUsedOnce, CookiesBelongTogether, Development
  <1>6. q.late \subseteq revoked'  BY <1>1, Zenon
  <1> QED  BY <1>3, <1>4, <1>5, <1>6, TabStep, Zenon

\* A replayed refresh token ends its session (revokeRefreshReplay).
LEMMA ReplayStep ==
  ASSUME SessionInv, NEW r \in Tabs, RevokeRefreshReplay(r)
  PROVE  SessionInv'
  <1> DEFINE m == Answered(req[r], "invalid", ErrorCookies(req[r].op))
             sid == Cookie(r).refresh.sid
  <1>0. Cookie(r).refresh # NoToken
    BY Zenon DEF RevokeRefreshReplay, At, SessionInv, TabOK, RefreshSteps, Cookie
  <1>1. sid \in Nat  BY <1>0, CookieTyped, Zenon
  <1>2. /\ m \in TabStates /\ TabOK(m) /\ TabIsClean(m)
        /\ m.late = req[r].late /\ m.pc # "revoke_access" /\ m.pc # "change"
    BY DenyKeeps, Zenon DEF Refusals
  <1>3. req' = [req EXCEPT ![r] = m]  BY Zenon DEF RevokeRefreshReplay, Deny, Answer
  <1>4. revoked' = revoked \union {sid} /\ ended' \in {ended, ended \union {sid}}
    BY Zenon DEF RevokeRefreshReplay
  <1>5. revoked \in SUBSET Nat /\ accessOut \in SUBSET Nat /\ ended \subseteq revoked
    BY Zenon DEF SessionInv, SessionTypeOK, EndsAreMarked
  <1>6. UNCHANGED <<settings, jar, pairs, lapsed, consumed, accessOut, spent, grants, holds, admin,
                    csrfs, mishaps>>
    BY Zenon DEF RevokeRefreshReplay
  <1> HIDE DEF m, sid
  <1>7. /\ revoked \subseteq revoked' /\ revoked' \in SUBSET Nat /\ ended' \subseteq revoked'
        /\ accessOut' \in SUBSET Nat
    BY <1>1, <1>4, <1>5, <1>6, Zenon
  <1> QED  BY <1>2, <1>3, <1>6, <1>7, MarkStep, Zenon

\* The proofs of a logout that verify name a session.
LEMMA ProofClaims ==
  ASSUME SessionInv, NEW r \in Tabs, VerifyRevokeSessionProofs(req[r].proofs) # NoClaims
  PROVE  VerifyRevokeSessionProofs(req[r].proofs).sid \in Nat
  <1> DEFINE p == req[r].proofs
  <1>1. p.access \in CookieTokens /\ p.refresh \in CookieTokens
    BY Zenon DEF SessionInv, SessionTypeOK, TabStates, ProofPairs
  <1>2. \A t \in CookieTokens : t # NoToken => ToClaims(t).sid \in Nat
    BY Zenon DEF CookieTokens, SessionTokens, ToClaims
  <1>3. \/ VerifyRevokeSessionProofs(p) = NoClaims
        \/ p.access # NoToken /\ VerifyRevokeSessionProofs(p) = ToClaims(p.access)
        \/ p.refresh # NoToken /\ VerifyRevokeSessionProofs(p) = ToClaims(p.refresh)
    BY Zenon DEF VerifyRevokeSessionProofs
  <1> QED  BY <1>1, <1>2, <1>3, Zenon

\* Logout marks session and family (RevokeSession).
LEMMA RevokeSessionStep ==
  ASSUME SessionInv, NEW r \in Tabs, RevokeSession(r)
  PROVE  SessionInv'
  <1> DEFINE claims == VerifyRevokeSessionProofs(req[r].proofs)
  <1>0. req[r].pc = "revoke" /\ req[r].op = "logout"
    BY Zenon DEF RevokeSession, At, SessionInv, TabOK
  <1>1. CASE claims = NoClaims
    <2>1. Deny(r, "invalid") /\ UNCHANGED Others  BY <1>1 DEF RevokeSession, Others, store
    <2> QED  BY <2>1, QuietDeny, Zenon DEF Refusals
  <1>2. CASE claims # NoClaims
    <2> DEFINE m == [req[r] EXCEPT !.pc = "revoke_access", !.sid = claims.sid]
    <2>1. claims.sid \in Nat  BY <1>2, ProofClaims, Zenon
    <2>2. req[r] \in TabStates /\ TabIsClean(req[r]) /\ "revoke_access" \in Steps
      BY Zenon DEF SessionInv, SessionTypeOK, Steps, Calls
    <2>3. /\ revoked' = revoked \union {claims.sid} /\ req' = [req EXCEPT ![r] = m]
          /\ UNCHANGED <<settings, jar, pairs, lapsed, consumed, accessOut, spent, ended, grants,
                         holds,
                          admin, csrfs, mishaps>>
      BY <1>2, Zenon DEF RevokeSession
    <2> HIDE DEF claims
    <2>4. /\ m \in TabStates /\ m.pc = "revoke_access" /\ m.sid = claims.sid /\ Carries(m, req[r])
          /\ m.out = req[r].out /\ m.set = req[r].set
      BY <2>1, <2>2, Zenon DEF TabStates, Carries
    <2> HIDE DEF m
    <2>5. TabOK(m)  BY <1>0, <2>4, Zenon DEF TabOK, Carries, RefreshSteps, PassedSteps
    <2>6. TabIsClean(m)  BY <2>2, <2>4 DEF TabIsClean, Carries, PassedSteps
    <2>7. revoked \in SUBSET Nat /\ accessOut \in SUBSET Nat /\ ended \subseteq revoked
      BY Zenon DEF SessionInv, SessionTypeOK, EndsAreMarked
    <2>8. /\ revoked \subseteq revoked' /\ revoked' \in SUBSET Nat /\ ended' \subseteq revoked'
          /\ accessOut' \in SUBSET Nat /\ m.sid \in revoked'
      BY <2>1, <2>3, <2>4, <2>7, Zenon
    <2>9. m.late = req[r].late /\ m.pc # "change"  BY <2>4, Zenon DEF Carries
    <2> QED  BY <2>3, <2>4, <2>5, <2>6, <2>8, <2>9, MarkStep, Zenon
  <1> QED  BY <1>1, <1>2, Zenon

\* Logout marks the access token and is answered.
LEMMA RevokeAccessStep ==
  ASSUME SessionInv, NEW r \in Tabs, RevokeAccess(r)
  PROVE  SessionInv'
  <1> DEFINE m == Answered(req[r], "ok", ClearSessionCookies)
             out == IF req[r].proofs.access # NoToken THEN {req[r].proofs.access.n} ELSE {}
  <1>0. req[r].pc = "revoke_access" /\ req[r].op = "logout" /\ req[r].sid \in revoked
    BY Zenon DEF RevokeAccess, At, SessionInv, TabOK, EndsAreMarked
  <1>1. req[r] \in TabStates /\ TabIsClean(req[r])  BY Zenon DEF SessionInv, SessionTypeOK
  <1>2. AnswerIsClean(req[r], "ok", ClearSessionCookies)
    BY <1>0, PlainCookies, Zenon DEF AnswerIsClean, ProtectedOps
  <1>3. /\ m \in TabStates /\ TabOK(m) /\ TabIsClean(m)
        /\ m.late = req[r].late /\ m.pc # "revoke_access" /\ m.pc # "change"
    BY <1>1, <1>2, PlainCookies, AnswerKeeps DEF Outcomes
  <1>4. req[r].proofs.access \in CookieTokens  BY <1>1, Zenon DEF TabStates, ProofPairs
  <1>5. out \in SUBSET Nat  BY <1>4, Zenon DEF CookieTokens, SessionTokens
  <1>6. /\ req' = [req EXCEPT ![r] = m] /\ accessOut' = accessOut \union out
        /\ ended' \in {ended, ended \union {req[r].sid}}
        /\ UNCHANGED <<settings, jar, pairs, lapsed, consumed, revoked, spent, grants, holds,
                       admin, csrfs, mishaps>>
    BY Zenon DEF RevokeAccess, Answer
  <1>7. revoked \in SUBSET Nat /\ accessOut \in SUBSET Nat /\ ended \subseteq revoked
    BY Zenon DEF SessionInv, SessionTypeOK, EndsAreMarked
  <1> HIDE DEF m, out
  <1>8. /\ revoked \subseteq revoked' /\ revoked' \in SUBSET Nat /\ ended' \subseteq revoked'
        /\ accessOut' \in SUBSET Nat
    BY <1>0, <1>5, <1>6, <1>7, Zenon
  <1> QED  BY <1>3, <1>6, <1>8, MarkStep, Zenon

-----------------------------------------------------------------------------
(* Step-up proofs and holds *)

\* A step-up proof has a serial number.
LEMMA StepUpTyped ==
  ASSUME SessionInv, NEW r \in Tabs, req[r].step # NoToken
  PROVE  req[r].step.n \in Nat
  <1>1. req[r].step \in StepUpTokens \union {NoToken}
    BY Zenon DEF SessionInv, SessionTypeOK, TabStates
  <1> QED  BY <1>1, Zenon DEF StepUpTokens

\* A step-up proof is consumed once; two tabs at change never share one.
LEMMA ConsumeStepUpStep ==
  ASSUME SessionInv, NEW r \in Tabs, ConsumeStepUp(r)
  PROVE  SessionInv'
  <1> DEFINE n == req[r].step.n
  <1>0. TabOK(req[r]) /\ TabIsClean(req[r]) /\ req[r].pc = "s_consume"
    BY Zenon DEF SessionInv, ConsumeStepUp, At
  <1>1. /\ req[r].op \in ProtectedOps /\ Cookie(r).access # NoToken
        /\ req[r].step # NoToken /\ ~Development /\ Cookie(r).access.sid \notin req[r].late
    BY <1>0, Zenon DEF TabOK, TabIsClean, Cookie, PassedSteps
  <1>2. n \in Nat  BY <1>1, StepUpTyped, Zenon
  <1>3. /\ spent' = spent \union {n}
        /\ UNCHANGED <<settings, jar, pairs, lapsed, consumed, revoked, accessOut, ended, grants,
                       holds,
                        admin, csrfs, mishaps>>
    BY Zenon DEF ConsumeStepUp, StepUpToken
  <1>4. req[r].late \subseteq revoked /\ ended \subseteq revoked
    BY Zenon DEF SessionInv, EndsAreMarked
  <1>5. spent' \in SUBSET Nat  BY <1>2, <1>3, Zenon DEF SessionInv, SessionTypeOK
  <1>6. OtherTypesOK'  BY <1>3, <1>5, TypesSplit, Zenon DEF OtherTypesOK
  <1>7. SuccessorsAreOnRecord' /\ ProofsAreUsedOnce' /\ CookiesBelongTogether'
    BY <1>3 DEF SessionInv, SuccessorsAreOnRecord, ProofsAreUsedOnce, CookiesBelongTogether,
      Development
  <1>8. CASE Deny(r, "forbidden")
    <2> DEFINE m == Answered(req[r], "forbidden", ErrorCookies(req[r].op))
    <2>1. /\ m \in TabStates /\ TabOK(m) /\ TabIsClean(m)
          /\ m.late = req[r].late /\ m.pc # "revoke_access" /\ m.pc # "change"
      BY DenyKeeps, Zenon DEF Refusals
    <2>2. req' = [req EXCEPT ![r] = m]  BY <1>8, Zenon DEF Deny, Answer
    <2> HIDE DEF m
    <2>3. spent \subseteq spent'  BY <1>3, Zenon
    <2>4. ChangesArePaid'  BY <1>3, <2>1, <2>2, <2>3, NoNewChange, Zenon
    <2> QED  BY <1>3, <1>4, <1>6, <1>7, <2>1, <2>2, <2>4, TabStep, Zenon
  <1>9. CASE Proceed(r, "done")
    <2> DEFINE m == [req[r] EXCEPT !.pc = "done"]
    <2>1. /\ m \in TabStates /\ TabOK(m) /\ TabIsClean(m)
          /\ m.late = req[r].late /\ m.pc # "revoke_access" /\ m.pc # "change"
      BY DoneKeeps, Zenon
    <2>2. req' = [req EXCEPT ![r] = m]  BY <1>9 DEF Proceed
    <2> HIDE DEF m
    <2>3. spent \subseteq spent'  BY <1>3, Zenon
    <2>4. ChangesArePaid'  BY <1>3, <2>1, <2>2, <2>3, NoNewChange, Zenon
    <2> QED  BY <1>3, <1>4, <1>6, <1>7, <2>1, <2>2, <2>4, TabStep, Zenon
  <1>10. CASE n \notin spent /\ Proceed(r, "change")
    <2> DEFINE m == [req[r] EXCEPT !.pc = "change"]
    <2>1. TabOK(m) /\ "change" \in Steps
      BY <1>1, MoveIsOK, Zenon DEF RefreshSteps, PassedSteps, Steps
    <2>2. req[r] \in TabStates /\ req \in [Tabs -> TabStates]
      BY Zenon DEF SessionInv, SessionTypeOK
    <2>3. /\ m \in TabStates /\ m.pc = "change" /\ Carries(m, req[r])
          /\ m.late = req[r].late /\ TabIsClean(m)
      BY <1>0, <1>1, <2>1, <2>2, TabMoves, MoveKeeps DEF Cookie
    <2>4. req' = [req EXCEPT ![r] = m]  BY <1>10, Zenon DEF Proceed
    <2> HIDE DEF m
    <2>5. \A s \in Tabs : req'[s] = IF s = r THEN m ELSE req[s]  BY <2>2, <2>4, Zenon
    <2>6. m.step.n = n  BY <2>3, Zenon DEF Carries
    <2>7. /\ \A s \in Tabs : req[s].pc = "change" =>
               /\ req[s].step.n \in spent
               /\ \A i \in 1..Len(grants) : grants[i].step # req[s].step.n
               /\ \A u \in Tabs : u # s /\ req[u].pc = "change" => req[u].step.n # req[s].step.n
          /\ \A i \in 1..Len(grants) : grants[i].step \in spent
            /\ grants[i].by \notin grants[i].late
      BY <1>1, Zenon DEF SessionInv, ChangesArePaid
    <2> HIDE DEF n
    <2>8. \A s \in Tabs : s # r /\ req'[s].pc = "change" => req[s].pc = "change" /\ req'[s] = req[s]
      BY <2>5, Zenon
    <2>9. req'[r] = m /\ grants' = grants  BY <1>3, <2>5, Zenon
    <2>10. \A s \in Tabs : req'[s].pc = "change" =>
             /\ req'[s].step.n \in spent'
             /\ \A i \in 1..Len(grants') : grants'[i].step # req'[s].step.n
             /\ \A u \in Tabs : u # s /\ req'[u].pc = "change" => req'[u].step.n # req'[s].step.n
      <3> SUFFICES ASSUME NEW s \in Tabs, req'[s].pc = "change"
                   PROVE  /\ req'[s].step.n \in spent'
                          /\ \A i \in 1..Len(grants) : grants[i].step # req'[s].step.n
                          /\ \A u \in Tabs : u # s /\ req'[u].pc = "change"
                            => req'[u].step.n # req'[s].step.n
        BY <2>9, Zenon
      <3>1. CASE s = r  BY <3>1, <1>3, <1>10, <2>6, <2>7, <2>8, <2>9
      <3>2. CASE s # r  BY <3>2, <1>3, <1>10, <2>6, <2>7, <2>8, <2>9
      <3> QED  BY <3>1, <3>2, Zenon
    <2>11. \A i \in 1..Len(grants') : grants'[i].step \in spent'
             /\ grants'[i].by \notin grants'[i].late
      BY <1>3, <2>7, <2>9, Zenon
    <2>12. ChangesArePaid'  BY <2>10, <2>11, Zenon DEF ChangesArePaid
    <2>13. m.pc # "revoke_access"  BY <2>3, Zenon
    <2> QED  BY <1>3, <1>4, <1>6, <1>7, <2>1, <2>3, <2>4, <2>12, <2>13, TabStep, Zenon
  <1> QED  BY <1>8, <1>9, <1>10, Zenon DEF ConsumeStepUp, StepUpToken

\* The hold is changed under the proof that was spent (set_hold, clear_hold).
LEMMA ChangeHoldStep ==
  ASSUME SessionInv, NEW r \in Tabs, ChangeHold(r)
  PROVE  SessionInv'
  <1>0. TabOK(req[r]) /\ TabIsClean(req[r]) /\ req[r].pc = "change" /\ req[r] \in TabStates
    BY Zenon DEF SessionInv, SessionTypeOK, ChangeHold, At
  <1>1. /\ req[r].op \in ProtectedOps /\ Cookie(r).access # NoToken /\ req[r].step # NoToken
        /\ ~Development => Cookie(r).access.sid \notin req[r].late
    BY <1>0 DEF TabOK, TabIsClean, Cookie, PassedSteps
  <1>2. UNCHANGED <<settings, jar, pairs, lapsed, consumed, revoked, accessOut, spent, ended,
                    admin, csrfs, mishaps>>
    BY Zenon DEF ChangeHold, store
  <1>3. req[r].late \subseteq revoked /\ ended \subseteq revoked
    BY Zenon DEF SessionInv, EndsAreMarked
  <1>4. CookiesBelongTogether' /\ SuccessorsAreOnRecord'
    BY <1>2, Zenon DEF SessionInv, CookiesBelongTogether, SuccessorsAreOnRecord, Development
  <1>5. CASE Answer(r, "conflict", Keep) /\ UNCHANGED <<holds, grants>>
    <2> DEFINE m == Answered(req[r], "conflict", Keep)
    <2>1. AnswerIsClean(req[r], "conflict", Keep)  BY PlainCookies, Zenon DEF AnswerIsClean
    <2>2. /\ m \in TabStates /\ TabOK(m) /\ TabIsClean(m)
          /\ m.late = req[r].late /\ m.pc # "revoke_access" /\ m.pc # "change"
      BY <1>0, <2>1, PlainCookies, AnswerKeeps DEF Outcomes
    <2>3. req' = [req EXCEPT ![r] = m] /\ UNCHANGED Others  BY <1>2, <1>5 DEF Answer, Others, store
    <2> HIDE DEF m
    <2> QED  BY <1>3, <2>2, <2>3, QuietStep, Zenon
  <1>6. CASE /\ Answer(r, "ok", Keep) /\ holds' = ~holds
             /\ grants' = Append(grants, [step |-> req[r].step.n, by |-> Cookie(r).access.sid,
                                          late |-> req[r].late])
    <2> DEFINE m == Answered(req[r], "ok", Keep)
               row == [step |-> req[r].step.n, by |-> Cookie(r).access.sid, late |-> req[r].late]
    <2>1. AnswerIsClean(req[r], "ok", Keep)
      BY <1>1, PlainCookies, Zenon DEF AnswerIsClean, ProtectedOps, Cookie
    <2>2. /\ m \in TabStates /\ TabOK(m) /\ TabIsClean(m)
          /\ m.late = req[r].late /\ m.pc # "revoke_access" /\ m.pc # "change"
      BY <1>0, <2>1, PlainCookies, AnswerKeeps DEF Outcomes
    <2>3. req' = [req EXCEPT ![r] = m] /\ grants' = Append(grants, row)  BY <1>6, Zenon DEF Answer
    <2>4. row \in GrantRows /\ row.step = req[r].step.n /\ row.by = Cookie(r).access.sid
            /\ row.late = req[r].late
      BY <1>0, <1>1, StepUpTyped, CookieTyped, Zenon DEF GrantRows, TabStates
    <2>5. grants \in Seq(GrantRows) /\ req \in [Tabs -> TabStates] /\ holds' \in BOOLEAN
      BY <1>6, Zenon DEF SessionInv, SessionTypeOK
    <2> HIDE DEF m, row
    <2>6. /\ grants' \in Seq(GrantRows) /\ Len(grants') = Len(grants) + 1 /\ Len(grants) \in Nat
          /\ \A i \in 1..Len(grants) : grants'[i] = grants[i]
          /\ grants'[Len(grants) + 1] = row
      BY <2>3, <2>4, <2>5
    <2>7. \A i \in 1..Len(grants') : i \in 1..Len(grants) \/ i = Len(grants) + 1  BY <2>6
    <2>8. OtherTypesOK'  BY <1>2, <2>5, <2>6, TypesSplit, Zenon DEF OtherTypesOK
    <2>9. \A s \in Tabs : req'[s].pc = "change" => s # r /\ req'[s] = req[s]
      BY <2>2, <2>3, <2>5, Zenon
    <2>10. ChangesArePaid'
      <3> SUFFICES ASSUME ~Development  PROVE ChangesArePaid'
        BY <1>2, Zenon DEF ChangesArePaid, Development
      <3>1. /\ \A s \in Tabs : req[s].pc = "change" =>
                 /\ req[s].step.n \in spent
                 /\ \A i \in 1..Len(grants) : grants[i].step # req[s].step.n
                 /\ \A u \in Tabs : u # s /\ req[u].pc = "change" => req[u].step.n # req[s].step.n
            /\ \A i \in 1..Len(grants) : grants[i].step \in spent
              /\ grants[i].by \notin grants[i].late
        BY Zenon DEF SessionInv, ChangesArePaid
      <3>2. \A s \in Tabs : req'[s].pc = "change" =>
              /\ req'[s].step.n \in spent'
              /\ \A i \in 1..Len(grants') : grants'[i].step # req'[s].step.n
              /\ \A u \in Tabs : u # s /\ req'[u].pc = "change" => req'[u].step.n # req'[s].step.n
        <4> SUFFICES ASSUME NEW s \in Tabs, req'[s].pc = "change"
                     PROVE  /\ req'[s].step.n \in spent'
                            /\ \A i \in 1..Len(grants') : grants'[i].step # req'[s].step.n
                            /\ \A u \in Tabs : u # s /\ req'[u].pc = "change"
                              => req'[u].step.n # req'[s].step.n
          OBVIOUS
        <4>1. s # r /\ req'[s] = req[s] /\ req[s].pc = "change"  BY <2>9, Zenon
        <4>2. req[s].step.n # req[r].step.n  BY <1>0, <3>1, <4>1, Zenon
        <4>3. \A i \in 1..Len(grants') : grants'[i].step # req'[s].step.n
          BY <2>4, <2>6, <2>7, <3>1, <4>1, <4>2
        <4>4. \A u \in Tabs : u # s /\ req'[u].pc = "change" => req'[u].step.n # req'[s].step.n
          BY <2>9, <3>1, <4>1
        <4> QED  BY <1>2, <3>1, <4>1, <4>3, <4>4, Zenon
      <3>3. \A i \in 1..Len(grants') : grants'[i].step \in spent'
              /\ grants'[i].by \notin grants'[i].late
        BY <1>0, <1>1, <1>2, <2>4, <2>6, <2>7, <3>1
      <3> QED  BY <3>2, <3>3, Zenon DEF ChangesArePaid
    <2>11. ProofsAreUsedOnce'
      <3> SUFFICES ASSUME ~Development
                   PROVE  \A i, j \in 1..Len(grants') : i # j => grants'[i].step # grants'[j].step
        BY <1>2 DEF SessionInv, ProofsAreUsedOnce, Development
      <3>1. \A i, j \in 1..Len(grants) : i # j => grants[i].step # grants[j].step
        BY Zenon DEF SessionInv, ProofsAreUsedOnce
      <3>2. \A i \in 1..Len(grants) : grants[i].step # row.step
        BY <1>0, <2>4, Zenon DEF SessionInv, ChangesArePaid
      <3> QED  BY <2>6, <2>7, <3>1, <3>2
    <2> QED  BY <1>2, <1>3, <1>4, <2>2, <2>3, <2>8, <2>10, <2>11, TabStep, Zenon
  <1> QED  BY <1>5, <1>6, Zenon DEF ChangeHold, StepUpToken

-----------------------------------------------------------------------------
(* Faults and the environment *)

\* Faults are counted.
LEMMA MishapCounted == ASSUME SessionInv, Mishap PROVE mishaps' \in Nat
  BY DEF SessionInv, SessionTypeOK, Mishap

\* A command of the auth service fails (_map_rpc_error).
LEMMA AuthFailsStep ==
  ASSUME SessionInv, NEW r \in Tabs, AuthFails(r)
  PROVE  SessionInv'
  <1> DEFINE m == Answered(req[r], "degraded", ErrorCookies(req[r].op))
  <1>1. /\ m \in TabStates /\ TabOK(m) /\ TabIsClean(m)
        /\ m.late = req[r].late /\ m.pc # "revoke_access" /\ m.pc # "change"
    BY DenyKeeps, Zenon DEF Refusals
  <1>2. /\ req' = [req EXCEPT ![r] = m]
        /\ UNCHANGED <<settings, jar, pairs, lapsed, consumed, revoked, accessOut, spent, ended,
                       grants,
                        holds, admin, csrfs>>
    BY Zenon DEF AuthFails, Deny, Answer, store
  <1>3. OtherTypesOK'  BY <1>2, MishapCounted, TypesSplit, Zenon DEF OtherTypesOK, AuthFails
  <1>4. req[r].late \subseteq revoked /\ ended \subseteq revoked
    BY Zenon DEF SessionInv, EndsAreMarked
  <1> HIDE DEF m
  <1>5. ChangesArePaid'  BY <1>1, <1>2, NoNewChange, Zenon
  <1>6. SuccessorsAreOnRecord' /\ ProofsAreUsedOnce' /\ CookiesBelongTogether'
    BY <1>2 DEF SessionInv, SuccessorsAreOnRecord, ProofsAreUsedOnce, CookiesBelongTogether,
      Development
  <1> QED  BY <1>1, <1>2, <1>3, <1>4, <1>5, <1>6, TabStep, Zenon

\* The API gives up on a call that goes on (_call_lifecycle).
LEMMA GiveUpStep ==
  ASSUME SessionInv, NEW r \in Tabs, GiveUp(r)
  PROVE  SessionInv'
  <1> DEFINE m == [req[r] EXCEPT !.gone = TRUE, !.out = "degraded"]
  <1>0. /\ req[r] \in TabStates /\ TabOK(req[r]) /\ TabIsClean(req[r]) /\ req[r].pc \in Calls
        /\ "degraded" \in Outcomes /\ TRUE \in BOOLEAN /\ EmptyJar \in Jars /\ jar \in Jars
    BY Zenon DEF SessionInv, SessionTypeOK, GiveUp, Outcomes, EmptyJar, Jars, CookieTokens, Nobody
  <1>1. /\ m \in TabStates /\ m.pc = req[r].pc /\ Carries(m, req[r]) /\ m.sid = req[r].sid
        /\ m.out = "degraded" /\ m.set = req[r].set
    BY <1>0, Zenon DEF TabStates, Carries
  <1>2. /\ req' = [req EXCEPT ![r] = m] /\ jar' \in {jar, EmptyJar}
        /\ UNCHANGED <<settings, pairs, lapsed, consumed, revoked, accessOut, spent, ended, grants,
                        holds, admin, csrfs>>
    BY Zenon DEF GiveUp, store
  <1> HIDE DEF m
  <1>3. req[r].pc \notin {"idle", "send", "change"}  BY <1>0, Zenon DEF Calls
  <1>4. TabOK(m)  BY <1>0, <1>1, <1>3 DEF TabOK, Carries
  <1>5. TabIsClean(m)  BY <1>0, <1>1, Zenon DEF TabIsClean, Carries
  <1>6. jar' \in Jars  BY <1>0, <1>2, Zenon
  <1>7. OtherTypesOK'  BY <1>2, <1>6, MishapCounted, TypesSplit, Zenon DEF OtherTypesOK, GiveUp
  <1>8. /\ m.late \subseteq revoked /\ ended \subseteq revoked
        /\ m.pc = "revoke_access" => m.sid \in revoked
    BY <1>1 DEF SessionInv, EndsAreMarked, Carries
  <1>9. ChangesArePaid'  BY <1>1, <1>2, <1>3, NoNewChange, Zenon
  <1>10. SuccessorsAreOnRecord' /\ ProofsAreUsedOnce'
    BY <1>2 DEF SessionInv, SuccessorsAreOnRecord, ProofsAreUsedOnce, Development
  <1>11. CookiesBelongTogether'
    BY <1>2 DEF SessionInv, CookiesBelongTogether, Development, EmptyJar
  <1> QED  BY <1>1, <1>2, <1>4, <1>5, <1>7, <1>8, <1>9, <1>10, <1>11, TabStep, Zenon

\* Steps of no request.
LEMMA WorldStep ==
  ASSUME SessionInv, OtherTypesOK', CookiesBelongTogether',
         UNCHANGED <<settings, req, pairs, consumed, revoked, accessOut, spent, ended, grants,
                     holds, csrfs>>
  PROVE  SessionInv'
  <1>1. SessionTypeOK'  BY Zenon DEF SessionInv, SessionTypeOK, OtherTypesOK
  <1>2. (\A r \in Tabs : TabOK(req[r]) /\ TabIsClean(req[r]))'
    BY Zenon DEF SessionInv, TabOK, TabIsClean, Development
  <1>3. EndsAreMarked'  BY Zenon DEF SessionInv, EndsAreMarked
  <1>4. ChangesArePaid'  BY Zenon DEF SessionInv, ChangesArePaid, Development
  <1>5. SuccessorsAreOnRecord' /\ ProofsAreUsedOnce'
    BY DEF SessionInv, SuccessorsAreOnRecord, ProofsAreUsedOnce, Development
  <1> QED  BY <1>1, <1>2, <1>3, <1>4, <1>5, Zenon DEF SessionInv

\* A cookie and its token run out.
LEMMA ExpiryStep ==
  ASSUME SessionInv, AccessExpires \/ RefreshExpires
  PROVE  SessionInv'
  <1>0. /\ jar \in Jars /\ lapsed \in SUBSET ({"access", "refresh"} \X Nat)
        /\ Mishap
        /\ UNCHANGED <<settings, req, pairs, consumed, revoked, accessOut, spent, ended, grants,
                       holds, admin, csrfs>>
    BY Zenon DEF SessionInv, SessionTypeOK, AccessExpires, RefreshExpires, store
  <1>1. jar.access \in CookieTokens /\ jar.refresh \in CookieTokens  BY <1>0, Zenon DEF Jars
  <1>2. /\ jar.access # NoToken => jar.access.n \in Nat
        /\ jar.refresh # NoToken => jar.refresh.n \in Nat
    BY <1>1, Zenon DEF CookieTokens, SessionTokens
  <1>3. \/ /\ jar' = [jar EXCEPT !.access = NoToken] /\ jar.access # NoToken
           /\ lapsed' = lapsed \union {<<"access", jar.access.n>>}
        \/ /\ jar' = [jar EXCEPT !.refresh = NoToken] /\ jar.refresh # NoToken
           /\ lapsed' = lapsed \union {<<"refresh", jar.refresh.n>>}
    BY Zenon DEF AccessExpires, RefreshExpires
  <1>4. lapsed' \in SUBSET ({"access", "refresh"} \X Nat)  BY <1>0, <1>2, <1>3
  <1>5. NoToken \in CookieTokens  BY Zenon DEF CookieTokens
  <1>6. jar' \in Jars /\ (jar'.access = NoToken \/ jar'.refresh = NoToken)
    BY <1>0, <1>3, <1>5, Zenon DEF Jars
  <1>7. OtherTypesOK'  BY <1>0, <1>4, <1>6, MishapCounted, TypesSplit, Zenon DEF OtherTypesOK
  <1>8. CookiesBelongTogether'  BY <1>6, Zenon DEF CookiesBelongTogether
  <1> QED  BY <1>0, <1>7, <1>8, WorldStep, Zenon

\* The user loses the role.
LEMMA DemoteStep ==
  ASSUME SessionInv, Demote
  PROVE  SessionInv'
  <1>1. /\ UNCHANGED <<settings, jar, req, pairs, lapsed, consumed, revoked, accessOut, spent,
                       ended,
                        grants, holds, csrfs>>
        /\ admin' = FALSE /\ Mishap
    BY Zenon DEF Demote, store
  <1>2. admin' \in BOOLEAN  BY <1>1, Zenon
  <1>3. OtherTypesOK'  BY <1>1, <1>2, MishapCounted, TypesSplit, Zenon DEF OtherTypesOK
  <1>4. CookiesBelongTogether'  BY <1>1, Zenon DEF SessionInv, CookiesBelongTogether, Development
  <1> QED  BY <1>1, <1>3, <1>4, WorldStep, Zenon

-----------------------------------------------------------------------------
\* The invariant holds at the start, by what is assumed of the cookies held.
LEMMA SessionStarts == SessionInit => SessionInv
  <1> SUFFICES ASSUME SessionInit  PROVE SessionInv  OBVIOUS
  <1>1. PICK s \in SessionCases :
          /\ settings = s.settings /\ jar = s.jar /\ pairs = s.pairs
          /\ req = [r \in Tabs |->
               [pc |-> IF s.ops[r].op = "none" THEN "done" ELSE "idle",
                op |-> s.ops[r].op, pat |-> s.ops[r].pat, step |-> s.ops[r].step,
                cookies |-> EmptyJar, header |-> Nobody, sid |-> Nobody, late |-> {},
                proofs |-> [access |-> NoToken, refresh |-> NoToken], out |-> "none",
                set |-> Keep, gone |-> FALSE]]
    BY Zenon DEF SessionInit
  <1>2. /\ lapsed = {} /\ consumed = {} /\ revoked = {} /\ accessOut = {} /\ spent = {}
        /\ ended = {} /\ grants = <<>> /\ holds = FALSE /\ admin = TRUE /\ csrfs = 1 /\ mishaps = 0
    BY Zenon DEF SessionInit
  <1>3. /\ s.settings \in Configurations /\ s.jar \in Jars /\ s.ops \in [Tabs -> TabOps]
        /\ s.pairs \in Seq(PairRows) /\ \A i \in 1..Len(s.pairs) : s.pairs[i].from = Nobody
        /\ s.jar.access # NoToken /\ s.jar.refresh # NoToken => s.jar.access.sid = s.jar.refresh.sid
    BY SessionAssumption, Zenon
  <1>4. \A i \in 1..Len(pairs) : pairs[i].from = Nobody
    BY <1>1, <1>3, Zenon
  <1>5. pairs \in Seq(PairRows)  BY <1>1, <1>3, Zenon
  <1>6. /\ EmptyJar \in Jars /\ Nobody \in Nat /\ {} \in SUBSET Nat /\ "none" \in Outcomes
        /\ [access |-> NoToken, refresh |-> NoToken] \in ProofPairs /\ Keep \in CookieHeaders
        /\ Keep.kind = "keep" /\ FALSE \in BOOLEAN /\ "done" \in Steps /\ "idle" \in Steps
    BY PlainCookies, Zenon DEF EmptyJar, Jars, CookieTokens, Nobody, Outcomes, ProofPairs, Steps
  <1>7. ASSUME NEW r \in Tabs
        PROVE  /\ req[r] \in TabStates /\ TabOK(req[r]) /\ TabIsClean(req[r])
               /\ req[r].late = {} /\ req[r].pc \in {"done", "idle"}
    <2>1. s.ops[r] \in TabOps  BY <1>3, Zenon
    <2>2. /\ s.ops[r].op \in Ops /\ s.ops[r].pat \in BOOLEAN
          /\ s.ops[r].step \in StepUpTokens \union {NoToken}
      BY <2>1 DEF TabOps
    <2>3. req[r] = [pc |-> IF s.ops[r].op = "none" THEN "done" ELSE "idle",
                op |-> s.ops[r].op, pat |-> s.ops[r].pat, step |-> s.ops[r].step,
                cookies |-> EmptyJar, header |-> Nobody, sid |-> Nobody, late |-> {},
                proofs |-> [access |-> NoToken, refresh |-> NoToken], out |-> "none",
                set |-> Keep, gone |-> FALSE]
      BY <1>1, Zenon
    <2>4. req[r] \in TabStates  BY <1>6, <2>2, <2>3 DEF TabStates
    <2>5. /\ req[r].pc = IF s.ops[r].op = "none" THEN "done" ELSE "idle"
          /\ req[r].op = s.ops[r].op /\ req[r].out = "none" /\ req[r].set = Keep /\ req[r].late = {}
      BY <2>3
    <2>6. TabOK(req[r])  BY <2>5, Zenon DEF TabOK, RefreshSteps, PassedSteps
    <2>7. TabIsClean(req[r])  BY <1>6, <2>5, Zenon DEF TabIsClean, PassedSteps
    <2> QED  BY <2>4, <2>5, <2>6, <2>7, Zenon
  <1>8. req \in [Tabs -> TabStates]  BY <1>1, <1>7, Zenon
  <1>9. SessionTypeOK
    <2>1. /\ lapsed \in SUBSET ({"access", "refresh"} \X Nat) /\ consumed \in SUBSET Nat
          /\ revoked \in SUBSET Nat /\ accessOut \in SUBSET Nat /\ spent \in SUBSET Nat
          /\ ended \in SUBSET Nat /\ csrfs \in Nat /\ mishaps \in Nat
      BY <1>2, Zenon
    <2>2. grants \in Seq(GrantRows)  BY <1>2
    <2>3. holds \in BOOLEAN /\ admin \in BOOLEAN  BY <1>2, Zenon
    <2>4. settings \in Configurations /\ jar \in Jars  BY <1>1, <1>3, Zenon
    <2> QED  BY <1>5, <1>8, <2>1, <2>2, <2>3, <2>4, Zenon DEF SessionTypeOK
  <1>10. EndsAreMarked  BY <1>2, <1>7, Zenon DEF EndsAreMarked
  <1>11. ChangesArePaid  BY <1>2, <1>7 DEF ChangesArePaid
  <1>12. SuccessorsAreOnRecord  BY <1>4, Zenon DEF SuccessorsAreOnRecord
  <1>13. ProofsAreUsedOnce  BY <1>2, <1>4 DEF ProofsAreUsedOnce
  <1>14. CookiesBelongTogether  BY <1>1, <1>3, Zenon DEF CookiesBelongTogether
  <1> QED  BY <1>7, <1>9, <1>10, <1>11, <1>12, <1>13, <1>14 DEF SessionInv

\* Stuttering keeps the invariant.
LEMMA SessionStutters == SessionInv /\ UNCHANGED sessionVars => SessionInv'
  <1> SUFFICES ASSUME SessionInv, UNCHANGED sessionVars  PROVE SessionInv'  OBVIOUS
  <1>1. /\ UNCHANGED <<settings, jar, req, pairs, lapsed, ended, grants, holds, admin, csrfs,
                       mishaps>>
        /\ UNCHANGED <<consumed, revoked, accessOut, spent>>
    BY Zenon DEF sessionVars, store
  <1>2. OtherTypesOK'  BY <1>1, TypesSplit, Zenon DEF OtherTypesOK
  <1>3. CookiesBelongTogether'  BY <1>1, Zenon DEF SessionInv, CookiesBelongTogether, Development
  <1> QED  BY <1>1, <1>2, <1>3, WorldStep, Zenon

\* Outside development, for any number of tabs, cases and faults, a session whose end was
\* reported admits nothing sent later, refresh and step-up proofs are used once, and the
\* cookies of a browser belong to one session (session.py, jwt.go, step_up.py).
THEOREM SessionsTheorem == SessionSpec => []SessionsEndAndProofsAreSpent
  <1>1. SessionInv /\ [SessionNext]_sessionVars => SessionInv'
    <2> SUFFICES ASSUME SessionInv, SessionNext  PROVE SessionInv'  BY SessionStutters, Zenon
    <2>1. CASE AccessExpires \/ RefreshExpires \/ Demote  BY <2>1, ExpiryStep, DemoteStep, Zenon
    <2>2. ASSUME NEW r \in Tabs,
                 \/ Begin(r) \/ Send(r) \/ Deliver(r)
                 \/ ValidatePat(r) \/ IssueFromCaller(r)
                 \/ RefreshViaHmac(r) \/ RefreshSessionLookup(r) \/ RefreshFamilyLookup(r)
                 \/ ConsumeRefresh(r) \/ RevokeRefreshReplay(r)
                 \/ RevokeSession(r) \/ RevokeAccess(r)
                 \/ ValidateSessionLookup(r) \/ ValidateFamilyLookup(r) \/ ValidateAccessLookup(r)
                 \/ MeBearer(r) \/ Admitted(r) \/ RequireLegalHoldManage(r)
                 \/ StepUpSessionLookup(r) \/ ConsumeStepUp(r) \/ ChangeHold(r)
                 \/ AuthFails(r) \/ GiveUp(r)
          PROVE  SessionInv'
      BY <2>2, BeginStep, SendStep, DeliverStep, ValidatePatStep, IssueStep, RefreshViaHmacStep,
         RefreshSessionStep, RefreshFamilyStep, ConsumeRefreshStep, ReplayStep, RevokeSessionStep,
         RevokeAccessStep, ValidateSessionStep, ValidateFamilyStep, ValidateAccessStep,
         MeBearerStep, AdmittedStep, RoleStep, StepUpSessionStep, ConsumeStepUpStep,
         ChangeHoldStep, AuthFailsStep, GiveUpStep
    <2> QED  BY <2>1, <2>2, Zenon DEF SessionNext
  <1>2. SessionInv => SessionsEndAndProofsAreSpent
    <2> SUFFICES ASSUME SessionInv  PROVE SessionsEndAndProofsAreSpent  OBVIOUS
    <2>1. EndedSessionIsOut
      BY Zenon DEF SessionInv, EndedSessionIsOut, TabIsClean, ChangesArePaid, Cookie
    <2> QED  BY <2>1, Zenon DEF SessionInv, SessionsEndAndProofsAreSpent
  <1> QED  BY <1>1, <1>2, SessionStarts, PTL DEF SessionSpec
=============================================================================
