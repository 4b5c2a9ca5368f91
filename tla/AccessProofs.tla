---------------------------- MODULE AccessProofs ----------------------------
(* Theorems about Access, for any profiles, tokens, requests and changes. *)
EXTENDS Access, TLAPS

\* What the gates a request has passed say of its history, and where a
\* request of either kind can be
GatesPassed(r) ==
    LET q == req[r] e == ever[r]
    IN  /\ q.at = "idle" => q.token = NoToken
        /\ q.at \in {"lookup", "session", "bound"} => IsMcp(r)
        /\ q.at \in {"issue", "issued"} => ~IsMcp(r)
        /\ q.at \in {"mfa", "profile", "session", "bound"} /\ IsMcp(r) =>
              {"token", "application", "scope", "staff"} \subseteq e.gates
        /\ q.at \in {"mfa", "profile", "issue", "issued"} /\ ~IsMcp(r) =>
              {"session", "staff"} \subseteq e.gates
        /\ q.at \in {"profile", "session", "issue", "bound", "issued"} => "mfa" \in e.gates
        /\ q.at \in {"session", "issue", "bound", "issued"} => q.profile \in e.profiles
        /\ q.at = "issued" => "application" \in e.gates
        /\ q.at = "bound" /\ SESSION_GATE => "session" \in e.gates

\* Once a rejection is past its audit its row is settled, if it was not part
\* of a transaction.
RowSettled(r) ==
    ~ATOMIC_REQUESTS /\ IsMcp(r) /\ req[r].at \in {"warn", "respond", "refused"} =>
        req[r].row \in {"committed", "failed"}

RequestInv == \A r \in Requests : GatesPassed(r) /\ RowSettled(r)

\* A token that survived a logout it should not have survived is one whose
\* revocation is still to come, or was lost.
RevocationInv ==
    \A k \in TokenIds :
        /\ tokens[k].state = "live"
        /\ tokens[k].stale
        /\ RevokedOnLogout(tokens[k].app)
        /\ ~tokens[k].late
        => pending > 0 \/ lost

IInv == TypeOK /\ RequestInv /\ RevocationInv

-----------------------------------------------------------------------------
(* The history *)

\* A history is one of facts, and grows: by what is true now, for a request
\* under way.
LEMMA RememberTyped == ASSUME TypeOK, Remember PROVE ever' \in [Requests -> Facts]
<1>1. ASSUME NEW r \in Requests PROVE ever'[r] \in Facts
  <2>1. ever[r] \in Facts
    BY DEF TypeOK
  <2>2. OpenGates(req'[r], user', tokens', cloudDeclared') \subseteq Gates
    BY DEF OpenGates
  <2>3. OnlyProfile(user') \subseteq Profiles
    BY DEF OnlyProfile
  <2> QED
    BY <2>1, <2>2, <2>3 DEF Remember, Facts
<1> QED
  BY <1>1 DEF Remember

LEMMA BeginTyped ==
    ASSUME TypeOK, NEW r \in Requests, Begin(r)
    PROVE  /\ ever' \in [Requests -> Facts]
           /\ ever'[r].gates = OpenGates(req'[r], user, tokens, cloudDeclared)
           /\ \A q \in Requests \ {r} : ever'[q] = ever[q]
<1>1. OpenGates(req'[r], user, tokens, cloudDeclared) \subseteq Gates
  BY DEF OpenGates
<1>2. OnlyProfile(user) \subseteq Profiles
  BY DEF OnlyProfile
<1> QED
  BY <1>1, <1>2 DEF Begin, TypeOK, Facts

LEMMA RememberGrows ==
    ASSUME TypeOK, Remember, NEW r \in Requests
    PROVE  /\ ever[r].gates \subseteq ever'[r].gates
           /\ ever[r].profiles \subseteq ever'[r].profiles
           /\ InFlight(r) =>
                 /\ OpenGates(req'[r], user', tokens', cloudDeclared') \subseteq ever'[r].gates
                 /\ OnlyProfile(user') \subseteq ever'[r].profiles
BY DEF Remember, TypeOK, Facts

\* The gates that are open, one by one
LEMMA OpenGate ==
    ASSUME NEW q, NEW u, NEW toks, NEW declared
    PROVE  /\ "staff" \in OpenGates(q, u, toks, declared) <=> u.staff
           /\ "mfa" \in OpenGates(q, u, toks, declared) <=> u.mfa
           /\ "session" \in OpenGates(q, u, toks, declared) <=> u.sessions > 0
           /\ q.token # NoToken =>
                 /\ "token" \in OpenGates(q, u, toks, declared)
                       <=> toks[q.token].state = "live"
                 /\ "scope" \in OpenGates(q, u, toks, declared) <=> toks[q.token].scope
                 /\ "application" \in OpenGates(q, u, toks, declared)
                       <=> \/ toks[q.token].app \in {"canonical", "dcr"}
                           \/ toks[q.token].app = "cloud" /\ declared
           /\ q.token = NoToken =>
                 ("application" \in OpenGates(q, u, toks, declared)
                       <=> \/ q.app \in {"canonical", "dcr"}
                           \/ q.app = "cloud" /\ declared)
BY DEF OpenGates, Gates

-----------------------------------------------------------------------------
(* What a step does to the requests *)

\* A request that is where it was keeps what is known of it.
LEMMA StillKnown ==
    ASSUME NEW r \in Requests, GatesPassed(r) /\ RowSettled(r),
           req'[r].at = req[r].at, req'[r].token = req[r].token,
           req'[r].profile = req[r].profile, req'[r].row = req[r].row,
           ever[r].gates \subseteq ever'[r].gates,
           ever[r].profiles \subseteq ever'[r].profiles
    PROVE  GatesPassed(r)' /\ RowSettled(r)'
BY DEF GatesPassed, RowSettled, IsMcp

\* A step of everybody but the requests
LEMMA OthersKeepRequests ==
    ASSUME IInv, UNCHANGED req, Remember
    PROVE  RequestInv'
<1> SUFFICES ASSUME NEW r \in Requests PROVE GatesPassed(r)' /\ RowSettled(r)'
  BY DEF RequestInv
<1> QED
  BY StillKnown, RememberGrows DEF IInv, RequestInv

\* A step of the request r alone
LEMMA OneRequestMoves ==
    ASSUME IInv, NEW r \in Requests, \A s \in Requests \ {r} : req'[s] = req[s], Remember,
           GatesPassed(r)' /\ RowSettled(r)'
    PROVE  RequestInv'
<1> SUFFICES ASSUME NEW s \in Requests, s # r PROVE GatesPassed(s)' /\ RowSettled(s)'
  BY DEF RequestInv
<1>1. req'[s] = req[s]
  OBVIOUS
<1> QED
  BY <1>1, StillKnown, RememberGrows DEF IInv, RequestInv

\* Records that stay keep their types and the revocation's promise.
LEMMA RecordsStay ==
    ASSUME IInv, UNCHANGED records, Remember \/ ever' \in [Requests -> Facts],
           req' \in [Requests -> Request]
    PROVE  TypeOK' /\ RevocationInv'
<1>1. ever' \in [Requests -> Facts]
  BY RememberTyped DEF IInv
<1> QED
  BY <1>1 DEF IInv, TypeOK, RevocationInv, records

LEMMA GateStep ==
    ASSUME IInv, NEW r \in Requests, UNCHANGED records, Remember,
           req' \in [Requests -> Request], \A s \in Requests \ {r} : req'[s] = req[s],
           GatesPassed(r)' /\ RowSettled(r)'
    PROVE  IInv'
BY OneRequestMoves, RecordsStay DEF IInv

\* The request r is at `at` next, with the token and the row it has.
Moved(r, at) ==
    /\ req' \in [Requests -> Request]
    /\ \A s \in Requests \ {r} : req'[s] = req[s]
    /\ req'[r].at = at
    /\ req'[r].token = req[r].token
    /\ req'[r].app = req[r].app
    /\ req'[r].row = req[r].row

LEMMA GotoMoves ==
    ASSUME TypeOK, NEW r \in Requests, NEW place \in Places, Goto(r, place)
    PROVE  Moved(r, place) /\ req'[r].profile = req[r].profile
<1> DEFINE q == [req[r] EXCEPT !.at = place]
<1>1. q \in Request /\ req[r] \in Request
  BY DEF TypeOK, Request
<1>2. req' = [req EXCEPT ![r] = q]
  BY DEF Goto
<1>3. /\ q.at = place /\ q.token = req[r].token /\ q.app = req[r].app
      /\ q.row = req[r].row /\ q.profile = req[r].profile
  BY <1>1 DEF Request
<1> HIDE DEF q
<1> QED
  BY <1>1, <1>2, <1>3 DEF TypeOK, Moved

LEMMA RefuseMoves ==
    ASSUME TypeOK, NEW r \in Requests, NEW reason \in Reasons, Refuse(r, reason)
    PROVE  Moved(r, IF IsMcp(r) THEN "audit" ELSE "refused")
<1> DEFINE at == IF IsMcp(r) THEN "audit" ELSE "refused"
           q  == [req[r] EXCEPT !.at = at, !.reason = reason]
<1>1. q \in Request /\ req[r] \in Request
  <2>1. req[r] \in Request
    BY DEF TypeOK
  <2>2. at \in Places
    BY DEF Places
  <2> HIDE DEF at
  <2> QED
    BY <2>1, <2>2 DEF Request
<1>2. req' = [req EXCEPT ![r] = q]
  BY DEF Refuse
<1>3. q.at = at /\ q.token = req[r].token /\ q.app = req[r].app /\ q.row = req[r].row
  BY <1>1 DEF Request
<1> HIDE DEF q, at
<1>4. Moved(r, at)
  BY <1>1, <1>2, <1>3 DEF TypeOK, Moved
<1> QED
  BY <1>4 DEF at

\* A refused request has nothing left to show but its row.
LEMMA RefusedStep ==
    ASSUME IInv, NEW r \in Requests, NEW reason \in Reasons, Refuse(r, reason),
           UNCHANGED records, Remember
    PROVE  IInv'
<1>1. Moved(r, IF IsMcp(r) THEN "audit" ELSE "refused")
  BY RefuseMoves DEF IInv
<1>2. GatesPassed(r)' /\ RowSettled(r)'
  BY <1>1 DEF Moved, GatesPassed, RowSettled, IsMcp
<1> QED
  BY <1>1, <1>2, GateStep DEF Moved

-----------------------------------------------------------------------------
(* The steps of a request *)

LEMMA ArriveMcpKeeps ==
    ASSUME IInv, NEW r \in Requests, NEW k \in TokenIds, ArriveMcp(r, k)
    PROVE  IInv'
<1>1. /\ req' \in [Requests -> Request]
      /\ \A s \in Requests \ {r} : req'[s] = req[s]
      /\ req'[r].at = "lookup" /\ req'[r].token = k
  <2> DEFINE q == [req[r] EXCEPT !.at = "lookup", !.token = k]
  <2>1. q \in Request /\ q.at = "lookup" /\ q.token = k
    BY DEF IInv, TypeOK, Request, Places
  <2>2. req' = [req EXCEPT ![r] = q]
    BY DEF ArriveMcp
  <2> HIDE DEF q
  <2> QED
    BY <2>1, <2>2 DEF IInv, TypeOK
<1>2. /\ ever' \in [Requests -> Facts]
      /\ \A s \in Requests \ {r} : ever'[s] = ever[s]
  BY BeginTyped DEF ArriveMcp, IInv
<1>3. GatesPassed(r)' /\ RowSettled(r)'
  BY <1>1, AccessAssumption DEF GatesPassed, RowSettled, IsMcp
<1>4. ASSUME NEW s \in Requests \ {r} PROVE GatesPassed(s)' /\ RowSettled(s)'
  BY <1>1, <1>2, StillKnown DEF IInv, RequestInv
<1> QED
  BY <1>1, <1>2, <1>3, <1>4, RecordsStay DEF IInv, RequestInv, ArriveMcp

LEMMA AuthorizeKeeps ==
    ASSUME IInv, NEW r \in Requests, NEW app \in Apps, Authorize(r, app)
    PROVE  IInv'
<1>1. /\ req' \in [Requests -> Request]
      /\ \A s \in Requests \ {r} : req'[s] = req[s]
      /\ req'[r].at = IF user.staff THEN "mfa" ELSE "refused"
      /\ req'[r].token = NoToken
  BY DEF Authorize, IInv, TypeOK, Request, Places, Reasons, RequestInv, GatesPassed
<1>2. /\ ever' \in [Requests -> Facts]
      /\ \A s \in Requests \ {r} : ever'[s] = ever[s]
      /\ user.staff => {"session", "staff"} \subseteq ever'[r].gates
  BY BeginTyped, OpenGate DEF Authorize, IInv
<1>3. GatesPassed(r)' /\ RowSettled(r)'
  BY <1>1, <1>2 DEF GatesPassed, RowSettled, IsMcp
<1>4. ASSUME NEW s \in Requests \ {r} PROVE GatesPassed(s)' /\ RowSettled(s)'
  BY <1>1, <1>2, StillKnown DEF IInv, RequestInv
<1> QED
  BY <1>1, <1>2, <1>3, <1>4, RecordsStay DEF IInv, RequestInv, Authorize

LEMMA LookUpKeeps == ASSUME IInv, NEW r \in Requests, LookUp(r) PROVE IInv'
<1> DEFINE t == tokens[req[r].token]
<1>0. UNCHANGED records /\ Remember /\ req[r].at = "lookup"
  BY DEF LookUp
<1>1. CASE Goto(r, "anonymous")
  <2>1. Moved(r, "anonymous")
    BY <1>1, GotoMoves DEF IInv, Places
  <2>2. GatesPassed(r)' /\ RowSettled(r)'
    BY <2>1 DEF Moved, GatesPassed, RowSettled, IsMcp
  <2> QED
    BY <1>0, <2>1, <2>2, GateStep DEF Moved
<1>2. CASE \E reason \in Reasons : Refuse(r, reason)
  BY <1>0, <1>2, RefusedStep
<1>3. CASE /\ t.state = "live" /\ IsMcpApplicationName(t.app) /\ t.scope /\ user.staff
           /\ Goto(r, "mfa")
  <2>1. Moved(r, "mfa")
    BY <1>3, GotoMoves DEF IInv, Places
  <2>2. IsMcp(r) /\ req'[r].token = req[r].token
    BY <1>0, <2>1 DEF IInv, RequestInv, GatesPassed, Moved
  <2>3. UNCHANGED <<user, tokens, cloudDeclared>>
    BY <1>0 DEF records
  <2>4. {"token", "application", "scope", "staff"}
           \subseteq OpenGates(req'[r], user', tokens', cloudDeclared')
    BY <1>3, <2>2, <2>3, OpenGate DEF IsMcp, IsMcpApplicationName
  <2>5. {"token", "application", "scope", "staff"} \subseteq ever'[r].gates
    BY <1>0, <2>4, RememberGrows DEF IInv, InFlight
  <2>6. GatesPassed(r)' /\ RowSettled(r)'
    BY <2>1, <2>2, <2>5 DEF Moved, GatesPassed, RowSettled, IsMcp
  <2> QED
    BY <1>0, <2>1, <2>6, GateStep DEF Moved
<1> QED
  BY <1>1, <1>2, <1>3 DEF LookUp, Reasons

LEMMA CheckMfaKeeps == ASSUME IInv, NEW r \in Requests, CheckMfa(r) PROVE IInv'
<1>0. UNCHANGED records /\ Remember /\ req[r].at = "mfa"
  BY DEF CheckMfa
<1>1. CASE user.mfa /\ Goto(r, "profile")
  <2>1. Moved(r, "profile")
    BY <1>1, GotoMoves DEF IInv, Places
  <2>2. "mfa" \in ever'[r].gates /\ ever[r].gates \subseteq ever'[r].gates
    BY <1>0, <1>1, OpenGate, RememberGrows DEF IInv, InFlight, records
  <2>3. GatesPassed(r)' /\ RowSettled(r)'
    BY <1>0, <2>1, <2>2 DEF Moved, IInv, RequestInv, GatesPassed, RowSettled, IsMcp
  <2> QED
    BY <1>0, <2>1, <2>3, GateStep DEF Moved
<1>2. CASE Refuse(r, "no_mfa")
  BY <1>0, <1>2, RefusedStep DEF Reasons
<1> QED
  BY <1>1, <1>2 DEF CheckMfa

LEMMA CheckProfileKeeps == ASSUME IInv, NEW r \in Requests, CheckProfile(r) PROVE IInv'
<1>0. UNCHANGED records /\ Remember /\ req[r].at = "profile"
  BY DEF CheckProfile
<1>1. ASSUME NEW p \in Profiles, ResolvesTo(p),
             req' = [req EXCEPT ![r].profile = p, ![r].at = NextPlace(r)]
      PROVE  IInv'
  <2>1. NextPlace(r) = IF ~IsMcp(r) THEN "issue"
                       ELSE IF SESSION_GATE THEN "session" ELSE "bound"
    BY AccessAssumption DEF NextPlace
  <2>2. Moved(r, NextPlace(r)) /\ req'[r].profile = p
    <3> DEFINE q == [req[r] EXCEPT !.profile = p, !.at = NextPlace(r)]
    <3>1. NextPlace(r) \in Places
      BY <2>1 DEF Places
    <3>2. q \in Request /\ req[r] \in Request
      BY <3>1 DEF IInv, TypeOK, Request
    <3>3. /\ q.at = NextPlace(r) /\ q.token = req[r].token /\ q.app = req[r].app
          /\ q.row = req[r].row /\ q.profile = p
      BY <3>2 DEF Request
    <3>4. req' = [req EXCEPT ![r] = q]
      BY <1>1
    <3> HIDE DEF q
    <3> QED
      BY <3>2, <3>3, <3>4 DEF IInv, TypeOK, Moved
  <2>3. p \in ever'[r].profiles /\ ever[r].gates \subseteq ever'[r].gates
    <3>1. p \in OnlyProfile(user')
      BY <1>0, <1>1 DEF OnlyProfile, ResolvesTo, Held, records
    <3> QED
      BY <1>0, <3>1, RememberGrows DEF IInv, InFlight
  <2>4. GatesPassed(r)' /\ RowSettled(r)'
    BY <1>0, <2>1, <2>2, <2>3 DEF Moved, IInv, RequestInv, GatesPassed, RowSettled, IsMcp
  <2> QED
    BY <1>0, <2>2, <2>4, GateStep DEF Moved
<1>2. CASE \E reason \in Reasons : Refuse(r, reason)
  BY <1>0, <1>2, RefusedStep
<1> QED
  BY <1>1, <1>2 DEF CheckProfile, Reasons

LEMMA CheckSessionKeeps == ASSUME IInv, NEW r \in Requests, CheckSession(r) PROVE IInv'
<1>0. UNCHANGED records /\ Remember /\ req[r].at = "session"
  BY DEF CheckSession
<1>1. CASE user.sessions > 0 /\ Goto(r, "bound")
  <2>1. Moved(r, "bound") /\ req'[r].profile = req[r].profile
    BY <1>1, GotoMoves DEF IInv, Places
  <2>2. /\ "session" \in ever'[r].gates
        /\ ever[r].gates \subseteq ever'[r].gates
        /\ ever[r].profiles \subseteq ever'[r].profiles
    BY <1>0, <1>1, OpenGate, RememberGrows DEF IInv, InFlight, records
  <2>3. GatesPassed(r)' /\ RowSettled(r)'
    BY <1>0, <2>1, <2>2 DEF Moved, IInv, RequestInv, GatesPassed, RowSettled, IsMcp
  <2> QED
    BY <1>0, <2>1, <2>3, GateStep DEF Moved
<1>2. CASE Refuse(r, "no_session")
  BY <1>0, <1>2, RefusedStep DEF Reasons
<1> QED
  BY <1>1, <1>2 DEF CheckSession

LEMMA IssueCodeKeeps == ASSUME IInv, NEW r \in Requests, IssueCode(r) PROVE IInv'
<1>0. /\ UNCHANGED <<user, cloudDeclared, tokens, pending, lost, changes>>
      /\ Remember
      /\ req[r].at = "issue"
      /\ ~IsMcp(r)
  BY DEF IssueCode, IInv, RequestInv, GatesPassed
<1>1. CASE /\ IsMcpApplicationName(req[r].app)
           /\ codes' = codes \cup {[app |-> req[r].app, stale |-> req[r].stale]}
           /\ Goto(r, "issued")
  <2>1. Moved(r, "issued") /\ req'[r].profile = req[r].profile
    BY <1>1, GotoMoves DEF IInv, Places
  <2>2. /\ "application" \in ever'[r].gates
        /\ ever[r].gates \subseteq ever'[r].gates
        /\ ever[r].profiles \subseteq ever'[r].profiles
    <3>1. "application" \in OpenGates(req'[r], user', tokens', cloudDeclared')
      BY <1>0, <1>1, <2>1, OpenGate DEF IsMcp, IsMcpApplicationName, Moved
    <3> QED
      BY <1>0, <3>1, RememberGrows DEF IInv, InFlight
  <2>3. GatesPassed(r)' /\ RowSettled(r)'
    BY <1>0, <2>1, <2>2 DEF Moved, IInv, RequestInv, GatesPassed, RowSettled, IsMcp
  <2>4. RequestInv'
    BY <1>0, <2>1, <2>3, OneRequestMoves DEF Moved
  <2>5. [app |-> req[r].app, stale |-> req[r].stale] \in Code
    BY DEF IInv, TypeOK, Request, Code
  <2>6. ever' \in [Requests -> Facts]
    BY <1>0, RememberTyped DEF IInv
  <2> QED
    BY <1>0, <1>1, <2>1, <2>4, <2>5, <2>6 DEF IInv, TypeOK, Moved, RevocationInv
<1>2. CASE Refuse(r, "bad_application") /\ UNCHANGED codes
  BY <1>0, <1>2, RefusedStep DEF Reasons, records
<1> QED
  BY <1>1, <1>2 DEF IssueCode

\* A bearer request that ends, or waits for its answer, with the row `row`
LEMMA RowStep ==
    ASSUME IInv, NEW r \in Requests, NEW at \in {"warn", "respond", "refused", "error"},
           NEW row \in {"none", "uncommitted", "committed", "failed", "undone"},
           req' = [req EXCEPT ![r] = [req[r] EXCEPT !.at = at, !.row = row]],
           ~ATOMIC_REQUESTS /\ IsMcp(r) /\ at # "error" => row \in {"committed", "failed"},
           UNCHANGED records, Remember
    PROVE  IInv'
<1> DEFINE q == [req[r] EXCEPT !.at = at, !.row = row]
<1>1. q \in Request /\ req[r] \in Request
  <2>1. req[r] \in Request
    BY DEF IInv, TypeOK
  <2>2. at \in Places
    BY DEF Places
  <2> QED
    BY <2>1, <2>2 DEF Request
<1>2. q.at = at /\ q.token = req[r].token /\ q.row = row
  BY <1>1 DEF Request
<1> HIDE DEF q
<1>3. /\ req' \in [Requests -> Request]
      /\ \A s \in Requests \ {r} : req'[s] = req[s]
      /\ req'[r] = q
  BY <1>1 DEF IInv, TypeOK, q
<1>4. GatesPassed(r)' /\ RowSettled(r)'
  BY <1>2, <1>3 DEF GatesPassed, RowSettled, IsMcp
<1> QED
  BY <1>3, <1>4, GateStep

LEMMA AuditRejectionKeeps == ASSUME IInv, NEW r \in Requests, AuditRejection(r) PROVE IInv'
<1>1. PICK row \in {IF ATOMIC_REQUESTS THEN "uncommitted" ELSE "committed", "failed"} :
          req' = [req EXCEPT ![r].row = row,
                             ![r].at = IF req[r].reason = "ambiguous_profile"
                                       THEN "warn" ELSE "respond"]
  BY DEF AuditRejection
<1> DEFINE at == IF req[r].reason = "ambiguous_profile" THEN "warn" ELSE "respond"
<1>2. req' = [req EXCEPT ![r] = [req[r] EXCEPT !.at = at, !.row = row]]
  BY <1>1 DEF IInv, TypeOK, Request
<1>3. at \in {"warn", "respond", "refused", "error"}
  OBVIOUS
<1> HIDE DEF at
<1> QED
  BY <1>2, <1>3, RowStep DEF AuditRejection

LEMMA WarnAmbiguousKeeps == ASSUME IInv, NEW r \in Requests, WarnAmbiguous(r) PROVE IInv'
<1>0. UNCHANGED records /\ Remember /\ req[r].at = "warn" /\ req[r] \in Request
  BY DEF WarnAmbiguous, IInv, TypeOK
<1>1. CASE Goto(r, "respond")
  <2>1. Moved(r, "respond")
    BY <1>1, GotoMoves DEF IInv, Places
  <2>2. GatesPassed(r)' /\ RowSettled(r)'
    BY <1>0, <2>1 DEF Moved, IInv, RequestInv, GatesPassed, RowSettled, IsMcp
  <2> QED
    BY <1>0, <2>1, <2>2, GateStep DEF Moved
<1>2. CASE req' = [req EXCEPT ![r].at = "error", ![r].row = Undo(@)]
  <2>1. req' = [req EXCEPT ![r] = [req[r] EXCEPT !.at = "error", !.row = Undo(req[r].row)]]
    BY <1>0, <1>2 DEF IInv, TypeOK, Request
  <2>2. Undo(req[r].row) \in {"none", "uncommitted", "committed", "failed", "undone"}
    BY <1>0 DEF Undo, Request
  <2> QED
    BY <1>0, <2>1, <2>2, RowStep
<1> QED
  BY <1>1, <1>2 DEF WarnAmbiguous

LEMMA Respond401Keeps == ASSUME IInv, NEW r \in Requests, Respond401(r) PROVE IInv'
<1>0. UNCHANGED records /\ Remember /\ req[r].at = "respond" /\ req[r] \in Request
  BY DEF Respond401, IInv, TypeOK
<1>1. req' = [req EXCEPT ![r] = [req[r] EXCEPT !.at = "refused", !.row = Undo(req[r].row)]]
  BY <1>0 DEF Respond401, IInv, TypeOK, Request
<1>2. Undo(req[r].row) \in {"none", "uncommitted", "committed", "failed", "undone"}
  BY <1>0 DEF Undo, Request
<1>3. ~ATOMIC_REQUESTS /\ IsMcp(r) => Undo(req[r].row) \in {"committed", "failed"}
  BY <1>0 DEF Undo, IInv, RequestInv, RowSettled
<1> QED
  BY <1>0, <1>1, <1>2, <1>3, RowStep

-----------------------------------------------------------------------------
(* The steps of the others *)

LEMMA EditsKeep == ASSUME IInv, EditUser \/ EditSettings \/ Sessions PROVE IInv'
<1>1. UNCHANGED <<codes, tokens, pending, lost, req>> /\ Remember /\ changes' \in Nat
  BY DEF EditUser, EditSettings, Sessions, Change, IInv, TypeOK
<1>2. user' \in User
  <2>1. CASE EditUser
    BY <2>1 DEF EditUser, IInv, TypeOK, User
  <2>2. CASE EditSettings
    BY <2>2 DEF EditSettings, IInv, TypeOK
  <2>3. CASE Sessions
    BY <2>3, AccessAssumption DEF Sessions, IInv, TypeOK, User
  <2> QED
    BY <2>1, <2>2, <2>3
<1>3. cloudDeclared' \in BOOLEAN
  BY DEF EditUser, EditSettings, Sessions, IInv, TypeOK
<1>4. RequestInv' /\ ever' \in [Requests -> Facts]
  BY <1>1, OthersKeepRequests, RememberTyped DEF IInv
<1> QED
  BY <1>1, <1>2, <1>3, <1>4 DEF IInv, TypeOK, RevocationInv

LEMMA LogoutKeeps == ASSUME IInv, Logout PROVE IInv'
<1>1. user' \in User
  BY AccessAssumption DEF Logout, IInv, TypeOK, User
<1>2. codes' \subseteq Code
  BY DEF Logout, IInv, TypeOK, Code
<1>3. tokens' \in [TokenIds -> Token]
  BY DEF Logout, IInv, TypeOK, Token
<1>4. ASSUME NEW r \in Requests
      PROVE  /\ req'[r] \in Request
             /\ req'[r].at = req[r].at /\ req'[r].token = req[r].token
             /\ req'[r].profile = req[r].profile /\ req'[r].row = req[r].row
  <2>1. req[r] \in Request
    BY DEF IInv, TypeOK
  <2>2. req'[r] = req[r] \/ req'[r] = [req[r] EXCEPT !.stale = TRUE]
    BY DEF Logout
  <2> QED
    BY <2>1, <2>2 DEF Request
<1>5. req' \in [Requests -> Request]
  BY <1>4 DEF Logout
<1>6. Remember /\ pending' \in Nat /\ pending' > 0 /\ changes' \in Nat
      /\ UNCHANGED <<cloudDeclared, lost>>
  BY DEF Logout, Change, IInv, TypeOK
<1>7. RequestInv'
  BY <1>4, <1>6, StillKnown, RememberGrows DEF IInv, RequestInv
<1>8. ever' \in [Requests -> Facts]
  BY <1>6, RememberTyped DEF IInv
<1> QED
  BY <1>1, <1>2, <1>3, <1>5, <1>6, <1>7, <1>8 DEF IInv, TypeOK, RevocationInv

LEMMA RevokeKeeps == ASSUME IInv, Revoke \/ RevokeFails PROVE IInv'
<1>1. /\ UNCHANGED <<user, cloudDeclared, codes, req, changes>>
      /\ Remember
      /\ pending > 0 /\ pending' = pending - 1
      /\ lost' = lost \/ lost' = TRUE
  BY DEF Revoke, RevokeFails
<1>2. pending' \in Nat
  BY <1>1 DEF IInv, TypeOK
<1>3. lost' \in BOOLEAN
  BY <1>1 DEF IInv, TypeOK
<1>4. RequestInv' /\ ever' \in [Requests -> Facts]
  BY <1>1, OthersKeepRequests, RememberTyped DEF IInv
<1>5. CASE Revoke
  <2>1. tokens' \in [TokenIds -> Token]
    BY <1>5 DEF Revoke, IInv, TypeOK, Token
  <2>2. \A k \in TokenIds : tokens'[k].state = "live" => ~RevokedOnLogout(tokens'[k].app)
    BY <1>5 DEF Revoke, IInv, TypeOK, Token
  <2> QED
    BY <1>1, <1>2, <1>3, <1>4, <2>1, <2>2 DEF IInv, TypeOK, RevocationInv
<1>6. CASE RevokeFails
  BY <1>1, <1>2, <1>3, <1>4, <1>6 DEF RevokeFails, IInv, TypeOK, RevocationInv
<1> QED
  BY <1>5, <1>6

\* A token issued from a stale code is a late one.
LEMMA IssueKeeps ==
    ASSUME IInv, NEW app \in Apps, NEW scope \in BOOLEAN, NEW stale \in BOOLEAN,
           Issue(app, scope, stale), UNCHANGED <<pending, lost>>
    PROVE  tokens' \in [TokenIds -> Token] /\ RevocationInv'
<1> DEFINE new == [state |-> "live", app |-> app, scope |-> scope,
                   stale |-> stale, late |-> stale]
<1>1. PICK k \in TokenIds : tokens' = [tokens EXCEPT ![k] = new]
  BY DEF Issue
<1>2. new \in Token /\ (new.stale => new.late)
  BY DEF Token
<1> HIDE DEF new
<1>3. tokens' \in [TokenIds -> Token]
  BY <1>1, <1>2 DEF IInv, TypeOK
<1>4. ASSUME NEW j \in TokenIds, tokens'[j].stale, ~tokens'[j].late
      PROVE  tokens'[j] = tokens[j]
  BY <1>1, <1>2, <1>4 DEF IInv, TypeOK
<1> QED
  BY <1>3, <1>4 DEF IInv, RevocationInv, RevokedOnLogout

LEMMA TokensComeAndGo == ASSUME IInv, Exchange \/ MintByHand \/ Expire PROVE IInv'
<1>1. /\ UNCHANGED <<user, cloudDeclared, pending, lost, req>>
      /\ Remember
      /\ changes' = changes \/ changes' = changes + 1
  BY DEF Exchange, MintByHand, Expire, Change
<1>2. RequestInv' /\ ever' \in [Requests -> Facts]
  BY <1>1, OthersKeepRequests, RememberTyped DEF IInv
<1>3. codes' \subseteq Code
  BY DEF Exchange, MintByHand, Expire, IInv, TypeOK
<1>4. tokens' \in [TokenIds -> Token] /\ RevocationInv'
  <2>1. CASE Exchange
    <3>1. PICK c \in codes : Issue(c.app, TRUE, c.stale)
      BY <2>1 DEF Exchange
    <3>2. c.app \in Apps /\ c.stale \in BOOLEAN
      BY DEF IInv, TypeOK, Code
    <3> QED
      BY <1>1, <3>1, <3>2, IssueKeeps
  <2>2. CASE MintByHand
    BY <1>1, <2>2, IssueKeeps DEF MintByHand
  <2>3. CASE Expire
    <3>1. CASE UNCHANGED tokens
      BY <1>1, <3>1 DEF IInv, TypeOK, RevocationInv
    <3>2. ASSUME NEW k \in TokenIds, tokens' = [tokens EXCEPT ![k].state = "gone"]
          PROVE  tokens' \in [TokenIds -> Token] /\ RevocationInv'
      <4>1. /\ tokens[k] \in Token
            /\ [tokens[k] EXCEPT !.state = "gone"] \in Token
            /\ [tokens[k] EXCEPT !.state = "gone"].state # "live"
        BY DEF IInv, TypeOK, Token
      <4> QED
        BY <1>1, <3>2, <4>1 DEF IInv, TypeOK, RevocationInv
    <3> QED
      BY <2>3, <3>1, <3>2 DEF Expire
  <2> QED
    BY <2>1, <2>2, <2>3
<1>5. changes' \in Nat
  BY <1>1 DEF IInv, TypeOK
<1> QED
  BY <1>1, <1>2, <1>3, <1>4, <1>5 DEF IInv, TypeOK

-----------------------------------------------------------------------------

LEMMA InitIInv == Init => IInv
<1> SUFFICES ASSUME Init PROVE IInv
  OBVIOUS
<1>1. user \in User
  <2>1. user.sessions \in 0..MaxSessions
    BY AccessAssumption DEF Init
  <2> QED
    BY <2>1 DEF Init, User
<1>2. \A r \in Requests : req[r] \in Request
  BY DEF Init, Request, Places, Apps, Reasons
<1>3. TypeOK
  BY <1>1, <1>2 DEF Init, TypeOK, NewToken, Token, Apps, Facts
<1>4. RequestInv
  BY DEF Init, RequestInv, GatesPassed, RowSettled, IsMcp
<1>5. RevocationInv
  BY DEF Init, RevocationInv, NewToken
<1> QED
  BY <1>3, <1>4, <1>5 DEF IInv

LEMMA IInvHolds == Spec => []IInv
<1>1. IInv /\ [Next]_vars => IInv'
  <2> SUFFICES ASSUME IInv, [Next]_vars PROVE IInv'
    OBVIOUS
  <2>1. ASSUME NEW r \in Requests, Arrive(r) PROVE IInv'
    BY <2>1, ArriveMcpKeeps, AuthorizeKeeps DEF Arrive
  <2>2. ASSUME NEW r \in Requests, Gate(r) PROVE IInv'
    BY <2>2, LookUpKeeps, CheckMfaKeeps, CheckProfileKeeps, CheckSessionKeeps,
       IssueCodeKeeps, AuditRejectionKeeps, WarnAmbiguousKeeps, Respond401Keeps DEF Gate
  <2>3. CASE Environment
    BY <2>3, EditsKeep, LogoutKeeps, RevokeKeeps, TokensComeAndGo DEF Environment
  <2>4. CASE UNCHANGED vars
    BY <2>4 DEF vars, IInv, TypeOK, RequestInv, RevocationInv, GatesPassed, RowSettled, IsMcp
  <2> QED
    BY <2>1, <2>2, <2>3, <2>4 DEF Next, Quiet
<1> QED
  BY InitIInv, <1>1, PTL DEF Spec

\* Every variable keeps its type, whatever requests, changes and logouts do.
THEOREM TypeCorrect == Spec => []TypeOK
BY IInvHolds, PTL DEF IInv

\* However the records change between the reads of authenticate and of the
\* authorize view, a request that gets through met every gate open, and its
\* profile as the only one, at some time since it arrived.
THEOREM GatesHold == Spec => []GatesHeldSinceArrival
<1>1. IInv => GatesHeldSinceArrival
  BY DEF IInv, RequestInv, GatesPassed, GatesHeldSinceArrival
<1> QED
  BY IInvHolds, <1>1, PTL

\* With every revocation done and none lost, a token that is older than a
\* logout is gone, or came from a code that was exchanged after it.
THEOREM LogoutRevocation == Spec => []LogoutRevokes
<1>1. IInv => LogoutRevokes
  BY DEF IInv, TypeOK, RevocationInv, LogoutRevokes, RevokedOnLogout, Token
<1> QED
  BY IInvHolds, <1>1, PTL

\* Where requests do not run in one transaction, every rejected bearer request
\* left its row, or the failure to write it was logged (_audit_rejection).
THEOREM RejectionRows == ~ATOMIC_REQUESTS /\ Spec => []RejectionsLogged
<1> SUFFICES ASSUME ~ATOMIC_REQUESTS PROVE Spec => []RejectionsLogged
  OBVIOUS
<1>1. IInv => RejectionsLogged
  BY DEF IInv, RequestInv, RowSettled, RejectionsLogged
<1> QED
  BY IInvHolds, <1>1, PTL
=============================================================================
