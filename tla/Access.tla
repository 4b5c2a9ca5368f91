------------------------------- MODULE Access -------------------------------
(***************************************************************************)
(* Who may use the MCP surface.  Two kinds of request ask the same         *)
(* questions of one user's records, each in database reads of its own:     *)
(*   mcp        MCPOAuth2Authentication.authenticate, which binds a        *)
(*              profile to a bearer request or refuses it;                 *)
(*   authorize  MCPAuthorizationView, which issues an authorization code.  *)
(* Meanwhile admins change the records, web sessions come and go, codes    *)
(* become tokens, and a logout revokes tokens once it has committed.       *)
(*                                                                         *)
(* An application is one of five shapes of name: the canonical `mcp-sql`,  *)
(* a `dcr` one from /o/register, a `cloud` one from the settings, a        *)
(* `crafted` one that only shares the prefix, and any `other`.             *)
(***************************************************************************)
EXTENDS Naturals, FiniteSets

CONSTANTS
    Profiles,
    NoProfile,
    TokenIds,          \* bearer tokens that can be issued
    NoToken,
    Requests,          \* requests, each made once
    SESSION_GATE,      \* SESSION_MODEL is set
    ATOMIC_REQUESTS,   \* of the default database
    MaxSessions,       \* bound: live web sessions of the user
    MaxChanges         \* bound: steps of admins, logins, logouts and time

ASSUME AccessAssumption ==
    /\ NoProfile \notin Profiles
    /\ NoToken \notin TokenIds
    /\ SESSION_GATE \in BOOLEAN
    /\ ATOMIC_REQUESTS \in BOOLEAN
    /\ MaxSessions \in Nat \ {0}
    /\ MaxChanges \in Nat

Apps == {"canonical", "dcr", "cloud", "crafted", "other"}

VARIABLES
    user,           \* the user's records
    cloudDeclared,  \* the cloud client is in MCP_SQL["CLOUD_CLIENTS"]
    codes,          \* authorization codes not yet exchanged
    tokens,         \* the AccessToken rows
    pending,        \* logouts that committed and have not revoked yet
    lost,           \* a revocation failed, or its process died before it
    req,            \* the requests
    ever,           \* history: what was true at some time since each arrived
    changes         \* changes made

vars == <<user, cloudDeclared, codes, tokens, pending, lost, req, ever, changes>>

-----------------------------------------------------------------------------
(* Types *)

User == [staff    : BOOLEAN,           \* is_active and is_staff
         mfa      : BOOLEAN,           \* what MFA_CHECKER says
         groups   : SUBSET Profiles,   \* held through profile groups
         direct   : SUBSET Profiles,   \* held through user_permissions
         sessions : 0..MaxSessions]    \* live web sessions

\* stale: granted before the user's last logout
Code == [app : Apps, stale : BOOLEAN]

\* late: exchanged when its code was stale already
Token == [state : {"unused", "live", "gone"}, app : Apps, scope : BOOLEAN,
          stale : BOOLEAN, late : BOOLEAN]

Places == {"idle", "lookup", "mfa", "profile", "session", "issue", "audit", "warn",
           "respond", "bound", "issued", "refused", "anonymous", "error"}

Reasons == {"none", "bad_application", "bad_scope", "inactive_or_non_staff", "no_mfa",
            "no_perm", "ambiguous_profile", "no_session"}

\* A bearer request has a token, an authorize request an application.
Request == [at : Places, token : TokenIds \cup {NoToken}, app : Apps, stale : BOOLEAN,
            profile : Profiles \cup {NoProfile}, reason : Reasons,
            row : {"none", "uncommitted", "committed", "failed", "undone"}]

Gates == {"token", "application", "scope", "staff", "mfa", "session"}

\* Gates that were open, and profiles that were the user's only one
Facts == [gates : SUBSET Gates, profiles : SUBSET Profiles]

-----------------------------------------------------------------------------
(* The questions *)

\* is_mcp_application_name
IsMcpApplicationName(app) ==
    app \in {"canonical", "dcr"} \/ (app = "cloud" /\ cloudDeclared)

\* Mutant: the revocation uses the strict predicate.
RevokesStrictly(app) == IsMcpApplicationName(app)

\* The looser match of the revocation: the name, or the prefix
RevokedOnLogout(app) == app \in {"canonical", "dcr", "cloud", "crafted"}

Held == user.groups \cup user.direct

\* Mutant: of several profiles one is taken.
ResolvesAny(p) == p \in Held

\* resolve_profile binds p.
ResolvesTo(p) == Held = {p}

IsMcp(r) == req[r].token # NoToken
InFlight(r) == req[r].at \notin {"idle", "bound", "issued", "refused", "anonymous", "error"}

\* The gates open now to the request q of the user u, with the rows toks
OpenGates(q, u, toks, declared) ==
    LET mcp == q.token # NoToken
        app == IF mcp THEN toks[q.token].app ELSE q.app
    IN  {g \in Gates :
          \/ g = "token"       /\ mcp /\ toks[q.token].state = "live"
          \/ g = "scope"       /\ mcp /\ toks[q.token].scope
          \/ g = "application" /\ \/ app \in {"canonical", "dcr"}
                                  \/ app = "cloud" /\ declared
          \/ g = "staff"       /\ u.staff
          \/ g = "mfa"         /\ u.mfa
          \/ g = "session"     /\ u.sessions > 0}

\* ... and the profile that is the user's only one now, if there is one
OnlyProfile(u) == {p \in Profiles : u.groups \cup u.direct = {p}}

\* The history of the request r that arrives: what is true at this moment
Begin(r) ==
    ever' = [ever EXCEPT ![r] =
               [gates    |-> OpenGates(req'[r], user, tokens, cloudDeclared),
                profiles |-> OnlyProfile(user)]]

\* ... and at every later one until it ends
Remember ==
    ever' = [r \in Requests |->
               IF InFlight(r)
               THEN [gates    |-> ever[r].gates
                                    \cup OpenGates(req'[r], user', tokens', cloudDeclared'),
                     profiles |-> ever[r].profiles \cup OnlyProfile(user')]
               ELSE ever[r]]

NewToken == [state |-> "unused", app |-> "other", scope |-> FALSE,
             stale |-> FALSE, late |-> FALSE]

Init ==
    /\ user \in [staff : {TRUE}, mfa : {TRUE}, groups : {{}} \cup {{p} : p \in Profiles},
                 direct : {{}}, sessions : {1}]
    /\ cloudDeclared = TRUE
    /\ codes = {}
    /\ tokens = [k \in TokenIds |-> NewToken]
    /\ pending = 0
    /\ lost = FALSE
    /\ req = [r \in Requests |->
                [at |-> "idle", token |-> NoToken, app |-> "other", stale |-> FALSE,
                 profile |-> NoProfile, reason |-> "none", row |-> "none"]]
    /\ ever = [r \in Requests |-> [gates |-> {}, profiles |-> {}]]
    /\ changes = 0

records == <<user, cloudDeclared, codes, tokens, pending, lost, changes>>

-----------------------------------------------------------------------------
(* The requests *)

Goto(r, place) == req' = [req EXCEPT ![r].at = place]

\* Mutant: a reason that is not among AuthRejectionReason's.
RefuseUnlisted(r, reason) ==
    req' = [req EXCEPT ![r].at = IF IsMcp(r) THEN "audit" ELSE "refused",
                       ![r].reason = "denied"]

\* Refused for `reason`: a bearer request writes a row first, an authorize
\* request ends in PermissionDenied.
Refuse(r, reason) ==
    req' = [req EXCEPT ![r].at = IF IsMcp(r) THEN "audit" ELSE "refused",
                       ![r].reason = reason]

\* A request with a token some time issued arrives.
ArriveMcp(r, k) ==
    /\ req[r].at = "idle"
    /\ tokens[k].state # "unused"
    /\ req' = [req EXCEPT ![r].at = "lookup", ![r].token = k]
    /\ UNCHANGED records
    /\ Begin(r)

\* The token, its application and its user are one read; the next three gates
\* look at what was read.
LookUp(r) ==
    LET t == tokens[req[r].token]
    IN  /\ req[r].at = "lookup"
        /\ \/ t.state # "live" /\ Goto(r, "anonymous")
           \/ /\ t.state = "live"
              /\ \/ ~IsMcpApplicationName(t.app) /\ Refuse(r, "bad_application")
                 \/ /\ IsMcpApplicationName(t.app)
                    /\ \/ ~t.scope /\ Refuse(r, "bad_scope")
                       \/ t.scope /\ ~user.staff /\ Refuse(r, "inactive_or_non_staff")
                       \/ t.scope /\ user.staff /\ Goto(r, "mfa")
        /\ UNCHANGED records
        /\ Remember

\* A logged-in user comes to /o/authorize/ (for the form, or to submit it):
\* session and user are one read.
Authorize(r, app) ==
    /\ req[r].at = "idle"
    /\ user.sessions > 0
    /\ req' = [req EXCEPT ![r].app = app, ![r].at = IF user.staff THEN "mfa" ELSE "refused",
                          ![r].reason = IF user.staff THEN "none" ELSE "inactive_or_non_staff"]
    /\ UNCHANGED records
    /\ Begin(r)

CheckMfa(r) ==
    /\ req[r].at = "mfa"
    /\ IF user.mfa THEN Goto(r, "profile") ELSE Refuse(r, "no_mfa")
    /\ UNCHANGED records
    /\ Remember

NextPlace(r) ==
    CASE ~IsMcp(r)                -> "issue"
      [] IsMcp(r) /\ SESSION_GATE -> "session"
      [] OTHER                    -> "bound"

CheckProfile(r) ==
    /\ req[r].at = "profile"
    /\ \/ \E p \in Profiles : /\ ResolvesTo(p)
                              /\ req' = [req EXCEPT ![r].profile = p, ![r].at = NextPlace(r)]
       \/ Held = {} /\ Refuse(r, "no_perm")
       \/ Cardinality(Held) > 1 /\ Refuse(r, "ambiguous_profile")
    /\ UNCHANGED records
    /\ Remember

CheckSession(r) ==
    /\ req[r].at = "session"
    /\ IF user.sessions > 0 THEN Goto(r, "bound") ELSE Refuse(r, "no_session")
    /\ UNCHANGED records
    /\ Remember

\* The rest of the authorize view: the client is validated, the code stored.
IssueCode(r) ==
    /\ req[r].at = "issue"
    /\ IF IsMcpApplicationName(req[r].app)
       THEN /\ codes' = codes \cup {[app |-> req[r].app, stale |-> req[r].stale]}
            /\ Goto(r, "issued")
       ELSE /\ Refuse(r, "bad_application")
            /\ UNCHANGED codes
    /\ UNCHANGED <<user, cloudDeclared, tokens, pending, lost, changes>>
    /\ Remember

\* Mutant: an ambiguous user is only warned of, as the paging was done before.
AuditSkipsAmbiguous(r) ==
    /\ req[r].at = "audit"
    /\ IF req[r].reason = "ambiguous_profile"
       THEN Goto(r, "warn")
       ELSE \E row \in {IF ATOMIC_REQUESTS THEN "uncommitted" ELSE "committed", "failed"} :
               req' = [req EXCEPT ![r].row = row, ![r].at = "respond"]
    /\ UNCHANGED records
    /\ Remember

\* _audit_rejection: the row is part of the request's transaction, if there is
\* one.  An ambiguous user is warned of through the cache next.
AuditRejection(r) ==
    /\ req[r].at = "audit"
    /\ \E row \in {IF ATOMIC_REQUESTS THEN "uncommitted" ELSE "committed", "failed"} :
          req' = [req EXCEPT ![r].row = row,
                             ![r].at = IF req[r].reason = "ambiguous_profile"
                                       THEN "warn" ELSE "respond"]
    /\ UNCHANGED records
    /\ Remember

\* The request's transaction is rolled back, and its row with it.
Undo(row) == IF row = "uncommitted" THEN "undone" ELSE row

\* cache.add raises when the cache is away, and nothing catches it.
WarnAmbiguous(r) ==
    /\ req[r].at = "warn"
    /\ \/ Goto(r, "respond")
       \/ req' = [req EXCEPT ![r].at = "error", ![r].row = Undo(@)]
    /\ UNCHANGED records
    /\ Remember

\* REST framework turns AuthenticationFailed into the 401, and marks the
\* transaction of an ATOMIC_REQUESTS database for rollback as it does so.
Respond401(r) ==
    /\ req[r].at = "respond"
    /\ req' = [req EXCEPT ![r].at = "refused", ![r].row = Undo(@)]
    /\ UNCHANGED records
    /\ Remember

-----------------------------------------------------------------------------
(* The user, the admins and the clock *)

Change == changes < MaxChanges /\ changes' = changes + 1

\* An admin edits the account, its MFA device or its assignments.
EditUser ==
    /\ Change
    /\ \/ user' = [user EXCEPT !.staff = ~@]
       \/ user' = [user EXCEPT !.mfa = ~@]
       \/ \E g \in SUBSET Profiles : user' = [user EXCEPT !.groups = g]
       \/ \E g \in SUBSET Profiles : user' = [user EXCEPT !.direct = g]
    /\ UNCHANGED <<cloudDeclared, codes, tokens, pending, lost, req>>
    /\ Remember

\* A deploy adds the cloud client to the settings, or removes it.
EditSettings ==
    /\ Change
    /\ cloudDeclared' = ~cloudDeclared
    /\ UNCHANGED <<user, codes, tokens, pending, lost, req>>
    /\ Remember

\* A login, or the end of a web session without logout
Sessions ==
    /\ Change
    /\ \/ user.sessions < MaxSessions /\ user' = [user EXCEPT !.sessions = @ + 1]
       \/ user.sessions > 0           /\ user' = [user EXCEPT !.sessions = @ - 1]
    /\ UNCHANGED <<cloudDeclared, codes, tokens, pending, lost, req>>
    /\ Remember

\* user_logged_out, and the commit of the logout that queues the revocation.
\* What the user granted so far is stale from now on.
Logout ==
    /\ Change
    /\ user.sessions > 0
    /\ user' = [user EXCEPT !.sessions = @ - 1]
    /\ pending' = pending + 1
    /\ codes' = {[c EXCEPT !.stale = TRUE] : c \in codes}
    /\ tokens' = [k \in TokenIds |-> IF tokens[k].state = "live"
                                     THEN [tokens[k] EXCEPT !.stale = TRUE]
                                     ELSE tokens[k]]
    /\ req' = [r \in Requests |-> IF InFlight(r) THEN [req[r] EXCEPT !.stale = TRUE]
                                                 ELSE req[r]]
    /\ UNCHANGED <<cloudDeclared, lost>>
    /\ Remember

\* _revoke_and_audit_on_logout
Revoke ==
    /\ pending > 0
    /\ pending' = pending - 1
    /\ tokens' = [k \in TokenIds |->
                    IF tokens[k].state = "live" /\ RevokedOnLogout(tokens[k].app)
                    THEN [tokens[k] EXCEPT !.state = "gone"]
                    ELSE tokens[k]]
    /\ UNCHANGED <<user, cloudDeclared, codes, lost, req, changes>>
    /\ Remember

\* The delete raises DatabaseError, which is logged and not retried, or the
\* process dies between the commit and the callback.
RevokeFails ==
    /\ pending > 0
    /\ pending' = pending - 1
    /\ lost' = TRUE
    /\ UNCHANGED <<user, cloudDeclared, codes, tokens, req, changes>>
    /\ Remember

Issue(app, scope, stale) ==
    \E k \in TokenIds :
        /\ tokens[k].state = "unused"
        /\ tokens' = [tokens EXCEPT ![k] = [state |-> "live", app |-> app, scope |-> scope,
                                            stale |-> stale, late |-> stale]]

\* /o/token/: a code becomes a token.  No gate is asked.
Exchange ==
    /\ \E c \in codes : codes' = codes \ {c} /\ Issue(c.app, TRUE, c.stale)
    /\ UNCHANGED <<user, cloudDeclared, pending, lost, req, changes>>
    /\ Remember

\* A token made in the admin or a shell, for any application and scope
MintByHand ==
    /\ Change
    /\ \E app \in Apps, scope \in BOOLEAN : Issue(app, scope, FALSE)
    /\ UNCHANGED <<user, cloudDeclared, codes, pending, lost, req>>
    /\ Remember

\* A code (60 s) or a token (6 h) expires.
Expire ==
    /\ Change
    /\ \/ \E c \in codes : codes' = codes \ {c} /\ UNCHANGED tokens
       \/ \E k \in TokenIds : /\ tokens[k].state = "live"
                              /\ tokens' = [tokens EXCEPT ![k].state = "gone"]
                              /\ UNCHANGED codes
    /\ UNCHANGED <<user, cloudDeclared, pending, lost, req>>
    /\ Remember

-----------------------------------------------------------------------------

Gate(r) ==
    \/ LookUp(r)       \/ CheckMfa(r)       \/ CheckProfile(r) \/ CheckSession(r)
    \/ IssueCode(r)    \/ AuditRejection(r) \/ WarnAmbiguous(r) \/ Respond401(r)

Arrive(r) ==
    \/ \E k \in TokenIds : ArriveMcp(r, k)
    \/ \E app \in Apps : Authorize(r, app)

Environment ==
    \/ EditUser \/ EditSettings \/ Sessions   \/ Logout \/ Revoke
    \/ RevokeFails \/ Exchange  \/ MintByHand \/ Expire

\* The bounds are used up, and no request is under way.
Quiet ==
    /\ changes = MaxChanges
    /\ pending = 0
    /\ \A r \in Requests : ~InFlight(r)
    /\ UNCHANGED vars

Next == Environment \/ (\E r \in Requests : Arrive(r) \/ Gate(r)) \/ Quiet

Spec == Init /\ [][Next]_vars

-----------------------------------------------------------------------------
(* Properties *)

\* Every variable has its type.
TypeOK ==
    /\ user \in User
    /\ cloudDeclared \in BOOLEAN
    /\ codes \subseteq Code
    /\ tokens \in [TokenIds -> Token]
    /\ pending \in Nat
    /\ lost \in BOOLEAN
    /\ req \in [Requests -> Request]
    /\ ever \in [Requests -> Facts]
    /\ changes \in Nat

\* "Per-request re-validation": what an admin took away before a request
\* arrived is not granted to it.  A bearer request that is bound had a live
\* token of a recognised application with the scope, a staff account, MFA, the
\* bound profile as the only one, and with the session gate a web session, each
\* at some time since it arrived; a code is issued on the same terms.
GatesHeldSinceArrival ==
    \A r \in Requests :
        /\ req[r].at = "bound" =>
              /\ {"token", "application", "scope", "staff", "mfa"} \subseteq ever[r].gates
              /\ SESSION_GATE => "session" \in ever[r].gates
        /\ req[r].at = "issued" =>
              {"application", "session", "staff", "mfa"} \subseteq ever[r].gates
        /\ req[r].at \in {"bound", "issued"} => req[r].profile \in ever[r].profiles

\* Logout revocation: when every logout has revoked, no token that was granted
\* before one and that the surface may ever accept is left, except those whose
\* code was exchanged after it.  It also holds of a cloud client that is out of
\* the settings at the logout and back in them later.
LogoutRevokes ==
    pending = 0 /\ ~lost =>
        \A k \in TokenIds :
            /\ tokens[k].state = "live"
            /\ tokens[k].stale
            /\ tokens[k].app \in {"canonical", "dcr", "cloud"}
            => tokens[k].late

\* "Every resolved-user rejection in `authenticate` writes one
\* MCPAuthRejectionLog row" (auth.py:13): a request that got its 401 for one of
\* the gates left a row, or the failure to write it was logged.
RejectionsLogged ==
    \A r \in Requests : req[r].at = "refused" /\ IsMcp(r) =>
        req[r].row \in {"committed", "failed"}

=============================================================================
