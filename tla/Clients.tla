------------------------------ MODULE Clients ------------------------------
(***************************************************************************)
(* Which OAuth clients there are, and where their codes go.                *)
(*                                                                         *)
(* The settings declare the cloud clients.  Every process reads them once, *)
(* when it boots, and does not boot if they are invalid; `migrate` writes  *)
(* them into the Application table, one row at a time, with the settings   *)
(* of its own process.  A request is judged by the settings of the worker  *)
(* that serves it and by the row: the two agree only when a deploy is      *)
(* complete.  Anonymous registration adds loopback clients to the table.   *)
(*                                                                         *)
(* A URL is a record: path is the sequence of what is between the slashes  *)
(* (an empty last segment for a trailing one), each segment with the       *)
(* number of times it is percent-encoded.  It has no whitespace in it: the *)
(* redirects of the settings are taken to be one URL each.  A redirect of  *)
(* a registration is a text: `read` is what urlparse makes of the whole of *)
(* it, `words` are the URLs between its whitespace; for most texts that is *)
(* the URL read, and no other.  One user is modelled, with one             *)
(* authorization at a time: a consent page that is open or a code that is  *)
(* not redeemed; `approved` is the client of the user's last token.        *)
(*                                                                         *)
(* The names are prefixed where Throttle, with which the module is checked,*)
(* has the same ones.                                                      *)
(***************************************************************************)
EXTENDS Integers, FiniteSets, SequencesExt

CONSTANTS
    Servers,        \* serving processes
    Slugs,          \* names a cloud client may have
    Minted,         \* client ids registration hands out
    Releases,       \* the settings of each release: [clients, schemes]
    Bodies,         \* registration requests
    Requests,       \* authorization requests: [client, uri, scopes, method]
    OAUTH_REQUEST_BODY_MAX_BYTES,
    MaxEdits        \* bound: releases after the first

Canonical == "mcp-sql"
Foreign   == "other"            \* an OAuth client of the host project
SCOPE     == "mcp:sql"
Clients   == {Canonical, Foreign} \cup Minted \cup Slugs

Nobody    == "nobody"           \* no client

Down      == "down"             \* the worker did not boot
Settled   == "settled"          \* no migrate is running
NotYet    == "not yet"          \* the last migrate did not come to its end

Nothing   == [none |-> TRUE]    \* no page, no code
Omitted   == [omitted |-> TRUE] \* a request without redirect_uri
NoRow     == [uris |-> {}, skip |-> FALSE]

NoPort     == -1                \* a URL without a port
Undeclared == -1                \* a Content-Length missing or not a number

\* What is between two slashes: `*` for one with a wildcard
Segment == [name : STRING, layers : Nat]
Url     == [scheme : STRING, user : BOOLEAN, host : STRING, port : Int, path : Seq(Segment)]

\* The client id of a cloud client is "<prefix>cloud.<name>": it has a dot, as
\* no minted id has, and is none of the host project's.
ASSUME ClientsAssumption ==
    /\ IsFiniteSet(Servers)
    /\ OAUTH_REQUEST_BODY_MAX_BYTES \in Nat
    /\ MaxEdits \in Nat
    /\ Slugs \cap ({Canonical, Foreign} \cup Minted) = {}
    /\ {Canonical, Foreign} \cap Minted = {}
    /\ {Down, Settled, NotYet} \cap DOMAIN Releases = {}
    /\ \A r \in DOMAIN Releases : \A e \in Releases[r].clients : e.uri \in Url
    /\ \A q \in Requests : q.uri \in Url \cup {Omitted}
    /\ \A body \in Bodies : \A text \in body.redirects : text.words # {}

VARIABLES
    release,        \* the settings of the newest release
    config,         \* the settings each worker booted with, or Down
    migrating,      \* the release whose migrate is running, or Settled
    todo,           \* the entries it has still to write
    provisioned,    \* the settings of the last migrate, if it came to its end
    deployed,       \* history: the valid settings released so far
    applications,   \* the Application row of each client id
    page,           \* the consent page the user has open
    code,           \* the code last issued
    approved,       \* the client the last token is for
    edits           \* releases so far

clientsVars == <<release, config, migrating, todo, provisioned, deployed, applications,
                 page, code, approved, edits>>

-----------------------------------------------------------------------------
(* Redirects *)

Port(u) == IF u.port = NoPort THEN 443 ELSE u.port

\* `..` after unquoting the path `times` times
Dots(u, times) == \E i \in DOMAIN u.path : /\ u.path[i].name = ".."
                                           /\ u.path[i].layers <= times

\* The prefix, ending at a segment boundary
Anchored(path) ==
    IF path # <<>> /\ Last(path).name = "" THEN Front(path) ELSE path

\* Mutant: a bare startswith on the last word of the prefix.
UnanchoredUnderPrefix(u, prefix) ==
    LET base == Anchored(prefix.path)
    IN  /\ u.scheme = "https" /\ ~u.user
        /\ u.host = prefix.host /\ Port(u) = Port(prefix)
        /\ IsPrefix(base, u.path)

\* _redirect_under_prefix
RedirectUnderPrefix(u, prefix) ==
    LET base == Anchored(prefix.path)
    IN  /\ u.scheme = "https"
        /\ ~u.user
        /\ u.host # "none"
        /\ u.host = prefix.host
        /\ Port(u) = Port(prefix)
        /\ ~Dots(u, 5)
        /\ IsPrefix(base, u.path) /\ Len(u.path) > Len(base)

LoopbackHosts == {"127.0.0.1", "::1", "localhost"}

\* _is_loopback_redirect
IsLoopbackRedirect(u) == u.scheme = "http" /\ ~u.user /\ u.host \in LoopbackHosts

\* Django OAuth Toolkit's match of a registered URI: any port on a loopback
\* address, else the same port; the same path
StockMatch(u, registered) ==
    /\ u.scheme = registered.scheme
    /\ u.user = registered.user
    /\ u.host = registered.host
    /\ \/ registered.scheme = "http" /\ registered.host \in {"127.0.0.1", "::1"}
       \/ u.port = registered.port
    /\ u.path = registered.path

-----------------------------------------------------------------------------
(* Settings *)

\* _validate_cloud_redirect_uri: "*" stands for a segment with a wildcard.
ValidCloudRedirect(match, u) ==
    /\ u.scheme = "https"
    /\ ~u.user
    /\ u.host # "none"
    /\ \A i \in DOMAIN u.path : u.path[i].name # "*"
    /\ ~Dots(u, 1)
    /\ match = "prefix" => /\ \E i \in DOMAIN u.path : u.path[i].name # ""
                           /\ Last(u.path).name = ""

\* _validate_cloud_clients
ValidCloudClients(r) ==
    /\ \A e \in Releases[r].clients :
          /\ e.name \in Slugs
          /\ e.match \in {"exact", "prefix"}
          /\ ValidCloudRedirect(e.match, e.uri)
    /\ \A e, f \in Releases[r].clients : e.name = f.name => e = f
    /\ Releases[r].clients # {} => "https" \in Releases[r].schemes

\* MCPSQLSettings.cloud_clients, by client id
CloudClients(r) == {e.name : e \in Releases[r].clients}
Entry(r, client) == CHOOSE e \in Releases[r].clients : e.name = client

\* is_mcp_application_name, in the process w
IsRecognised(w, client) ==
    client \in {Canonical} \cup Minted \cup CloudClients(config[w])

-----------------------------------------------------------------------------

ClientsInit ==
    /\ release      \in {r \in DOMAIN Releases : ValidCloudClients(r)}
    /\ config       = [w \in Servers |-> release]
    /\ migrating    = Settled
    /\ todo         = {}
    /\ provisioned  = NotYet
    /\ deployed     = {release}
    /\ applications = [c \in Clients |->
                         CASE c = Canonical -> [uris |-> {[scheme |-> "http", user |-> FALSE,
                                                           host |-> "127.0.0.1", port |-> NoPort,
                                                           path |-> <<>>]},
                                                skip |-> TRUE]
                           [] c = Foreign   -> [uris |-> {q.uri : q \in {x \in Requests :
                                                                  x.client = Foreign}},
                                                skip |-> TRUE]
                           [] OTHER         -> NoRow]
    /\ page         = Nothing
    /\ code         = Nothing
    /\ approved     = Nobody
    /\ edits        = 0

deploy  == <<release, config, deployed, edits>>
migrate == <<migrating, todo, provisioned>>
user    == <<page, code, approved>>

(* Deploys *)

\* The operator deploys other settings.
Edit ==
    /\ edits < MaxEdits
    /\ edits' = edits + 1
    /\ release' \in DOMAIN Releases \ {release}
    /\ deployed' = IF ValidCloudClients(release') THEN deployed \cup {release'} ELSE deployed
    /\ UNCHANGED <<config, migrate, applications, user>>

\* A worker restarts: McpSqlConfig.ready validates the settings or raises.
Boot(w) ==
    /\ config[w] # release
    /\ config' = [config EXCEPT ![w] = IF ValidCloudClients(release) THEN release ELSE Down]
    /\ config' # config
    /\ UNCHANGED <<release, deployed, edits, migrate, applications, user>>

\* manage.py migrate, whose process validates the settings too
Migrate ==
    /\ migrating = Settled
    /\ provisioned # release
    /\ ValidCloudClients(release)
    /\ migrating'   = release
    /\ todo'        = Releases[release].clients
    /\ provisioned' = NotYet
    /\ UNCHANGED <<deploy, applications, user>>

\* Mutant: get_or_create, as for the profiles.
GetOrCreateRow(e) ==
    IF applications[e.name] # NoRow THEN applications[e.name]
                                    ELSE [uris |-> {e.uri}, skip |-> FALSE]

\* Application.objects.update_or_create
UpdateOrCreateRow(e) == [uris |-> {e.uri}, skip |-> FALSE]

\* One entry of provision_mcp_cloud_clients, in any order; other rows stay.
ProvisionCloudClient(e) ==
    /\ todo'         = todo \ {e}
    /\ applications' = [applications EXCEPT ![e.name] = UpdateOrCreateRow(e)]
    /\ UNCHANGED <<deploy, migrating, provisioned, user>>

MigrateEnds ==
    /\ migrating # Settled
    /\ todo = {}
    /\ migrating'   = Settled
    /\ provisioned' = migrating
    /\ UNCHANGED <<deploy, todo, applications, user>>

\* A statement fails or the process is killed: what is written stays.
MigrateAborts ==
    /\ migrating # Settled
    /\ migrating' = Settled
    /\ todo' = {}
    /\ UNCHANGED <<deploy, provisioned, applications, user>>

(* Requests *)

\* normalize_content_length
ContentLength(raw) == IF raw = Undeclared THEN 0 ELSE raw

\* What register_client wants of the body behind cap_request_body
Registrable(body) ==
    /\ ContentLength(body.length) <= OAUTH_REQUEST_BODY_MAX_BYTES
    /\ body.redirects # {}
    /\ \A text \in body.redirects : IsLoopbackRedirect(text.read)
    /\ "authorization_code" \in body.grants
    /\ "code" \in body.responses
    /\ body.auth = "none"

\* " ".join(redirect_uris), as the toolkit splits it
Stored(body) == UNION {text.words : text \in body.redirects}

\* register_client, at any worker: other bodies get an error, and a blocked IP
\* (Throttle!Check) an answer of the same form, without a row.
Register(client, body) ==
    /\ applications[client] = NoRow
    /\ Registrable(body)
    /\ applications' = [applications EXCEPT ![client] = [uris |-> Stored(body), skip |-> FALSE]]
    /\ UNCHANGED <<deploy, migrate, user>>

\* MCPOAuth2Validator.validate_client_id
ValidClient(w, client) == applications[client] # NoRow /\ IsRecognised(w, client)

\* MCPOAuth2Validator.validate_redirect_uri
ValidRedirect(w, client, u) ==
    IF /\ client \in CloudClients(config[w])
       /\ Entry(config[w], client).match = "prefix"
    THEN RedirectUnderPrefix(u, Entry(config[w], client).uri)
    ELSE \E registered \in applications[client].uris : StockMatch(u, registered)

\* MCPOAuth2Validator.validate_scopes
ValidScopes(scopes) == scopes = {SCOPE}

\* MCPOAuth2Validator.validate_code_challenge_method
ValidChallengeMethod(method) == method = "S256"

\* Where the answer to the request q goes: a redirect that is named must be
\* valid; for one that is not, the toolkit takes the row's if it has only one.
Targets(w, q) ==
    IF q.uri = Omitted
    THEN {u \in applications[q.client].uris : applications[q.client].uris = {u}}
    ELSE {u \in {q.uri} : ValidRedirect(w, q.client, u)}

\* A GET of /o/authorize/: the consent page, or the code at once for a client
\* whose row says so, or that the user has a token for (approval_prompt=auto).
Authorize(w, q) ==
    /\ config[w] # Down
    /\ page = Nothing /\ code = Nothing
    /\ ValidClient(w, q.client)
    /\ ValidScopes(q.scopes)
    /\ ValidChallengeMethod(q.method)
    /\ \E u \in Targets(w, q) :
          \/ /\ ~applications[q.client].skip
             /\ page' = [client |-> q.client, uri |-> u]
             /\ UNCHANGED code
          \/ /\ applications[q.client].skip \/ approved = q.client
             /\ code' = [client |-> q.client, uri |-> u]
             /\ UNCHANGED page
    /\ UNCHANGED <<deploy, migrate, applications, approved>>

\* The page is submitted, at any worker: the request is validated once more.
Consent(w) ==
    /\ config[w] # Down
    /\ page # Nothing
    /\ ValidClient(w, page.client)
    /\ ValidRedirect(w, page.client, page.uri)
    /\ code' = page
    /\ page' = Nothing
    /\ UNCHANGED <<deploy, migrate, applications, approved>>

\* The user cancels, or the submitted page is refused.
Dismiss ==
    /\ page # Nothing
    /\ page' = Nothing
    /\ UNCHANGED <<deploy, migrate, applications, code, approved>>

\* The code is redeemed: the token view does not ask for the client's name.
Redeem ==
    /\ code # Nothing
    /\ approved' = code.client
    /\ code' = Nothing
    /\ UNCHANGED <<deploy, migrate, applications, page>>

\* The releases are used up, and what is left may never come.
Rest == edits = MaxEdits /\ UNCHANGED clientsVars

ClientsNext ==
    \/ Rest
    \/ Edit \/ Migrate \/ MigrateEnds \/ MigrateAborts \/ Dismiss \/ Redeem
    \/ \E e \in todo : ProvisionCloudClient(e)
    \/ \E w \in Servers : \/ Boot(w) \/ Consent(w)
                          \/ \E q \in Requests : Authorize(w, q)
    \/ \E client \in Minted, body \in Bodies : Register(client, body)

ClientsSpec == ClientsInit /\ [][ClientsNext]_clientsVars

-----------------------------------------------------------------------------
(* Properties *)

\* Every variable has its type.
ClientsTypeOK ==
    /\ release \in DOMAIN Releases
    /\ config \in [Servers -> deployed \cup {Down}]
    /\ migrating \in deployed \cup {Settled}
    /\ migrating = Settled => todo = {}
    /\ migrating # Settled => todo \subseteq Releases[migrating].clients
    /\ provisioned \in deployed \cup {NotYet}
    /\ deployed \subseteq DOMAIN Releases
    /\ \A c \in Clients : applications[c].skip \in BOOLEAN
    /\ \A x \in {page, code} : x = Nothing \/ x.client \in Clients
    /\ approved \in Clients \cup {Nobody}
    /\ edits \in 0..MaxEdits

\* Where a browser goes that follows u: the path without its dot segments,
\* written plainly or encoded once
Resolve(path) ==
    LET done[i \in 0..Len(path)] ==
            IF i = 0 THEN <<>>
            ELSE IF path[i].name = ".." /\ path[i].layers <= 1
                 THEN IF done[i - 1] = <<>> THEN <<>> ELSE Front(done[i - 1])
                 ELSE Append(done[i - 1], path[i])
    IN  done[Len(path)]

SameOrigin(u, v) == u.scheme = v.scheme /\ u.host = v.host /\ Port(u) = Port(v)

\* u stays in the directory of the URL `prefix`, which ends in a slash.
LandsUnder(u, prefix) ==
    /\ SameOrigin(u, prefix)
    /\ IsPrefix(Front(prefix.path), Resolve(u.path))
    /\ Len(Resolve(u.path)) >= Len(prefix.path)

\* The settings r send the client's codes to u.
Declares(r, client, u) ==
    \/ client \in {Canonical} \cup Minted /\ u.scheme = "http" /\ u.host \in LoopbackHosts
    \/ \E e \in Releases[r].clients :
          /\ e.name = client
          /\ IF e.match = "prefix" THEN LandsUnder(u, e.uri)
             ELSE SameOrigin(u, e.uri) /\ Resolve(u.path) = e.uri.path

\* A word of a text with whitespace that registration took: _is_loopback_redirect
\* has looked at the text as one URL, and the row has it as several.
SplitOff(client, u) ==
    /\ client \in Minted
    /\ \E body \in Bodies :
          /\ Registrable(body)
          /\ applications[client].uris = Stored(body)
          /\ \E text \in body.redirects :
                /\ text.words # {text.read}
                /\ \E word \in text.words : StockMatch(u, word)

\* "nothing is admitted that you did not name" (docs/oauth.md): however deploys,
\* half-done migrates and requests interleave, a code goes to a loopback address,
\* for a client that registered or is built in, or where valid settings
\* released so far declare the callback of that very client; the browser lands
\* there.  Only a client that registered a text with whitespace may get its codes
\* anywhere else, and only at a word of that text.
CodesGoWhereDeclared ==
    code # Nothing => \/ \E r \in deployed : Declares(r, code.client, code.uri)
                      \/ SplitOff(code.client, code.uri)

\* The newest release is what all workers run with and what the table was
\* written from.
DeployComplete ==
    /\ migrating = Settled
    /\ provisioned = release
    /\ \A w \in Servers : config[w] \in {release, Down}

\* "Remove the entry (and redeploy) and the same client_id is denied at the very
\* next /o/authorize/", and "keeps the row's stored redirect_uris in sync with
\* settings on every migrate" (signals.py): once a deploy is complete no code
\* goes where an earlier release sent it, neither to a page left open before nor
\* by a row left behind; what a text with whitespace was split into is in no
\* release, and stays.
NewCodesFollowRelease ==
    [][DeployComplete /\ code' # code /\ code' # Nothing
         => \/ Declares(release, code'.client, code'.uri)
            \/ SplitOff(code'.client, code'.uri)]_clientsVars
=============================================================================
