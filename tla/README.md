# Formal model of django-mcp-sql

django-mcp-sql lets AI agents read a Django project's PostgreSQL database
through MCP. A request carries an OAuth bearer token; the token's user is bound
to exactly one *profile*, which owns a PostgreSQL role and a whitelist of
models; the SQL is parsed and checked, wrapped in a row limit, run in a
read-only transaction under the profile's role, and every call leaves an audit
row. This directory specifies that machinery in TLA+, checks the
specifications with TLC on small instances, and proves the invariants of its
core with TLAPS for all of them.

Contents: the system and its parts, the modules, the runs, the proofs, what
the models take for granted, where the code and its documents differ, what is
left out, and what comes next.

## 1. The system

| Component | State it keeps | Operations | Talks to |
|---|---|---|---|
| Query executor (`executor.py`) | none of its own; a transaction on the read-only alias, the audit row it is about to write | `run_query`, `audit_tool_call`, `_audit_misconfig`, `_audit_safely`, `_cap_rows` | parser, session, audit log, volume counter |
| Read-only session (`session.py`) | settings of a pooled PostgreSQL backend: role, four guard GUCs, context GUCs | `enter_readonly_session`, `session_drift` | PostgreSQL through a transaction-mode pool |
| SQL parser (`parser.py`) | none | `parse_and_validate`, `inject_limit`, `extract_limit` | whitelists of `grants.declared_tables` |
| Audit log (`models.py`, `schemas.py`) | `MCPQueryLog`, `MCPAuthRejectionLog` rows | insert only | written by executor, auth, signals |
| MCP endpoint (`views/mcp_endpoint.py`) | one event loop on a daemon thread per process, with its thread pool; a lifespan and a body per request | `_get_asgi_loop`, the WSGI bridge, the lifespan, the three tools on pool threads | executor, FastMCP |
| Throttle, volume (`throttle.py`, `observability.py`) | one cache counter per surface, address and window | `is_ip_blocked`, `record_attempt`, `record_query_volume` | Django cache |
| Registration (`views/registration.py`) | OAuth `Application` rows | `register_client` | throttle |
| Bearer authentication (`auth.py`) | none; reads tokens, users, MFA devices, permissions, sessions | `authenticate`, `_audit_rejection` | throttle, audit log, conf |
| Consent and issuance (`oauth.py`, `views/oauth_authorize.py`) | consent pages and authorization codes (oauth2_provider) | `dispatch`, `_enforce_gate`, `validate_client_id`, redirect checks | conf |
| Signals (`signals.py`) | groups, permissions and `Application` rows it provisions | revocation on logout, group-change pages, provisioning of profiles and cloud clients, drift audit after migrate | tokens, groups, grants |
| Grant reconciliation (`grants.py`, `mcp_sql_grants`) | SELECT grants of the profile roles (PostgreSQL) | `reconcile_grants` strict/lenient, with or without `--apply` | PostgreSQL catalogs |
| Operator commands (`mcp_sql_smoke`, `mcp_sql_role_setup`) | roles and memberships (PostgreSQL) | three checks of one profile's session; the roles and their grant to the login | session, PostgreSQL |
| Configuration (`conf.py`, `validation.py`) | a settings cache per process | profile resolution, boot checks | everything |

The rest (fencing, routing, discovery, admin pages, the lint command, the
example project) keeps no state that changes under the system's own control;
`PROJECT.json` lists each with its reason.

What is hard here, and what each part owes:

* **Executor.** Tool calls run concurrently on a thread pool and share a few
  pooled backends. Every one of the dozen ways out of `run_query` has to leave
  the backend clean, write the right row, and give an answer that agrees with
  it. Limits meet at boundaries (argument, SQL, default, hard limit, peek row).
* **Endpoint.** A double-checked initialisation with one unlocked read, a
  daemon thread and a five-second timeout. Requests of all threads dispatch on
  one loop, each inside a lifespan of its own, and their tools share its pool:
  on every path a lifespan, a body and a connection have to be given back.
* **Clients.** The settings a worker booted with, the row a migrate of another
  release wrote and a consent page that was opened before either decide
  together where a code goes.
* **Throttle.** Check, act, record: three cache calls of several workers, each
  of which may fail, before or after the cache applied it, or find that the
  window expired.
* **Registration.** A redirect is judged as one URL, stored joined with the
  others by spaces, and taken apart by whitespace again.
* **Authentication.** One request reads five kinds of facts in separate
  queries while admins, logouts, code exchanges and settings change them. The
  revocation after a logout runs after its commit and is never retried.
* **Profiles.** What a migrate provisions stays; it may break off after any
  statement; releases that give groups and codenames other meanings follow one
  another while workers of several run.
* **Group pages.** The receiver runs inside the transaction it reports on.
* **Grants.** A sequence of transactions, one per profile, each on a drift
  that was read before, with other deploys and a DBA at work.
* **Smoke run.** Three transactions whose checks wait for one error among all
  that a statement may end with, while what they check changes.

## 2. The modules

State and actions are named after the code; `PROJECT.json` maps each definition
to its lines.

| Module | Models | State | One action is |
|---|---|---|---|
| `Limits` | the limit arithmetic of `run_query` | - | pure operators |
| `PgSession` | a pooled backend and `enter_readonly_session` | session layer and transaction layer of the settings | pure operators used by Executor |
| `Executor` | concurrent calls of the three tools | stage, arguments, backend held, settings of each backend, draft row, result, log, volume | one step of `run_query` that can fail or be interleaved |
| `SqlGate` | `parse_and_validate` over sqlglot's trees, and PostgreSQL's scopes of CTEs and rows | - | pure operators |
| `GatedExecutor` | `Executor` with the verdicts of `SqlGate` | Executor's, and the text of each call | a step of Executor |
| `AuditTrail` | what the executor promises of its log | status, trail, missed rows, answers | log, answer, answer unlogged, fail |
| `ResultCap` | `_cap_rows` and `_cap_cell`: characters, UTF-8 bytes, escaped JSON | - | pure operators |
| `CappedExecutor` | `GatedExecutor` with rows that have sizes | GatedExecutor's, and the rows each statement finds | a step of GatedExecutor |
| `Throttle` | the per-address throttle on registration and bad tokens, the volume counter | cache counters, worker positions, `Application` rows | one cache or database call |
| `AsgiLoop` | `_get_asgi_loop` | holder, lock, loops created and running, thread positions | one read, lock or wait |
| `Endpoint` | a request on that loop: bridge, lifespan, dispatch, tool threads and their connections | AsgiLoop's; coroutines, lifespans, bodies, the pool's queue and threads | one step of a request thread, a coroutine or a pool thread |
| `Clients` | cloud clients from settings to rows, registration's checks on a body, redirect matching, the consent page, codes | settings and rows, workers' releases, a migrate, the user's page, code and last approval | one release, boot, row of a migrate, or request |
| `Access` | the gates of a bearer request and of `/o/authorize/`, codes, tokens, logout revocation, the rejection row | the user's records, codes, tokens, pending revocations, requests | one database read or write of a request; one change by an admin, a session, time |
| `Provisioning` | `PROFILES`: validation at boot, `provision_mcp_profiles`, `resolve_profile` | groups and what they carry, memberships, the migrate under way | one statement of a migrate |
| `Cohort` | extends it with the pages about group changes and with workers of several releases | the releases the workers run; the open transactions | one step of a transaction, a restart |
| `Grants` | `reconcile_grants` | roles, memberships, views, grants, runs | one read or transaction of a run |
| `Rollout` | extends it with `mcp_sql_smoke`, whose session is `PgSession`'s | INSERT grants, the smoke run and its backend | one statement of the smoke run that may fail |

`GatedExecutor` composes `Executor` and `SqlGate`: a call comes with a text,
`ParserRejects` gives one of the reasons the gate may raise for it,
`ParserAccepts` happens only to a text for which it raises none, with the LIMIT
of its root, and every other step is Executor's as it is. `Executor` by itself
leaves the verdict open, so that what is shown of it holds for any parser.
`CappedExecutor` adds `ResultCap` in the same way: a statement finds rows, and
the commit keeps as many of them as `_cap_rows` would. Each composition
implements the one before it, and the proofs use that.

`Endpoint` extends `AsgiLoop` and implements it; what a tool does between
`RunTool`'s start and its end is a call of `Executor`. `Clients` and `Throttle`
share only the insert of a registered row: `MCPublic` checks both, and the
variable `part` says which of the two a behaviour explores, while the other
rests in one initial state. `Clients` follows one user with one authorization
at a time: a second one would have a page and a code of its own.

`Executor` extends `Limits` and `PgSession` and implements `AuditTrail`
(`Trail == INSTANCE AuditTrail WITH ...`, the property `AuditTrailImplemented`):
a call is open until it is answered or an exception escapes, its trail is its
part of the log, and its answer appears when it is answered. `Throttle`'s
volume counter is the one `Executor` calls in `CountVolume`; `Executor` keeps
only what an audited call does to it. `Access` starts where `Throttle` lets a
request through, and what it binds (a profile) is what `Executor` starts with;
that the binding is the profile an admin assigned is `Provisioning`'s.

Each `MC` module gives one of these to TLC: symmetry sets and constants that
a .cfg cannot write. Mutants (operators marked `Mutant:`) stand beside the
definition they distort; no specification uses them.

How the data is abstracted:

* To `Executor`, a statement is its LIMIT, how many rows it matches and whether
  the parser takes it.
* To `SqlGate`, it is a tree of the node classes the checks ask for. Names are
  in lower case already, a schema is a system schema or not, and a function is
  the deny list that it is on. Where a check stops at the first of several
  offending nodes, each of their reasons is possible: sqlglot's order of
  traversal is not modelled, the order of the checks is.
* A setting of a backend is `[role, guards, context]` in two layers; BEGIN
  copies the session layer, SET LOCAL writes the upper one, COMMIT and ROLLBACK
  drop it. The read-only flag of a transaction is taken at BEGIN.
* A URL is scheme, user part, host, port and a path of segments, each with the
  number of times it is percent-encoded: what the several decoders of the code
  and of a browser tell apart. A redirect to be registered is a text: the URL
  that `urlparse` reads in the whole of it, and the URLs between its whitespace.
* A row of a result has one cell; a text in it is its length and the UTF-8
  width of its characters.
* An application is one of five shapes of name, which are what the strict
  recognition (`is_mcp_application_name`) and the loose one (the revocation)
  tell apart.
* A table, group, profile, address or token is a model value or a short name.

## 3. What is checked

Passing runs. The runs Executor, Endpoint, Access, Provisioning and Rollout
check a type invariant besides.

| Run | Instance | Shows |
|---|---|---|
| Executor | 2 calls, 2 profiles, 1 backend, no tool limit or 0, every failure, fair | `StatementConfined`, `PooledBackendsClean`, `BackendsExclusive`, `DecisionTellsReach`, `VolumeNeverAheadOfLog`, `AuditTrailImplemented`, `CallsFinish` |
| CappedExecutor | 1 call; 12,449 trees of up to 5 nodes in five families (tables, CTEs and subqueries, and what a SELECT returns from tables, derived tables and joins, in two sizes each; forbidden constructs), texts that are no single query; on one text 7 tool limits x 7 SQL limits around DEFAULT_LIMIT 2 and HARD_LIMIT 3, and up to 5 rows of five sizes around both byte caps | `ReadsDeclaredTables`, `CteReadsPass`, `NoWholeRow`, `AnswerWithinLimits`, `TruncatedIffRowsHeldBack`, `AnswerIsLongestPrefix` |
| Public | either 2 workers, 3 surfaces, 4 requests against a threshold of 2, both classes of cache failure, with and without the call applied, an expiry; or 2 servers, 2 cloud clients, 6 releases of which 3 are valid, 2 releases after the first, 16 authorization and 4 registration requests, one with a text of two URLs | `CounterExact`, `OneWarningPerWindow`, `OvershootBounded`; `CodesGoWhereDeclared`, `NewCodesFollowRelease` |
| Endpoint | 3 threads with a request each, 3 loops, startups that time out or come late, a pool of 2 threads, one request whose tool may never return, fair | `OneRunningLoop`, `HolderStable`, `LeaksOnlyOnTimeout`, `PoolThreadsClean`, `LifespanAroundDispatch`, `EveryCallEnds`, `SlowToolsDelayNobody` |
| Access | 2 requests of either kind, 2 changes of any kind, 1 token, session gate on | `GatesHeldSinceArrival`, `LogoutRevokes`, `RejectionsLogged` |
| Provisioning | 2 admins, 5 releases of which 3 are valid, 2 groups, 4 changes, restarts and migrates | `NoSilentGain`, `UnpagedOnlyByRace`, `ResolvesAsAssigned` |
| Rollout | 2 grant runs of any mode and version and a smoke run any statement of which may fail, of which 2 start, 2 profiles that share a table, up to 2 changes by others | `AppliedProfilesInSync`, `ReportIsDrift`, `RunsKeepToTheirProfile`, `SmokeTellsTruth` |

Why these bounds are enough to be of interest. Interference needs two calls on
one backend: the first leaves it in every possible way, the second finds what
was left. Limits only compare with each other, and the values around the two
configured ones with a peek row on either side are all orders there are. A
scope is mistaken with two queries, a CTE and two tables of one name, which is
five nodes; a row of a query around, with four. A
counter needs a window to fill, a worker in flight when it fills, one more to
seed the next. The race for the loop needs a winner, a loser who saw the empty
holder before, and a late startup. A stale gate needs one change between two
reads; a request that is wrong because of *two* changes (a permission moved
from one group to another) needs two, and the revocation cases (code, logout,
revocation, exchange) need a consent and a bearer request. An ambiguity needs
two groups; a third shows that pages do not stop at the first. Grants need a
table shared by two profiles, a whitelist of another version, and a run that is
between its read and its transaction when someone else commits; a smoke run
that is told something false needs one change between two of its transactions.
Three releases are an addition, a move and a removal with a worker of each
behind; the two settings no process boots with show that validation is what
keeps them out. A pool of two with one slow tool is the smallest in which a
second request has to get past it. Byte caps are met from below, exactly and
from above by one, by one row alone and by the last of several; the five cells
are short, cut in the middle, cut though they have few characters, and too
large by themselves.

Bounds by name: `MaxRows`, `MaxRequests`, `MaxExpiries`, `MaxCalls`,
`MaxSessions`, `MaxEdits` (releases after the first), `MaxChanges` (changes by
the DBA and by migrations, of a user's records; in `Cohort` it counts restarts
and migrates begun too), `Budget` in `MCRollout` (two commands and one change,
or one command and two changes) and `Tried` there (an INSERT is granted only on
what the smoke run is about to try). `Quiet`, `Rest` and `Done` steps keep a
used-up bound from looking like a deadlock: TLC's deadlock check is on in every
run, so a state in which nothing can move *before* the bounds are used up is an
error.

Symmetry (workers, requests, profiles, admins, groups, runs) is used over
constants that no definition tells apart, and in safety runs only: the runs
`Executor` and `Endpoint`, which check liveness too, use none.

### Fairness

* `Executor!FairSpec` is weak fairness of each call's own steps. A call runs on
  a thread of its own and every wait in it is bounded: `statement_timeout`,
  `lock_timeout` and the pool's queue. No step of a call is assumed to succeed.
  A refused connection (`BeginFails`) is not among the steps that must happen:
  a waiting call is not rescued by it, so `CallsFinish` says that the other
  calls give the backend back.
* `Endpoint!FairEndpointSpec` is weak fairness of the request threads, of a
  coroutine on a loop that runs, and of the pool's threads. Nothing is assumed
  of the daemon thread that starts a loop: the timeout alone has to end a wait
  (`EveryCallEnds`). A tool of a request in `Slow` need never return; the others
  do, as `statement_timeout` ends them. `SlowToolsDelayNobody` holds as long as
  `Slow` has fewer members than the pool has threads, as it has in the run.
* The other modules state no liveness. A revocation, for one, is not retried
  by the code, so that it eventually happens is not true of it.

## 4. What is proved

Every safety property that a passing run checks is proved, too, for any number
of calls, backends, profiles, contexts, limits, texts, rows, threads, loops,
workers, requests, URLs, admins, releases, whitelists and runs:

| Theorem | Says |
|---|---|
| `ExecutorProofs!TypeCorrect` | `Spec => []TypeOK` |
| `StatementsAreConfined` | every statement runs in its profile's role, under all guards, with its own context |
| `PoolStaysClean` | a backend in the pool carries nothing of an earlier call |
| `NoBackendShared` | no two calls on one backend, none kept by a call that ended |
| `AuditProofs!RowsTellReach` | a call's row tells whether PostgreSQL saw its statement |
| `AnswersKeepLimits` | no answer has more rows than asked for, than the hard limit or, unasked, than the default |
| `FlagTellsTruncation` | `truncated` is set exactly when the server held rows back |
| `VolumeFollowsLog` | no volume counter is ahead of the rows of its decision |
| `ExecutorImplementsTrail` | `Executor` implements `AuditTrail` |
| `CappedExecutorProofs!GateImplementsExecutor` | `GatedSpec => Spec`: what is proved of `Executor` holds behind the gate, confinement first of all (`GatedStatementsAreConfined`) |
| `OnlyDeclaredTablesAreRead` | for trees of any size: what runs reads whitelisted tables only, but for the shadow of an out-of-scope namesake CTE (section 6) |
| `OnlyRealTablesAreRefused` | no text is refused for a CTE that is in scope |
| `NoWholeRowLeaves` | no statement that runs returns a row whose columns it does not list, by a star or by a bare name, but for the alias of a parenthesised join (section 6) |
| `CapImplementsGate` | `CappedSpec => GatedSpec`, and so what precedes holds of it (`CappedReadsDeclaredTables`, with the namesake exception, `CappedStatementsAreConfined`, `CappedAnswersKeepLimits`, `CappedFlagTellsTruncation`) |
| `AnswersAreLongestPrefixes` | an answer is the longest beginning of its rows that fits the byte limit, or the first row |
| `EndpointProofs!TypeCorrect`, `EndpointTypeCorrect` | the types of `AsgiLoop` and of `Endpoint` |
| `SharedLoopRuns` | whoever returned has the published loop, and it runs |
| `LateLoopStaysOut` | a loop that timed out is never published |
| `PublishedLoopStays` | the published loop is never replaced |
| `LeakOnlyByTimeout` | only startups that raised leak a loop |
| `LoopUsedAsSpecified` | `EndpointSpec => AsgiLoop!Spec`, and so `RequestsShareRunningLoop` |
| `PoolThreadsStayClean` | no pool thread keeps a read-only connection between two tools |
| `LifespansBalance` | tools run inside their request's lifespan; no request leaves a lifespan or a body |
| `PublicProofs!TypeCorrect`, `ClientsTypeCorrect` | the types of `Throttle` and of `Clients` |
| `CountersAreExact` | a window's counter is what was recorded since it began |
| `WarnsOnce` | a window logs one message once it is full, none before; none at all if the reply to the increment that filled it was lost |
| `OvershootIsBounded` | check-then-record adds at most one attempt for each further worker to the threshold, beyond checks that failed open; rows exceed that by lost counts alone |
| `CodesStayDeclared` | a code goes where valid settings declared that client's callback, or to a registered client's loopback address; only a text with whitespace that a client registered is excepted (section 6) |
| `CodesFollowRelease` | once a deploy is complete, new codes go where its own release sends them, with the same exception |
| `AccessProofs!TypeCorrect` | `Spec => []TypeOK` |
| `GatesHold` | what got through the gates met each of them open since it arrived |
| `LogoutRevocation` | after a logout and its revocation, only a late-exchanged token is left |
| `RejectionRows` | `~ATOMIC_REQUESTS`: a refused bearer request left its row, or its loss was logged |
| `CohortProofs!TypeCorrect` | `Spec => []TypeOK` |
| `UsersResolveAsAssigned` | under any sequence of releases, migrates and broken-off ones, a user enters the one profile they were assigned to |
| `UnpagedNeedsRace` | an unpaged ambiguity comes of a race or a deploy |
| `EveryGainIsPaged` | who commits a gain of a profile group has paged it |
| `RolloutProofs!RolloutTypeCorrect` | `RolloutSpec => []RolloutTypeOK` |
| `ApplySyncs` | a profile an `--apply` run is through with has exactly its declared grants |
| `ReportsAreDrift` | a run without `--apply` reports the drift of every profile it did not skip |
| `RunsKeepWithin` | a run changes grants of its own profile only, within its whitelist |
| `SmokeIsRight` | the pass or the alarm of a smoke run was true of its own time, whichever statements fail, but for a membership revoked in the middle; its connection goes back fresh |

`CappedExecutorProofs` builds on `AuditProofs` and that on `ExecutorProofs`, as
the modules do; `PublicProofs` has the two parts of `MCPublic`.

Assumptions used: the ASSUMEs of the modules, which TLC evaluates in every run.
Names are distinct and limits are what `validation.py` lets through. Beyond
that: there are finitely many calls (`FiniteCalls`: `VolumeFollowsLog` counts
them) and workers; the rows a text finds are rows (`CappedAssumption`); a tree is
one (`Tree` in `SqlGate`: one root, every other node after its parent); and no
cloud client has the id of a registered client or of the host project's, and no
registered one the id of those two (`ClientsAssumption`: a cloud client's id has
a dot, a registered one's is drawn at random behind a dash). Releases
are not assumed valid: `Bootable` and `ValidCloudClients` leave out those that
are not.

*Executor.* `StatementConfined` alone is not inductive: that a statement is
confined depends on what BEGIN found, hence on how every earlier call left the
backend. The inductive invariant is `IInv == TypeOK /\ PoolInv`. `PoolInv`
says that a call holds a backend exactly in the stages from `enter` to
`rollback`; that no two hold the same one; that the *session layer* of every
backend is the login's at all times, whatever the transaction layer says; that
a free backend is fresh; and that the layer of a backend on which a statement
may run is the one its own call entered. The step proof goes action by action;
most actions touch no backend and are settled by two lemmas (one for steps that
leave the database alone, one for steps that give the backend back). The
PostgreSQL layer has lemmas of its own: SET LOCAL keeps the session layer, the
end of the transaction restores it.

*Audit.* The properties of rows and answers speak of calls that are over, and of
what was drafted several steps before. `AuditInv` says of each call what is
known at its stage (`CallInv`): one that has not executed is not in `sent`; the
draft of one that ends agrees with its result and fits how far it came
(`DraftInv`); the log has no row of it before the insert, and after it the
drafted one, or none and a gap. Of a success it says, besides, that the count
and the flag are what both caps make of the rows matched (`Capped`). That these
keep the limits is arithmetic over `EffectiveLimit` and the row fetched beyond
it (`CappedRows`). A step of one call leaves the formula of the others alone
(`OthersUntouched`), so that only its own columns are looked at. `VolumeInv`
counts the calls that are through with their row: `VolumeNeverAheadOfLog`
follows as these are among the logged ones. The refinement then needs only what
the stages say: `AuditWrites` is the trail's Log, `CountVolume` its Answer, a
failed insert its AnswerUnlogged, an escape its Fail, and all else leaves the
four abstract variables as they are.

*Gate.* A step of `GatedExecutor` is one of `Executor`'s with more conjuncts, so
the refinement is by cases. `GateInv` says that a call past the parser came
with a text for which `Rejections` is empty; it is inductive relative to
`TypeOK`, which comes through the refinement. From an empty `Rejections` the
argument goes down: no check of the sequence raises (`NothingRaised`, from the
least element of a set of at most eleven), so `CheckTables` does not, so each
table is declared or `ResolvesToCte`; and `ScopesAgree` says that the parser
sees no CTE where PostgreSQL sees none, the namesake case apart.
Nothing about how `Ancestors` is computed is used here: both sides ask it.

The converse, `CteReadsPass`, needs `ReasonInv`: only the gate's own step drafts
a row with the reason `disallowed_table`. `NoWholeRow` does look into
`Ancestors`: as parents come first, going up ends at the root and passes every
ancestor in between (`Upwards`). So every star has a SELECT above it, and the
gate wants a COUNT before the first of them; and a name that stands for the row
of a table in scope, in whichever query around, is one the gate collected. What
else a FROM clause takes rows from is a derived table or a join in parentheses,
which are the two cases the property names.

*Bytes.* `LoopInv` is the invariant of the loop in `_cap_rows`: what is kept are
the first rows, `total` is their size, and a row that was held back would have
gone over the limit behind at least one other. The loop and the sums of bytes
are recursive functions, whose equations have to be proved first (`CapExists`,
`BytesExist`). `FoundInv` ties the rows to the call: they are as many as its
query matched, and the answer has those that the loop leaves.

*Event loop.* `Inv == TypeOK /\ LockInv /\ HolderInv`. The unlocked first read
is why the lock alone does not do: `LockInv` says who is inside and that a
waiting thread is alone with an empty holder, `HolderInv` that what is
published already runs and has not timed out. `LeaksOnlyOnTimeout` and
`HolderStable` follow from steps under `Inv`.

*Throttle.* `CounterInv` says of each surface that an absent counter has nothing
counted and no message, and that a present one is the count and has its message
from THRESHOLD on: `incr` gives each worker another number, so exactly one of
them sees the threshold, or nobody if that answer is lost (`CrossedUnseen`). As
the numbers lost are below the counter, a later loss cannot be taken for that
one. For the overshoot, `CountsBounded` adds the workers in
flight to the counter: a check lets a worker in only while the counter is below
THRESHOLD, when all others together can be in flight at most
(`OneStandsAside`), and a count moves a worker from one side of the sum to the
other. `RowsAccountedFor` says where the count of an inserted row is: in the
counter, on its way there, or lost.

*Clients.* `ClientsInv` has three parts. `DeployInv`: what a worker or a migrate
holds was valid when it was released, and while a migrate runs none counts as
the last. `TableInv`: a cloud client's row is a callback that some valid
release declared for that name, the built-in client's are loopback addresses, a
registered client's is a body that registration took, joined and split
(`AsRegistered`), and of the release whose migrate runs or was the last, each entry that is
written is in its row still, as no two entries have one name. `PageInv`: the
open page of a cloud client holds a URL. A redirect is judged by the row or by
the worker's own prefix (`Admitted`). What `_redirect_under_prefix` accepts
lands under the prefix (`UnderPrefixLands`), because a path without dot
segments is its own resolution (`PlainPathStays`) and the anchored prefix is its
directory. The case that is easy to miss is a row that a release with a prefix
wrote, judged by a worker whose entry is exact: it matches the prefix itself
only, which lies under itself (`CallbackLands`).

*Access.* `IInv == TypeOK /\ RequestInv /\ RevocationInv`. `GatesHeldSinceArrival`
speaks of requests that are through; `RequestInv` says for every place on the
way which gates the history holds there, for bearer and authorize requests
apart, and that a rejection past its audit has settled its row. It is inductive
because the history only grows (`RememberGrows`) and each check adds what it
read in the same step (`OpenGate`). `RevocationInv` is `LogoutRevokes` with the
revocations that are still to come: a logout makes tokens stale and raises
`pending` in one step, and one revocation removes all that any logout left,
so nothing need be known of how many are pending.

*Endpoint.* `EndpointInv` (in `Endpoint`) has two halves: a request's lifespan
is entered exactly between two places of its coroutine, and a tool call is in
the queue or on one pool thread, never both and never on two, while its
coroutine waits for it there. The second half is what the first rests on: with
one call on two threads, the first to end would let the coroutine go on and
leave its lifespan while the other still runs.

*Profiles and pages.* Over an unbounded history of releases the invariant is
about `begun`: a group carries only codenames some begun release gave it
(`CarriedByDeclaration`), a migrate under way has provided for the profiles
behind it (`BehindMigration`), and every provisioned release is provided for
(`ProvidedFor`), which nothing takes back. `ResolvesByInv` gets the verdict of
`resolve_profile` from them by cases on how many profiles the user was assigned
to. For the pages, `ReceiverThrough` says what a receiver that is through has
read and paged.

*Grants.* `AppliedProfilesInSync` speaks of the profiles a run is through with,
and is not inductive: while the run is between its read and its transaction,
its report has to be the drift still. `RunsInv` says what a run keeps whatever
others do (`WithinWhitelist`) and what it knows while undisturbed (`InStep`):
the profiles behind it are in sync, or reported right, and the one it is about
to repair has the drift it read. A step of one run leaves `InStep` of another
alone because it disturbs it, or changes no grant.

*Smoke run.* `SmokeInv` follows the run through its three transactions: what it
has passed was noted in the history, which only grows (`WatchFacts`), so a pass
and an alarm have what they rest on; an error may come anywhere and claims
nothing; its
backend is the one `enter_readonly_session` makes of a fresh one exactly inside
a transaction, so its drift is empty and a commit or a rollback leaves it fresh
(`BackendFacts`).

Only model-checked: liveness (`CallsFinish`, `EveryCallEnds`,
`SlowToolsDelayNobody`), since fairness and ENABLED are outside the prover. What
the violation runs show are counterexamples, which need no proof. The
library's induction theorems take an operator and cannot be instantiated; where
a proof needs induction (over trees, rows, paths) it takes the least
counterexample (`LeastNat`, `LeastIndex`, from the well-foundedness of `<`).

## 5. What the models take for granted

* `cache.add` and `cache.incr` are atomic, as Redis and Memcached make them. A
  call that raises may have been applied.
* A redirect in the settings is one URL: `validation.py` does not look for
  whitespace in it any more than registration does in its own (section 6).
* A FROM clause takes rows from tables, derived tables and joins; a function in
  it is a table without a name, VALUES and UNNEST are left out. A qualified name is a
  column's: PostgreSQL's `t.t` for a row is not modelled.
* The pool lends a backend to one transaction at a time (PgBouncer's
  transaction mode, or no pool, which is a special case).
* Transactions on `default` are READ COMMITTED. A single query is one read.
* A `get_or_create`, an `update_or_create`, a `permissions.add` is one step: the
  statements of one of them are not taken apart.
* One migrate runs at a time, as deployments have it.
* The consent page, the exchange and the remembered approval are
  oauth2_provider's, as `views/oauth_authorize.py` uses them; a browser
  resolves dot segments that are plain or percent-encoded once.
* `authenticate` of oauth2_provider reads token, application and user at once,
  and `user.is_active`/`is_staff` are those of this read.
* `/o/token/` asks the code's client and no gate of ours; refresh tokens are
  not usable, as docs/architecture.md:336 has it.
* Django's handlers turn an escaping exception into a 500 and roll an
  ATOMIC_REQUESTS transaction back; REST framework's `exception_handler` calls
  `set_rollback()` for every `APIException`.
* A process may die at any step of `Logout`'s callback; elsewhere a crash is
  the same as a call that takes no further step.

## 6. Where the code and its documents differ

Each of these is a run that TLC must find violated; `PROJECT.json` quotes the
lines on both sides.

| Run | Documented | The code |
|---|---|---|
| ExecutorAudited | every code path writes exactly one row | an unresolvable whitelist entry, a tokenizer error and a `ValueError` of `fetchall` leave without one |
| ExecutorReadOnly | `default_transaction_read_only` enforces | set after BEGIN, it does not reach the running transaction |
| ThrottleFailOpen | fails open when the cache is away | only for the builtin `ConnectionError` and `ValueError` |
| AccessRows | the rejection row commits with the 401 | it is rolled back with it under ATOMIC_REQUESTS |
| CohortAmbiguity | an ambiguity is paged when it arises | not when it arises from two overlapping transactions |

What *does* hold beside each is stated and checked too: `AuditTrailImplemented`
(at most one row, before the answer, agreeing with it), `PooledBackendsClean`,
`OvershootBounded`, `RejectionsLogged` without ATOMIC_REQUESTS,
`UnpagedOnlyByRace`.

Smaller ones were met on the way and have no run of their own. "References that
resolve to an IN-SCOPE CTE are skipped" (`parser.py:617`), but
`_resolves_to_cte` has no order among the CTEs of one WITH and looks at the
bare name: a table in the body of the CTE of its own name or of an earlier one,
or written with its schema, counts as a reference to the CTE, while PostgreSQL
reads the table. `ReadsDeclaredTables` names this exception
(`OutOfScopeNamesake`); the grants of the role decide there. The docstring of
`ExecutorMisconfiguredError` (`executor.py:53`) names the reason
`execution_error`; the row says `misconfigured`. A name that returns a whole row is looked for
among the names of tables (`parser.py:434`). The alias of a join in parentheses
is not one of them (`SELECT j FROM (a JOIN b ON ...) j`), nor is that of a
derived table; the latter's columns are listed in it, the former's nowhere:
`NoWholeRow` names the exception (`UncollectedAlias`). What leaves are columns of
whitelisted tables still. "Exactly one operator WARNING at the
threshold-crossing transition" (`throttle.py:66`) is logged by the worker that
gets the threshold as its answer: when the cache applies that increment and the
answer is lost, the block engages silently, as `observability.py:58` says of the
same code; `OneWarningPerWindow` states both. Registration sees to it that "a registered
redirect URI is exactly scheme + host + port + path with nothing to smuggle"
(`views/registration.py:54`), but a redirect with whitespace is judged as one
URL (`views/registration.py:45`), joined with the others by spaces
(`views/registration.py:195`) and taken apart there by the toolkit, so that the
row has redirects nobody judged; `CodesGoWhereDeclared` and
`NewCodesFollowRelease` except the clients that registered such a text, and let
their codes go to its words only (`SplitOff`). Registration is said to bound
rows to `threshold` (`views/registration.py:165`); `RowGrowthBounded` states
the bound there is, one more row for each further worker. A logout is said to
end MCP access with the next request (`docs/architecture.md:339`);
`LogoutRevokes` has to except tokens whose code was granted before the logout
and exchanged after the revocation. `_cap_cell` cuts a text that is longer than
4096 bytes to 4096 characters (`executor.py:584`), not to "4 KiB";
`ResultCap` models the cut as it is made. Nothing takes a permission from a
group (`signals.py:158`): when `GROUP_NAME` or `PERMISSION_CODENAME` of a
profile changes, the old group keeps the old codename, and a later release that
gives either another meaning finds both on one group and refuses its members as
ambiguous; `ResolvesAsAssigned` excepts releases that disagree (`Agree`). The
smoke run takes any error with code 42501 for the refusal it waits for
(`mcp_sql_smoke.py:20`), also that of a SET ROLE by a login whose membership
was revoked since the first check; `SmokeTellsTruth` states that gap. An error of
the smoke run, other than its two alarms, tells nothing of the grants: every
statement of it also ends with lock and statement timeouts and lost connections,
a SELECT with a table that is not there, the INSERT with a view that takes none
or a NOT NULL column. The last is called "a security boundary breach"
(`mcp_sql_smoke.py:277`) along with all other codes; some of these come before
PostgreSQL asks for the privilege.

## 7. What is not modelled

* sqlglot: how a text becomes a tree is taken as given.
* FastMCP, a2wsgi and the toolkit's own views, beyond what the code relies on.
* Fencing, discovery documents, the wiring of decorators and URLs, and the database
  router: they render or look up, and keep no state. (`normalize_content_length`
  of `decorators.py` is part of `Clients`' registration.)
* The admin pages: read-only lists over the log and a usage summary.
* The lint command: it reads source files. `mcp_sql_smoke --run-query` is one
  call of `Executor`.
* Schema migrations, run once in order by Django, and the example project.
* Of validation, what checks types, alert thresholds and dotted paths; the
  per-process cache of settings, which lives as long as the worker that
  `Restart` and `Boot` replace.
* The columns and the retention of the two log tables.
* Texts of errors, hints and log messages.

## 8. Plan

Done, in this order: `Limits`, `PgSession`, `Executor` with `AuditTrail`;
`Throttle`; `AsgiLoop`; `Access`; `Cohort`; `Grants`; `SqlGate` and
`GatedExecutor`; `Endpoint`; `ResultCap` and `CappedExecutor`; `Clients`;
`Provisioning`; `Rollout`; and the proofs of section 4.

Next, most important first:

1. `Access` with `Provisioning`: the permission gate over what a migrate has
   provisioned, in place of a profile per user, and the two proofs joined.
2. Two users in `Clients`, to join it with `Access`' consent and exchange.
3. An abstract specification of the throttle, a window that admits a bounded
   number of attempts, which `Throttle` implements.
