------------------------------ MODULE Throttle ------------------------------
(***************************************************************************)
(* The fixed-window counters in the shared Django cache, and the surfaces  *)
(* that use them:                                                          *)
(*   bad_token  auth.authenticate: check the IP, look the token up, count  *)
(*              a failed lookup;                                           *)
(*   register   register_client: check the IP, insert the Application row, *)
(*              count the registration;                                    *)
(*   volume     record_query_volume: count an audited query, no check.     *)
(* One client IP (one user, decision and window for `volume`) is modelled: *)
(* others have keys of their own.  Requests are served by Workers; every   *)
(* cache call is one round trip, and other workers run between them.  A    *)
(* call that raises may have been applied: what was lost is then the reply.*)
(***************************************************************************)
EXTENDS Integers, FiniteSets

CONSTANTS
    Workers,        \* request threads over all processes
    Scopes,         \* the surfaces in use
    THRESHOLD,      \* BAD_TOKEN_IP_THRESHOLD, or a VOLUME_ALERT_THRESHOLDS entry
    CacheErrors,    \* exception classes an unavailable cache raises
    MaxRequests,    \* bound: requests served
    MaxExpiries,    \* bound: windows that run out
    Absent          \* no entry under a key

ASSUME ThrottleAssumption ==
    /\ IsFiniteSet(Workers)
    /\ Scopes \subseteq {"bad_token", "register", "volume"}
    /\ THRESHOLD \in Nat \ {0}
    /\ MaxRequests \in Nat
    /\ MaxExpiries \in Nat
    /\ Absent \notin Nat

\* What is_ip_blocked, record_attempt and record_query_volume catch
CaughtErrors == {"ConnectionError", "ValueError"}

\* The surfaces that check the counter before they work.
Guarded == {"bad_token", "register"}

VARIABLES
    at,          \* what each worker is doing
    scope,       \* on which surface
    cache,       \* the counter under each key, or Absent
    rows,        \* Application rows inserted since the last expiry
    warnings,    \* threshold messages logged since the last expiry
    counted,     \* attempts counted since the last expiry, per scope
    failedOpen,  \* checks that failed open since the last expiry, per scope
    lost,        \* attempts whose count was lost since the last expiry, per scope
    unanswered,  \* counts whose reply was lost since the last expiry, per scope
    served,      \* requests started
    expiries     \* windows that ran out

vars == <<at, scope, cache, rows, warnings, counted, failedOpen, lost, unanswered, served,
          expiries>>

history == <<rows, warnings, counted, failedOpen, lost, unanswered>>

Stages == {"idle", "check", "act", "add", "incr", "error"}

\* Mutant: one key for every scope.
SharedKey(s) == CHOOSE t \in Scopes : TRUE

\* _ip_key, _volume_key
Key(s) == s

Count(k) == IF cache[k] = Absent THEN 0 ELSE cache[k]

Goto(w, place) == at' = [at EXCEPT ![w] = place]

Init ==
    /\ at         = [w \in Workers |-> "idle"]
    /\ scope      \in [Workers -> Scopes]
    /\ cache      = [s \in Scopes |-> Absent]
    /\ rows       = 0
    /\ warnings   = [s \in Scopes |-> 0]
    /\ counted    = [s \in Scopes |-> 0]
    /\ failedOpen = [s \in Scopes |-> 0]
    /\ lost       = [s \in Scopes |-> 0]
    /\ unanswered = [s \in Scopes |-> {}]
    /\ served     = 0
    /\ expiries   = 0

-----------------------------------------------------------------------------

\* A request arrives at one of the surfaces.
Arrive(w, s) ==
    /\ at[w] = "idle"
    /\ served < MaxRequests
    /\ served' = served + 1
    /\ scope' = [scope EXCEPT ![w] = s]
    /\ Goto(w, IF s \in Guarded THEN "check" ELSE "add")
    /\ UNCHANGED <<cache, history, expiries>>

\* Mutant: the block engages one attempt late.
CheckLate(w) ==
    /\ at[w] = "check"
    /\ Goto(w, IF Count(Key(scope[w])) > THRESHOLD THEN "idle" ELSE "act")
    /\ UNCHANGED <<scope, cache, history, served, expiries>>

\* is_ip_blocked: a blocked request gets the silent 401 or the inert 201.
Check(w) ==
    /\ at[w] = "check"
    /\ Goto(w, IF Count(Key(scope[w])) >= THRESHOLD THEN "idle" ELSE "act")
    /\ UNCHANGED <<scope, cache, history, served, expiries>>

\* The GET raises: a class the code catches fails open, another is a 500.
CheckFails(w, error) ==
    /\ at[w] = "check"
    /\ IF error \in CaughtErrors
       THEN /\ Goto(w, "act")
            /\ failedOpen' = [failedOpen EXCEPT ![scope[w]] = @ + 1]
       ELSE Goto(w, "error") /\ UNCHANGED failedOpen
    /\ UNCHANGED <<scope, cache, rows, warnings, counted, lost, unanswered, served, expiries>>

\* Mutant: registrations are not recorded.
InsertUnrecorded(w) ==
    /\ at[w] = "act"
    /\ scope[w] = "register"
    /\ rows' = rows + 1
    /\ Goto(w, "idle")
    /\ UNCHANGED <<scope, cache, warnings, counted, failedOpen, lost, unanswered, served, expiries>>

\* Application.objects.create
InsertApplication(w) ==
    /\ at[w] = "act"
    /\ scope[w] = "register"
    /\ rows' = rows + 1
    /\ Goto(w, "add")
    /\ UNCHANGED <<scope, cache, warnings, counted, failedOpen, lost, unanswered, served, expiries>>

\* The bearer token is looked up; only a failed lookup is an attempt.
LookUpToken(w) ==
    /\ at[w] = "act"
    /\ scope[w] = "bad_token"
    /\ Goto(w, "add") \/ Goto(w, "idle")
    /\ UNCHANGED <<scope, cache, history, served, expiries>>

\* Mutant: the seed is one too low.
SeedMinusOne(w) ==
    /\ at[w] = "add"
    /\ cache' = [cache EXCEPT ![Key(scope[w])] = IF @ = Absent THEN -1 ELSE @]
    /\ Goto(w, "incr")
    /\ UNCHANGED <<scope, history, served, expiries>>

\* Mutant: cache.set instead of cache.add.
SeedOverwrites(w) ==
    /\ at[w] = "add"
    /\ cache' = [cache EXCEPT ![Key(scope[w])] = 0]
    /\ Goto(w, "incr")
    /\ UNCHANGED <<scope, history, served, expiries>>

\* cache.add(key, 0, timeout=window): sets the key only if it is absent
Seed(w) ==
    /\ at[w] = "add"
    /\ cache' = [cache EXCEPT ![Key(scope[w])] = Count(Key(scope[w]))]
    /\ Goto(w, "incr")
    /\ UNCHANGED <<scope, history, served, expiries>>

\* cache.incr(key), and the message when the count is the threshold
Incr(w) ==
    LET k == Key(scope[w])
    IN  /\ at[w] = "incr"
        /\ cache[k] # Absent
        /\ cache'   = [cache EXCEPT ![k] = @ + 1]
        /\ counted' = [counted EXCEPT ![scope[w]] = @ + 1]
        /\ warnings' = IF cache[k] + 1 = THRESHOLD
                       THEN [warnings EXCEPT ![scope[w]] = @ + 1]
                       ELSE warnings
        /\ Goto(w, "idle")
        /\ UNCHANGED <<scope, rows, failedOpen, lost, unanswered, served, expiries>>

\* The exception is caught; _audit_safely swallows what the volume counter raises.
Escape(w, error) ==
    Goto(w, IF error \in CaughtErrors \/ scope[w] = "volume" THEN "idle" ELSE "error")

\* The attempt is not counted.
Lose(w, error) ==
    /\ Escape(w, error)
    /\ lost' = [lost EXCEPT ![scope[w]] = @ + 1]
    /\ UNCHANGED <<scope, rows, warnings, counted, failedOpen, unanswered, served, expiries>>

\* The key ran out between add and incr, and incr raises ValueError.
IncrMisses(w) ==
    /\ at[w] = "incr"
    /\ cache[Key(scope[w])] = Absent
    /\ Lose(w, "ValueError")
    /\ UNCHANGED cache

\* The cache is not reachable for the add or for the incr.
RecordFails(w, error) ==
    /\ at[w] \in {"add", "incr"}
    /\ Lose(w, error)
    /\ UNCHANGED cache

\* The cache applies the add, and the reply does not come: no incr follows.
SeedUnanswered(w, error) ==
    /\ at[w] = "add"
    /\ cache' = [cache EXCEPT ![Key(scope[w])] = Count(Key(scope[w]))]
    /\ Lose(w, error)

\* The cache applies the incr, and the reply does not come: the attempt is
\* counted, and nobody compares the count with the threshold.
IncrUnanswered(w, error) ==
    LET k == Key(scope[w])
    IN  /\ at[w] = "incr"
        /\ cache[k] # Absent
        /\ cache'      = [cache EXCEPT ![k] = @ + 1]
        /\ counted'    = [counted EXCEPT ![scope[w]] = @ + 1]
        /\ unanswered' = [unanswered EXCEPT ![scope[w]] = @ \cup {cache[k] + 1}]
        /\ Escape(w, error)
        /\ UNCHANGED <<scope, rows, warnings, failedOpen, lost, served, expiries>>

\* Django turns the escaped exception into a 500.
Respond500(w) ==
    /\ at[w] = "error"
    /\ Goto(w, "idle")
    /\ UNCHANGED <<scope, cache, history, served, expiries>>

\* The window, fixed by the first attempt, runs out.
Expire(s) ==
    /\ expiries < MaxExpiries
    /\ cache[s] # Absent
    /\ cache'      = [cache EXCEPT ![s] = Absent]
    /\ rows'       = IF s = "register" THEN 0 ELSE rows
    /\ warnings'   = [warnings EXCEPT ![s] = 0]
    /\ counted'    = [counted EXCEPT ![s] = 0]
    /\ failedOpen' = [failedOpen EXCEPT ![s] = 0]
    /\ lost'       = [lost EXCEPT ![s] = 0]
    /\ unanswered' = [unanswered EXCEPT ![s] = {}]
    /\ expiries'   = expiries + 1
    /\ UNCHANGED <<at, scope, served>>

Work(w) ==
    \/ Respond500(w)
    \/ Check(w) \/ InsertApplication(w) \/ LookUpToken(w)
    \/ Seed(w)  \/ Incr(w) \/ IncrMisses(w)
    \/ \E error \in CacheErrors : \/ CheckFails(w, error)     \/ RecordFails(w, error)
                                 \/ SeedUnanswered(w, error) \/ IncrUnanswered(w, error)

\* The bounds are used up.
Quiet ==
    /\ served = MaxRequests
    /\ \A w \in Workers : at[w] = "idle"
    /\ UNCHANGED vars

Next ==
    \/ \E w \in Workers : Work(w) \/ \E s \in Scopes : Arrive(w, s)
    \/ \E s \in Scopes : Expire(s)
    \/ Quiet

Spec == Init /\ [][Next]_vars

-----------------------------------------------------------------------------
(* Properties *)

\* Every variable has its type.
TypeOK ==
    /\ at         \in [Workers -> Stages]
    /\ scope      \in [Workers -> Scopes]
    /\ cache      \in [Scopes -> Nat \cup {Absent}]
    /\ rows       \in Nat
    /\ warnings   \in [Scopes -> Nat]
    /\ counted    \in [Scopes -> Nat]
    /\ failedOpen \in [Scopes -> Nat]
    /\ lost       \in [Scopes -> Nat]
    /\ unanswered \in [Scopes -> SUBSET Nat]
    /\ served     \in Nat
    /\ expiries   \in Nat

\* No attempt is counted twice, dropped by a racing seed, or counted on another
\* surface: the counter of a running window is the number of attempts recorded
\* on its surface since it began (cache.add, then cache.incr).
CounterExact ==
    \A s \in Scopes : cache[s] # Absent => cache[s] = counted[s]

\* The increment to THRESHOLD was applied and its reply was lost.
CrossedUnseen(s) == THRESHOLD \in unanswered[s]

\* "exactly one operator WARNING at the threshold-crossing transition": a
\* window that has reached THRESHOLD has logged one message, however the workers
\* interleave and whatever calls failed before or after; it has logged none if
\* the reply to the very increment that reached it was lost ("a Redis blip can
\* ... skip the exact-equality alert", observability.py:58).  Below THRESHOLD
\* nothing is logged.
OneWarningPerWindow ==
    \A s \in Scopes : cache[s] # Absent =>
        warnings[s] = IF cache[s] >= THRESHOLD /\ ~CrossedUnseen(s) THEN 1 ELSE 0

\* Past the check, and not yet recorded
InFlight(s) == {w \in Workers : scope[w] = s /\ at[w] \in {"act", "add", "incr"}}

CountsBounded ==
    \A s \in Scopes \cap Guarded :
        Count(s) + Cardinality(InFlight(s)) + 1
            <= THRESHOLD + Cardinality(Workers) + failedOpen[s]

RowGrowthBounded ==
    "register" \in Scopes =>
        rows + 1 <= THRESHOLD + Cardinality(Workers)
                      + failedOpen["register"] + lost["register"]

\* How far check-then-record can overshoot: in one window a guarded surface
\* records at most THRESHOLD attempts and one for each further worker, however
\* many requests arrive; only checks that failed open come on top.  "Bounding row
\* growth to `threshold` per IP per window" (views/registration.py:165) holds as
\* far: one row more for each further worker, and the rows whose check or count
\* the cache lost.
OvershootBounded == CountsBounded /\ RowGrowthBounded

-----------------------------------------------------------------------------
(* What the repository says and the code does not do *)

\* "Fail-open on Redis trouble: a cache outage returns False so a blip cannot
\* accidentally lock everyone out" (throttle.py:49): no request ends in an
\* error because the cache is unreachable.
FailsOpen == \A w \in Workers : at[w] # "error"
=============================================================================
