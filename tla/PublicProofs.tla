---------------------------- MODULE PublicProofs ----------------------------
(***************************************************************************)
(* Proofs about the public endpoints: the counters in the shared cache,    *)
(* for any number of workers and requests, any threshold and any errors of *)
(* the cache; and the OAuth clients, for any number of workers, releases   *)
(* and requests, and any URLs.                                             *)
(***************************************************************************)
EXTENDS Throttle, Clients, FiniteSetTheorems, SequenceTheorems, WellFoundedInduction, TLAPS

-----------------------------------------------------------------------------
(* The throttle: types *)

LEMMA GotoType ==
    ASSUME TypeOK, NEW w \in Workers, NEW place \in Stages, Goto(w, place)
    PROVE  at' \in [Workers -> Stages]
BY DEF TypeOK, Goto

LEMMA CountType ==
    ASSUME TypeOK, NEW s \in Scopes
    PROVE  Count(s) \in Nat
BY DEF TypeOK, Count

LEMMA InitType == Init => TypeOK
BY DEF Init, TypeOK, Stages

LEMMA EscapeType ==
    ASSUME TypeOK, NEW w \in Workers, NEW error, Escape(w, error)
    PROVE  at' \in [Workers -> Stages]
BY GotoType DEF Escape, Stages

LEMMA LoseType ==
    ASSUME TypeOK, NEW w \in Workers, NEW error, Lose(w, error),
           cache' \in [Scopes -> Nat \cup {Absent}]
    PROVE  TypeOK'
<1>1. at' \in [Workers -> Stages]
  BY EscapeType DEF Lose
<1>2. lost' \in [Scopes -> Nat]
  BY DEF Lose, TypeOK
<1> QED
  BY <1>1, <1>2 DEF Lose, TypeOK

\* What cache.add leaves is a counter.
LEMMA SeedType ==
    ASSUME TypeOK, NEW w \in Workers,
           cache' = [cache EXCEPT ![Key(scope[w])] = Count(Key(scope[w]))]
    PROVE  cache' \in [Scopes -> Nat \cup {Absent}]
<1>1. Count(Key(scope[w])) \in Nat
  BY CountType DEF Key, TypeOK
<1> QED
  BY <1>1 DEF TypeOK

\* ... and what cache.incr leaves.
LEMMA IncrType ==
    ASSUME TypeOK, NEW w \in Workers, cache[Key(scope[w])] # Absent,
           cache' = [cache EXCEPT ![Key(scope[w])] = @ + 1]
    PROVE  /\ scope[w] \in Scopes /\ cache[scope[w]] \in Nat
           /\ cache' \in [Scopes -> Nat \cup {Absent}]
<1>1. scope[w] \in Scopes /\ cache[scope[w]] \in Nat
  BY DEF TypeOK, Key
<1> QED
  BY <1>1 DEF TypeOK, Key

LEMMA NextType == TypeOK /\ [Next]_vars => TypeOK'
<1> SUFFICES ASSUME TypeOK, [Next]_vars PROVE TypeOK'
  OBVIOUS
<1> USE DEF history
<1>1. ASSUME NEW w \in Workers, NEW s \in Scopes, Arrive(w, s) PROVE TypeOK'
  <2>1. at' \in [Workers -> Stages]
    BY <1>1, GotoType DEF Arrive, Stages
  <2>2. scope' \in [Workers -> Scopes] /\ served' \in Nat /\ UNCHANGED <<cache, history, expiries>>
    BY <1>1 DEF Arrive, TypeOK
  <2> QED
    BY <2>1, <2>2 DEF TypeOK
<1>2. ASSUME NEW w \in Workers, Check(w) \/ LookUpToken(w) \/ Respond500(w) PROVE TypeOK'
  <2>1. at' \in [Workers -> Stages]
    BY <1>2, GotoType DEF Check, LookUpToken, Respond500, Stages
  <2> QED
    BY <1>2, <2>1 DEF Check, LookUpToken, Respond500, TypeOK
<1>3. ASSUME NEW w \in Workers, NEW error, CheckFails(w, error) PROVE TypeOK'
  <2>1. at' \in [Workers -> Stages]
    BY <1>3, GotoType DEF CheckFails, Stages
  <2> QED
    BY <1>3, <2>1 DEF CheckFails, TypeOK
<1>4. ASSUME NEW w \in Workers, InsertApplication(w) PROVE TypeOK'
  <2>1. at' \in [Workers -> Stages]
    BY <1>4, GotoType DEF InsertApplication, Stages
  <2> QED
    BY <1>4, <2>1 DEF InsertApplication, TypeOK
<1>5. ASSUME NEW w \in Workers, Seed(w) PROVE TypeOK'
  <2>1. at' \in [Workers -> Stages]
    BY <1>5, GotoType DEF Seed, Stages
  <2>2. cache' \in [Scopes -> Nat \cup {Absent}]
    BY <1>5, SeedType DEF Seed
  <2> QED
    BY <1>5, <2>1, <2>2 DEF Seed, TypeOK
<1>6. ASSUME NEW w \in Workers, Incr(w) PROVE TypeOK'
  <2>1. at' \in [Workers -> Stages]
    BY <1>6, GotoType DEF Incr, Stages
  <2>2. scope[w] \in Scopes /\ cache[scope[w]] \in Nat
    BY <1>6, IncrType DEF Incr
  <2>3. cache' \in [Scopes -> Nat \cup {Absent}]
    BY <1>6, IncrType DEF Incr
  <2>4. counted' \in [Scopes -> Nat] /\ warnings' \in [Scopes -> Nat]
    BY <1>6, <2>2 DEF Incr, TypeOK
  <2> QED
    BY <1>6, <2>1, <2>3, <2>4 DEF Incr, TypeOK
<1>7. ASSUME NEW w \in Workers, NEW error, IncrMisses(w) \/ RecordFails(w, error) PROVE TypeOK'
  <2>1. cache' \in [Scopes -> Nat \cup {Absent}]
    BY <1>7 DEF IncrMisses, RecordFails, TypeOK
  <2> QED
    BY <1>7, <2>1, LoseType DEF IncrMisses, RecordFails
<1>8. ASSUME NEW w \in Workers, NEW error, SeedUnanswered(w, error) PROVE TypeOK'
  BY <1>8, SeedType, LoseType DEF SeedUnanswered
<1>9. ASSUME NEW w \in Workers, NEW error, IncrUnanswered(w, error) PROVE TypeOK'
  <2>1. at' \in [Workers -> Stages]
    BY <1>9, EscapeType DEF IncrUnanswered
  <2>2. scope[w] \in Scopes /\ cache[scope[w]] \in Nat
    BY <1>9, IncrType DEF IncrUnanswered
  <2>3. cache' \in [Scopes -> Nat \cup {Absent}]
    BY <1>9, IncrType DEF IncrUnanswered
  <2>4. counted' \in [Scopes -> Nat]
    BY <1>9, <2>2 DEF IncrUnanswered, TypeOK
  <2>5. unanswered' \in [Scopes -> SUBSET Nat]
    BY <1>9, <2>2 DEF IncrUnanswered, TypeOK, Key
  <2> QED
    BY <1>9, <2>1, <2>3, <2>4, <2>5 DEF IncrUnanswered, TypeOK
<1>10. ASSUME NEW s \in Scopes, Expire(s) PROVE TypeOK'
  BY <1>10 DEF Expire, TypeOK
<1>11. CASE UNCHANGED vars
  BY <1>11 DEF vars, TypeOK
<1> QED
  BY <1>1, <1>2, <1>3, <1>4, <1>5, <1>6, <1>7, <1>8, <1>9, <1>10, <1>11 DEF Next, Work, Quiet

\* Every variable keeps its type.
THEOREM TypeCorrect == Spec => []TypeOK
BY InitType, NextType, PTL DEF Spec

-----------------------------------------------------------------------------
(* The counter and the warnings of a window *)

\* Between windows nothing is counted and no message is logged; no count beyond
\* the counter has been reached, answered or not.
CounterInv ==
    \A s \in Scopes :
        IF cache[s] = Absent
        THEN counted[s] = 0 /\ warnings[s] = 0 /\ unanswered[s] = {}
        ELSE /\ cache[s] = counted[s]
             /\ \A n \in unanswered[s] : n <= cache[s]
             /\ warnings[s] = IF cache[s] >= THRESHOLD /\ ~CrossedUnseen(s) THEN 1 ELSE 0

\* cache.add changes no counter that is running.
LEMMA SeedKeepsCounter ==
    ASSUME TypeOK, CounterInv, NEW w \in Workers,
           cache' = [cache EXCEPT ![scope[w]] = Count(scope[w])],
           UNCHANGED <<counted, warnings, unanswered>>
    PROVE  CounterInv'
<1>1. scope[w] \in Scopes
  BY DEF TypeOK
<1>2. CASE cache[scope[w]] = Absent
  <2>1. cache' = [cache EXCEPT ![scope[w]] = 0]
    BY <1>2 DEF Count
  <2>2. /\ cache'[scope[w]] = 0 /\ 0 # Absent /\ ~(0 >= THRESHOLD)
        /\ \A s \in Scopes \ {scope[w]} : cache'[s] = cache[s]
    BY <1>1, <2>1, ThrottleAssumption DEF TypeOK
  <2> QED
    BY <1>1, <1>2, <2>2 DEF CounterInv, CrossedUnseen
<1>3. CASE cache[scope[w]] # Absent
  <2>1. cache' = cache
    BY <1>1, <1>3 DEF Count, TypeOK
  <2> QED
    BY <2>1 DEF CounterInv, CrossedUnseen
<1> QED
  BY <1>2, <1>3

\* One more is counted: the message is logged, or the reply is lost.
LEMMA IncrKeepsCounter ==
    ASSUME TypeOK, CounterInv, NEW k \in Scopes, cache[k] # Absent,
           cache' = [cache EXCEPT ![k] = cache[k] + 1],
           counted' = [counted EXCEPT ![k] = counted[k] + 1],
           \/ /\ warnings' = IF cache[k] + 1 = THRESHOLD
                             THEN [warnings EXCEPT ![k] = warnings[k] + 1] ELSE warnings
              /\ UNCHANGED unanswered
           \/ /\ unanswered' = [unanswered EXCEPT ![k] = unanswered[k] \cup {cache[k] + 1}]
              /\ UNCHANGED warnings
    PROVE  CounterInv'
<1>1. cache[k] \in Nat /\ warnings[k] \in Nat /\ unanswered[k] \subseteq Nat
  BY DEF TypeOK
<1>2. /\ cache'[k] = cache[k] + 1 /\ counted'[k] = counted[k] + 1
      /\ \A s \in Scopes \ {k} : /\ cache'[s] = cache[s] /\ counted'[s] = counted[s]
                                 /\ warnings'[s] = warnings[s]
                                 /\ unanswered'[s] = unanswered[s]
  BY DEF TypeOK
<1>3. \/ /\ warnings'[k] = IF cache[k] + 1 = THRESHOLD THEN warnings[k] + 1 ELSE warnings[k]
         /\ unanswered'[k] = unanswered[k]
      \/ /\ unanswered'[k] = unanswered[k] \cup {cache[k] + 1}
         /\ warnings'[k] = warnings[k]
  BY DEF TypeOK
<1>4. /\ cache[k] = counted[k] /\ \A n \in unanswered[k] : n <= cache[k]
      /\ warnings[k] = IF cache[k] >= THRESHOLD /\ ~CrossedUnseen(k) THEN 1 ELSE 0
  BY DEF CounterInv
<1>5. cache'[k] # Absent /\ cache'[k] = counted'[k]
  BY <1>1, <1>2, <1>4, ThrottleAssumption
<1>6. \A n \in unanswered'[k] : n <= cache'[k]
  BY <1>1, <1>2, <1>3, <1>4
<1>7. warnings'[k] = IF cache'[k] >= THRESHOLD /\ ~CrossedUnseen(k)' THEN 1 ELSE 0
  <2>1. CASE cache[k] + 1 = THRESHOLD
    <3>1. THRESHOLD \notin unanswered[k] /\ warnings[k] = 0 /\ cache'[k] >= THRESHOLD
      BY <1>1, <1>2, <1>4, <2>1, ThrottleAssumption
    <3> QED
      BY <1>3, <2>1, <3>1 DEF CrossedUnseen
  <2>2. CASE cache[k] + 1 # THRESHOLD
    <3>1. warnings'[k] = warnings[k] /\ (CrossedUnseen(k)' <=> CrossedUnseen(k))
      BY <1>3, <2>2 DEF CrossedUnseen
    <3>2. cache'[k] >= THRESHOLD <=> cache[k] >= THRESHOLD
      BY <1>1, <1>2, <2>2, ThrottleAssumption
    <3> QED
      BY <1>4, <3>1, <3>2
  <2> QED
    BY <2>1, <2>2
<1>8. ASSUME NEW s \in Scopes \ {k}
      PROVE  IF cache'[s] = Absent
             THEN counted'[s] = 0 /\ warnings'[s] = 0 /\ unanswered'[s] = {}
             ELSE /\ cache'[s] = counted'[s]
                  /\ \A n \in unanswered'[s] : n <= cache'[s]
                  /\ warnings'[s] =
                       IF cache'[s] >= THRESHOLD /\ ~CrossedUnseen(s)' THEN 1 ELSE 0
  BY <1>2 DEF CounterInv, CrossedUnseen
<1> QED
  BY <1>5, <1>6, <1>7, <1>8 DEF CounterInv

LEMMA NextCounter == TypeOK /\ CounterInv /\ [Next]_vars => CounterInv'
<1> SUFFICES ASSUME TypeOK, CounterInv, [Next]_vars PROVE CounterInv'
  OBVIOUS
<1> USE DEF history, Key
<1>1. ASSUME UNCHANGED <<cache, counted, warnings, unanswered>> PROVE CounterInv'
  BY <1>1 DEF CounterInv, CrossedUnseen
<1>2. ASSUME NEW w \in Workers, NEW s \in Scopes, Arrive(w, s) PROVE CounterInv'
  BY <1>1, <1>2 DEF Arrive
<1>3. ASSUME NEW w \in Workers, NEW error,
             \/ Check(w) \/ LookUpToken(w) \/ Respond500(w) \/ InsertApplication(w)
             \/ CheckFails(w, error) \/ IncrMisses(w) \/ RecordFails(w, error)
      PROVE  CounterInv'
  BY <1>1, <1>3 DEF Check, LookUpToken, Respond500, InsertApplication, CheckFails,
                    IncrMisses, RecordFails, Lose
<1>4. ASSUME NEW w \in Workers, NEW error, Seed(w) \/ SeedUnanswered(w, error)
      PROVE  CounterInv'
  <2>1. /\ cache' = [cache EXCEPT ![scope[w]] = Count(scope[w])]
        /\ UNCHANGED <<counted, warnings, unanswered>>
    BY <1>4 DEF Seed, SeedUnanswered, Lose
  <2> QED
    BY <2>1, SeedKeepsCounter
<1>5. ASSUME NEW w \in Workers, NEW error, Incr(w) \/ IncrUnanswered(w, error)
      PROVE  CounterInv'
  <2>1. scope[w] \in Scopes /\ cache[scope[w]] # Absent
    BY <1>5 DEF Incr, IncrUnanswered, TypeOK
  <2>2. /\ cache' = [cache EXCEPT ![scope[w]] = cache[scope[w]] + 1]
        /\ counted' = [counted EXCEPT ![scope[w]] = counted[scope[w]] + 1]
    BY <1>5 DEF Incr, IncrUnanswered
  <2>3. CASE Incr(w)
    BY <2>1, <2>2, <2>3, IncrKeepsCounter DEF Incr
  <2>4. CASE IncrUnanswered(w, error)
    BY <2>1, <2>2, <2>4, IncrKeepsCounter DEF IncrUnanswered
  <2> QED
    BY <1>5, <2>3, <2>4
<1>6. ASSUME NEW s \in Scopes, Expire(s) PROVE CounterInv'
  BY <1>6 DEF Expire, TypeOK, CounterInv, CrossedUnseen
<1>7. CASE UNCHANGED vars
  BY <1>1, <1>7 DEF vars
<1> QED
  BY <1>2, <1>3, <1>4, <1>5, <1>6, <1>7 DEF Next, Work, Quiet

LEMMA CounterInvHolds == Spec => []CounterInv
<1>1. Init => CounterInv
  BY DEF Init, CounterInv
<1> QED
  BY <1>1, NextCounter, TypeCorrect, PTL DEF Spec

\* However seeds, counts and expiries interleave, the counter of a running
\* window is what was recorded since it began.
THEOREM CountersAreExact == Spec => []CounterExact
<1>1. CounterInv => CounterExact
  BY DEF CounterInv, CounterExact
<1> QED
  BY <1>1, CounterInvHolds, PTL

\* A window that reaches the threshold logs its message once, however many
\* workers count at the same time and whatever calls to the cache fail; it logs
\* none if the reply to the increment that reached it was lost.
THEOREM WarnsOnce == Spec => []OneWarningPerWindow
<1>1. CounterInv => OneWarningPerWindow
  BY DEF CounterInv, OneWarningPerWindow
<1> QED
  BY <1>1, CounterInvHolds, PTL

-----------------------------------------------------------------------------
(* How far check-then-record overshoots *)

\* The workers that insert no more and have not recorded their attempt on s
Recording(s) == {w \in Workers : scope[w] = s /\ at[w] \in {"add", "incr"}}

\* A row is on its way to the counter, in it, or its count is lost.
RowsAccountedFor ==
    "register" \in Scopes =>
        rows <= Count("register") + lost["register"] + Cardinality(Recording("register"))

OvershootInv == CountsBounded /\ RowsAccountedFor

\* A set of workers that changes in w alone grows or shrinks by w.
LEMMA OneWorkerMoves ==
    ASSUME NEW A \in SUBSET Workers, NEW B \in SUBSET Workers, NEW w \in Workers,
           A \ {w} = B \ {w}
    PROVE  /\ Cardinality(A) \in Nat /\ Cardinality(B) \in Nat
           /\ (w \in A <=> w \in B) => Cardinality(B) = Cardinality(A)
           /\ w \in A /\ w \notin B => Cardinality(B) = Cardinality(A) - 1
           /\ w \notin A /\ w \in B => Cardinality(B) = Cardinality(A) + 1
<1>1. IsFiniteSet(A) /\ IsFiniteSet(B)
  BY FS_Subset, ThrottleAssumption
<1>2. Cardinality(A) \in Nat /\ Cardinality(B) \in Nat
  BY <1>1, FS_CardinalityType
<1>3. w \in A => Cardinality(A \ {w}) = Cardinality(A) - 1
  BY <1>1, FS_RemoveElement
<1>4. w \in B => Cardinality(B \ {w}) = Cardinality(B) - 1
  BY <1>1, FS_RemoveElement
<1>5. w \notin A => A \ {w} = A
  OBVIOUS
<1>6. w \notin B => B \ {w} = B
  OBVIOUS
<1>0. Cardinality(A \ {w}) = Cardinality(B \ {w})
  OBVIOUS
<1>7. CASE w \in A /\ w \in B
  BY <1>0, <1>2, <1>3, <1>4, <1>7
<1>8. CASE w \in A /\ w \notin B
  BY <1>0, <1>2, <1>3, <1>6, <1>8
<1>9. CASE w \notin A /\ w \in B
  BY <1>0, <1>2, <1>4, <1>5, <1>9
<1>10. CASE w \notin A /\ w \notin B
  BY <1>2, <1>5, <1>6, <1>10
<1> QED
  BY <1>7, <1>8, <1>9, <1>10

\* Some worker is not in flight: the others are at most all but one.
LEMMA OneStandsAside ==
    ASSUME NEW A \in SUBSET Workers, NEW w \in Workers, w \notin A
    PROVE  Cardinality(A) + 1 <= Cardinality(Workers)
<1>1. IsFiniteSet(A) /\ IsFiniteSet(A \cup {w})
  BY FS_Subset, ThrottleAssumption
<1>2. Cardinality(A \cup {w}) = Cardinality(A) + 1
  BY <1>1, FS_AddElement
<1>3. Cardinality(A \cup {w}) <= Cardinality(Workers)
  BY FS_Subset, ThrottleAssumption
<1> QED
  BY <1>2, <1>3

\* When w goes somewhere and no other worker's surface changes, the two sets
\* change in w alone.
LEMMA OthersStay ==
    ASSUME TypeOK, NEW w \in Workers, NEW place \in Stages, Goto(w, place),
           \A v \in Workers \ {w} : scope'[v] = scope[v], NEW s
    PROVE  /\ InFlight(s) \in SUBSET Workers /\ InFlight(s)' \in SUBSET Workers
           /\ Recording(s) \in SUBSET Workers /\ Recording(s)' \in SUBSET Workers
           /\ InFlight(s) \ {w} = InFlight(s)' \ {w}
           /\ Recording(s) \ {w} = Recording(s)' \ {w}
           /\ w \in InFlight(s)' <=> scope'[w] = s /\ place \in {"act", "add", "incr"}
           /\ w \in Recording(s)' <=> scope'[w] = s /\ place \in {"add", "incr"}
<1>1. at'[w] = place /\ \A v \in Workers \ {w} : at'[v] = at[v]
  BY DEF TypeOK, Goto
<1> QED
  BY <1>1 DEF InFlight, Recording

\* Both halves for one surface, in terms that a step changes
LEMMA OvershootStep ==
    ASSUME TypeOK, TypeOK', CountsBounded, NEW s \in Scopes \cap Guarded,
           NEW d \in Int,
           Cardinality(InFlight(s)') \in Nat, Cardinality(InFlight(s)) \in Nat,
           Count(s)' + Cardinality(InFlight(s)') <= Count(s) + Cardinality(InFlight(s)) + d,
           failedOpen'[s] >= failedOpen[s] + d
    PROVE  Count(s)' + Cardinality(InFlight(s)') + 1
               <= THRESHOLD + Cardinality(Workers) + failedOpen'[s]
<1>1. /\ Count(s) \in Nat /\ Count(s)' \in Nat
      /\ failedOpen[s] \in Nat /\ failedOpen'[s] \in Nat
  BY DEF TypeOK, Count
<1>2. Cardinality(Workers) \in Nat
  BY FS_CardinalityType, ThrottleAssumption
<1>3. Count(s) + Cardinality(InFlight(s)) + 1
          <= THRESHOLD + Cardinality(Workers) + failedOpen[s]
  BY DEF CountsBounded
<1> HIDE DEF Count
<1> QED
  BY <1>1, <1>2, <1>3, ThrottleAssumption

\* A step on which nobody comes to be in flight on s
LEMMA NobodyEnters ==
    ASSUME TypeOK, TypeOK', CountsBounded, NEW s \in Scopes \cap Guarded,
           NEW w \in Workers, NEW place \in Stages, Goto(w, place),
           \A v \in Workers \ {w} : scope'[v] = scope[v],
           Count(s)' = Count(s), failedOpen'[s] >= failedOpen[s],
           scope'[w] = s /\ place \in {"act", "add", "incr"} => w \in InFlight(s)
    PROVE  Count(s)' + Cardinality(InFlight(s)') + 1
               <= THRESHOLD + Cardinality(Workers) + failedOpen'[s]
<1> DEFINE A == InFlight(s)
           B == InFlight(s)'
<1>1. /\ A \in SUBSET Workers /\ B \in SUBSET Workers /\ A \ {w} = B \ {w}
      /\ w \in B => w \in A
  BY OthersStay
<1> HIDE DEF A, B
<1>2. Cardinality(A) \in Nat /\ Cardinality(B) \in Nat /\ Cardinality(B) <= Cardinality(A)
  BY <1>1, OneWorkerMoves
<1>3. Count(s) \in Nat
  BY CountType
<1> HIDE DEF Count
<1>4. Count(s)' + Cardinality(B) <= Count(s) + Cardinality(A) + 0
  BY <1>2, <1>3
<1>5. failedOpen'[s] >= failedOpen[s] + 0
  BY DEF TypeOK
<1> QED
  BY <1>2, <1>4, <1>5, OvershootStep DEF A, B

\* A step that inserts no row and takes nobody off the way to the counter
LEMMA NoRowInserted ==
    ASSUME TypeOK, RowsAccountedFor, "register" \in Scopes,
           NEW w \in Workers, NEW place \in Stages, Goto(w, place),
           \A v \in Workers \ {w} : scope'[v] = scope[v],
           rows' = rows, Count("register")' = Count("register"),
           lost'["register"] = lost["register"],
           w \in Recording("register") => scope'[w] = "register" /\ place \in {"add", "incr"}
    PROVE  rows' <= Count("register")' + lost'["register"] + Cardinality(Recording("register")')
<1> DEFINE A == Recording("register")
           B == Recording("register")'
<1>1. /\ A \in SUBSET Workers /\ B \in SUBSET Workers /\ A \ {w} = B \ {w}
      /\ w \in A => w \in B
  BY OthersStay
<1>2. rows <= Count("register") + lost["register"] + Cardinality(A)
  BY DEF RowsAccountedFor
<1> HIDE DEF A, B
<1>3. Cardinality(A) \in Nat /\ Cardinality(B) \in Nat /\ Cardinality(A) <= Cardinality(B)
  BY <1>1, OneWorkerMoves
<1>4. Count("register") \in Nat /\ lost["register"] \in Nat /\ rows \in Nat
  BY CountType DEF TypeOK
<1>5. rows <= Count("register") + lost["register"] + Cardinality(B)
  BY <1>2, <1>3, <1>4
<1> QED
  BY <1>5 DEF B

\* The steps that count nothing, insert nothing and lose nothing: a request
\* arrives, is let in or turned away, is looked up, seeds the counter, ends.
LEMMA QuietStep ==
    ASSUME TypeOK, TypeOK', OvershootInv, NEW w \in Workers, NEW place \in Stages,
           Goto(w, place), \A v \in Workers \ {w} : scope'[v] = scope[v],
           \A s \in Scopes : Count(s)' = Count(s),
           \A s \in Scopes : failedOpen'[s] >= failedOpen[s],
           rows' = rows, lost' = lost,
           \A s \in Scopes \cap Guarded :
               scope'[w] = s /\ place \in {"act", "add", "incr"} => w \in InFlight(s),
           "register" \in Scopes /\ w \in Recording("register")
               => scope'[w] = "register" /\ place \in {"add", "incr"}
    PROVE  OvershootInv'
<1>1. ASSUME NEW s \in Scopes \cap Guarded
      PROVE  Count(s)' + Cardinality(InFlight(s)') + 1
                 <= THRESHOLD + Cardinality(Workers) + failedOpen'[s]
  BY NobodyEnters DEF OvershootInv
<1>2. CountsBounded'
  BY <1>1 DEF CountsBounded
<1>3. RowsAccountedFor'
  <2> SUFFICES ASSUME "register" \in Scopes
               PROVE  rows' <= Count("register")' + lost'["register"]
                                 + Cardinality(Recording("register")')
    BY DEF RowsAccountedFor
  <2> QED
    BY NoRowInserted DEF OvershootInv
<1> QED
  BY <1>2, <1>3 DEF OvershootInv

LEMMA ArriveOvershoot ==
    ASSUME TypeOK, TypeOK', OvershootInv, NEW w \in Workers, NEW x \in Scopes, Arrive(w, x)
    PROVE  OvershootInv'
<1> DEFINE place == IF x \in Guarded THEN "check" ELSE "add"
<1>1. /\ at[w] = "idle" /\ Goto(w, place) /\ place \in Stages
      /\ scope' = [scope EXCEPT ![w] = x]
      /\ UNCHANGED <<cache, rows, failedOpen, lost>>
  BY DEF Arrive, history, Stages
<1>2. scope'[w] = x /\ \A v \in Workers \ {w} : scope'[v] = scope[v]
  BY <1>1 DEF TypeOK
<1>3. \A s \in Scopes \cap Guarded :
          ~(scope'[w] = s /\ place \in {"act", "add", "incr"})
  BY <1>2
<1>4. w \notin Recording("register")
  BY <1>1 DEF Recording
<1>5. /\ \A s \in Scopes : Count(s)' = Count(s)
      /\ \A s \in Scopes : failedOpen'[s] >= failedOpen[s]
  BY <1>1 DEF Count, TypeOK
<1> HIDE DEF place
<1> QED
  BY <1>1, <1>2, <1>3, <1>4, <1>5, QuietStep

\* A check that lets w in: the counter is below the threshold.
LEMMA CheckOvershoot ==
    ASSUME TypeOK, TypeOK', OvershootInv, NEW w \in Workers, Check(w)
    PROVE  OvershootInv'
<1>1. /\ at[w] = "check" /\ scope' = scope
      /\ UNCHANGED <<cache, rows, failedOpen, lost>>
  BY DEF Check, history
<1>2. /\ \A s \in Scopes : Count(s)' = Count(s)
      /\ \A s \in Scopes : failedOpen'[s] >= failedOpen[s]
      /\ w \notin Recording("register")
      /\ \A s \in Scopes : w \notin InFlight(s)
  BY <1>1 DEF Count, TypeOK, Recording, InFlight
<1>3. CASE Goto(w, "idle")
  <2>1. "idle" \in Stages
    BY DEF Stages
  <2> QED
    BY <1>1, <1>2, <1>3, <2>1, QuietStep
<1>4. CASE Goto(w, "act") /\ Count(scope[w]) < THRESHOLD
  <2>0. "act" \in Stages
    BY DEF Stages
  <2>1. ASSUME NEW s \in Scopes \cap Guarded
        PROVE  Count(s)' + Cardinality(InFlight(s)') + 1
                   <= THRESHOLD + Cardinality(Workers) + failedOpen'[s]
    <3>1. CASE s # scope[w]
      BY <1>1, <1>2, <1>4, <2>0, <3>1, NobodyEnters DEF OvershootInv
    <3>2. CASE s = scope[w]
      <4> DEFINE A == InFlight(s)
                 B == InFlight(s)'
      <4>1. /\ A \in SUBSET Workers /\ B \in SUBSET Workers /\ A \ {w} = B \ {w}
            /\ w \in B /\ w \notin A
        BY <1>1, <1>2, <1>4, <2>0, <3>2, OthersStay
      <4> HIDE DEF A, B
      <4>2. Cardinality(A) \in Nat /\ Cardinality(B) = Cardinality(A) + 1
        BY <4>1, OneWorkerMoves
      <4>3. Cardinality(A) + 1 <= Cardinality(Workers)
        BY <4>1, OneStandsAside
      <4>4. Count(s) \in Nat /\ Count(s)' = Count(s) /\ Count(s) < THRESHOLD
        BY <1>2, <1>4, <3>2, CountType
      <4>5. failedOpen'[s] \in Nat /\ Cardinality(Workers) \in Nat
        BY FS_CardinalityType, ThrottleAssumption DEF TypeOK
      <4> HIDE DEF Count
      <4>6. Count(s)' + Cardinality(B) + 1
                <= THRESHOLD + Cardinality(Workers) + failedOpen'[s]
        BY <4>2, <4>3, <4>4, <4>5, ThrottleAssumption
      <4> QED
        BY <4>6 DEF B
    <3> QED
      BY <3>1, <3>2
  <2>2. CountsBounded'
    BY <2>1 DEF CountsBounded
  <2>3. RowsAccountedFor'
    <3> SUFFICES ASSUME "register" \in Scopes
                 PROVE  rows' <= Count("register")' + lost'["register"]
                                   + Cardinality(Recording("register")')
      BY DEF RowsAccountedFor
    <3> QED
      BY <1>1, <1>2, <1>4, <2>0, NoRowInserted DEF OvershootInv
  <2> QED
    BY <2>2, <2>3 DEF OvershootInv
<1>5. Count(scope[w]) \in Nat
  BY CountType DEF TypeOK
<1> HIDE DEF Count
<1> QED
  BY <1>3, <1>4, <1>5, ThrottleAssumption DEF Check, Key

\* A check that fails open is one more on both sides.
LEMMA CheckFailsOvershoot ==
    ASSUME TypeOK, TypeOK', OvershootInv, NEW w \in Workers, NEW error, CheckFails(w, error)
    PROVE  OvershootInv'
<1>1. /\ at[w] = "check" /\ scope' = scope
      /\ UNCHANGED <<cache, rows, lost>>
  BY DEF CheckFails
<1>2. /\ \A s \in Scopes : Count(s)' = Count(s)
      /\ w \notin Recording("register")
      /\ \A s \in Scopes : w \notin InFlight(s)
  BY <1>1 DEF Count, Recording, InFlight
<1>0. "act" \in Stages /\ "error" \in Stages
  BY DEF Stages
<1>3. CASE Goto(w, "error") /\ UNCHANGED failedOpen
  <2>1. \A s \in Scopes : failedOpen'[s] >= failedOpen[s]
    BY <1>3 DEF TypeOK
  <2> QED
    BY <1>0, <1>1, <1>2, <1>3, <2>1, QuietStep
<1>4. CASE Goto(w, "act") /\ failedOpen' = [failedOpen EXCEPT ![scope[w]] = @ + 1]
  <2>1. ASSUME NEW s \in Scopes \cap Guarded
        PROVE  Count(s)' + Cardinality(InFlight(s)') + 1
                   <= THRESHOLD + Cardinality(Workers) + failedOpen'[s]
    <3>1. CASE s # scope[w]
      <4>1. failedOpen'[s] >= failedOpen[s]
        BY <1>4, <3>1 DEF TypeOK
      <4> QED
        BY <1>0, <1>1, <1>2, <1>4, <3>1, <4>1, NobodyEnters DEF OvershootInv
    <3>2. CASE s = scope[w]
      <4> DEFINE A == InFlight(s)
                 B == InFlight(s)'
      <4>1. /\ A \in SUBSET Workers /\ B \in SUBSET Workers /\ A \ {w} = B \ {w}
            /\ w \in B /\ w \notin A
        BY <1>0, <1>1, <1>2, <1>4, <3>2, OthersStay
      <4> HIDE DEF A, B
      <4>2. Cardinality(A) \in Nat /\ Cardinality(B) = Cardinality(A) + 1
        BY <4>1, OneWorkerMoves
      <4>3. Count(s) \in Nat /\ Count(s)' = Count(s)
        BY <1>2, CountType
      <4>4. failedOpen'[s] = failedOpen[s] + 1 /\ failedOpen[s] \in Nat
        BY <1>4, <3>2 DEF TypeOK
      <4> HIDE DEF Count
      <4>5. Count(s)' + Cardinality(B) <= Count(s) + Cardinality(A) + 1
        BY <4>2, <4>3
      <4> QED
        BY <4>2, <4>4, <4>5, OvershootStep DEF A, B, OvershootInv
    <3> QED
      BY <3>1, <3>2
  <2>2. CountsBounded'
    BY <2>1 DEF CountsBounded
  <2>3. RowsAccountedFor'
    <3> SUFFICES ASSUME "register" \in Scopes
                 PROVE  rows' <= Count("register")' + lost'["register"]
                                   + Cardinality(Recording("register")')
      BY DEF RowsAccountedFor
    <3> QED
      BY <1>0, <1>1, <1>2, <1>4, NoRowInserted DEF OvershootInv
  <2> QED
    BY <2>2, <2>3 DEF OvershootInv
<1> QED
  BY <1>3, <1>4 DEF CheckFails

LEMMA OtherQuietOvershoot ==
    ASSUME TypeOK, TypeOK', OvershootInv, NEW w \in Workers,
           LookUpToken(w) \/ Seed(w) \/ Respond500(w)
    PROVE  OvershootInv'
<1>0. "add" \in Stages /\ "idle" \in Stages /\ "incr" \in Stages
  BY DEF Stages
<1>1. scope' = scope /\ UNCHANGED <<rows, failedOpen, lost>>
  BY DEF LookUpToken, Seed, Respond500, history
<1>2. \A s \in Scopes : failedOpen'[s] >= failedOpen[s]
  BY <1>1 DEF TypeOK
<1>3. CASE LookUpToken(w)
  <2>1. /\ at[w] = "act" /\ scope[w] = "bad_token" /\ UNCHANGED cache
        /\ Goto(w, "add") \/ Goto(w, "idle")
    BY <1>3 DEF LookUpToken
  <2>2. /\ \A s \in Scopes : Count(s)' = Count(s)
        /\ \A s \in Scopes : scope'[w] = s => w \in InFlight(s)
        /\ w \notin Recording("register")
    BY <1>1, <2>1 DEF Count, InFlight, Recording
  <2> QED
    BY <1>0, <1>1, <1>2, <2>1, <2>2, QuietStep
<1>4. CASE Seed(w)
  <2>1. /\ at[w] = "add" /\ Goto(w, "incr")
        /\ cache' = [cache EXCEPT ![scope[w]] = Count(scope[w])]
    BY <1>4 DEF Seed, Key
  <2>2. /\ \A s \in Scopes : scope'[w] = s => w \in InFlight(s)
        /\ w \in Recording("register") => scope'[w] = "register"
    BY <1>1, <2>1 DEF InFlight, Recording
  <2>3. \A s \in Scopes : Count(s)' = Count(s)
    BY <2>1, ThrottleAssumption DEF Count, TypeOK
  <2> QED
    BY <1>0, <1>1, <1>2, <2>1, <2>2, <2>3, QuietStep
<1>5. CASE Respond500(w)
  <2>1. at[w] = "error" /\ Goto(w, "idle") /\ UNCHANGED cache
    BY <1>5 DEF Respond500
  <2>2. /\ \A s \in Scopes : Count(s)' = Count(s)
        /\ w \notin Recording("register")
    BY <2>1 DEF Count, Recording
  <2> QED
    BY <1>0, <1>1, <1>2, <2>1, <2>2, QuietStep
<1> QED
  BY <1>3, <1>4, <1>5

\* The rows of RowsAccountedFor, in terms that a step changes
LEMMA RowsStep ==
    ASSUME TypeOK, TypeOK', RowsAccountedFor, "register" \in Scopes,
           Cardinality(Recording("register")) \in Nat,
           Cardinality(Recording("register")') \in Nat,
           rows' + Count("register") + lost["register"] + Cardinality(Recording("register"))
             <= rows + Count("register")' + lost'["register"]
                  + Cardinality(Recording("register")')
    PROVE  rows' <= Count("register")' + lost'["register"] + Cardinality(Recording("register")')
<1>1. /\ Count("register") \in Nat /\ Count("register")' \in Nat
      /\ rows \in Nat /\ rows' \in Nat
      /\ lost["register"] \in Nat /\ lost'["register"] \in Nat
  BY DEF TypeOK, Count
<1>2. rows <= Count("register") + lost["register"] + Cardinality(Recording("register"))
  BY DEF RowsAccountedFor
<1> HIDE DEF Count, Recording
<1> QED
  BY <1>1, <1>2

\* The inserted row goes with a worker on its way to the counter.
LEMMA InsertOvershoot ==
    ASSUME TypeOK, TypeOK', OvershootInv, NEW w \in Workers, InsertApplication(w)
    PROVE  OvershootInv'
<1>0. "add" \in Stages
  BY DEF Stages
<1>1. /\ at[w] = "act" /\ scope[w] = "register" /\ Goto(w, "add") /\ rows' = rows + 1
      /\ UNCHANGED <<scope, cache, failedOpen, lost>>
  BY DEF InsertApplication
<1>2. /\ \A s \in Scopes : Count(s)' = Count(s)
      /\ \A s \in Scopes : failedOpen'[s] >= failedOpen[s]
      /\ \A s \in Scopes : scope'[w] = s => w \in InFlight(s)
      /\ w \notin Recording("register")
  BY <1>1 DEF Count, TypeOK, InFlight, Recording
<1>3. ASSUME NEW s \in Scopes \cap Guarded
      PROVE  Count(s)' + Cardinality(InFlight(s)') + 1
                 <= THRESHOLD + Cardinality(Workers) + failedOpen'[s]
  BY <1>0, <1>1, <1>2, NobodyEnters DEF OvershootInv
<1>4. CountsBounded'
  BY <1>3 DEF CountsBounded
<1>5. RowsAccountedFor'
  <2> SUFFICES ASSUME "register" \in Scopes
               PROVE  rows' <= Count("register")' + lost'["register"]
                                 + Cardinality(Recording("register")')
    BY DEF RowsAccountedFor
  <2> DEFINE A == Recording("register")
             B == Recording("register")'
  <2>1. /\ A \in SUBSET Workers /\ B \in SUBSET Workers /\ A \ {w} = B \ {w}
        /\ w \in B /\ w \notin A
    BY <1>0, <1>1, <1>2, OthersStay
  <2> HIDE DEF A, B
  <2>2. Cardinality(A) \in Nat /\ Cardinality(B) = Cardinality(A) + 1
    BY <2>1, OneWorkerMoves
  <2>3. /\ Count("register") \in Nat /\ Count("register")' = Count("register")
        /\ lost["register"] \in Nat /\ lost' = lost /\ rows \in Nat
    BY <1>1, <1>2, CountType DEF TypeOK
  <2> HIDE DEF Count
  <2>4. rows' + Count("register") + lost["register"] + Cardinality(A)
          <= rows + Count("register")' + lost'["register"] + Cardinality(B)
    BY <1>1, <2>2, <2>3
  <2> QED
    BY <2>2, <2>4, RowsStep DEF A, B, OvershootInv
<1> QED
  BY <1>4, <1>5 DEF OvershootInv

\* A worker that leaves with its attempt counted or lost: what leaves the two
\* sets is in the counter, or among the lost.
LEMMA LeavingOvershoot ==
    ASSUME TypeOK, TypeOK', OvershootInv, NEW w \in Workers, NEW place \in {"idle", "error"},
           at[w] \in {"add", "incr"}, Goto(w, place), scope' = scope,
           UNCHANGED <<rows, failedOpen>>,
           \A s \in Scopes : /\ s # scope[w] => Count(s)' = Count(s) /\ lost'[s] = lost[s]
                             /\ s = scope[w] =>
                                  \/ Count(s)' = Count(s) + 1 /\ lost'[s] = lost[s]
                                  \/ Count(s)' = Count(s) /\ lost'[s] = lost[s] + 1
    PROVE  OvershootInv'
<1>0. place \in Stages
  BY DEF Stages
<1>1. ASSUME NEW s \in Scopes \cap Guarded
      PROVE  Count(s)' + Cardinality(InFlight(s)') + 1
                 <= THRESHOLD + Cardinality(Workers) + failedOpen'[s]
  <2> DEFINE A == InFlight(s)
             B == InFlight(s)'
  <2>1. /\ A \in SUBSET Workers /\ B \in SUBSET Workers /\ A \ {w} = B \ {w}
        /\ w \notin B /\ (w \in A <=> s = scope[w])
    <3>1. w \in A <=> s = scope[w]
      BY DEF InFlight
    <3> QED
      BY <1>0, <3>1, OthersStay
  <2> HIDE DEF A, B
  <2>2. /\ Cardinality(A) \in Nat /\ Cardinality(B) \in Nat
        /\ s = scope[w] => Cardinality(B) = Cardinality(A) - 1
        /\ s # scope[w] => Cardinality(B) = Cardinality(A)
    BY <2>1, OneWorkerMoves
  <2>3. Count(s) \in Nat /\ failedOpen'[s] >= failedOpen[s] + 0
    BY CountType DEF TypeOK
  <2> HIDE DEF Count
  <2>4. Count(s)' + Cardinality(B) <= Count(s) + Cardinality(A) + 0
    <3>1. CASE s = scope[w]
      <4>1. Count(s)' = Count(s) + 1 \/ Count(s)' = Count(s)
        BY <3>1
      <4> QED
        BY <2>2, <2>3, <3>1, <4>1
    <3>2. CASE s # scope[w]
      <4>1. Count(s)' = Count(s)
        BY <3>2
      <4> QED
        BY <2>2, <2>3, <3>2, <4>1
    <3> QED
      BY <3>1, <3>2
  <2> QED
    BY <2>2, <2>3, <2>4, OvershootStep DEF A, B, OvershootInv
<1>2. CountsBounded'
  BY <1>1 DEF CountsBounded
<1>3. RowsAccountedFor'
  <2> SUFFICES ASSUME "register" \in Scopes
               PROVE  rows' <= Count("register")' + lost'["register"]
                                 + Cardinality(Recording("register")')
    BY DEF RowsAccountedFor
  <2> DEFINE A == Recording("register")
             B == Recording("register")'
  <2>1. /\ A \in SUBSET Workers /\ B \in SUBSET Workers /\ A \ {w} = B \ {w}
        /\ w \notin B /\ (w \in A <=> scope[w] = "register")
    <3>1. w \in A <=> scope[w] = "register"
      BY DEF Recording
    <3> QED
      BY <1>0, <3>1, OthersStay
  <2> HIDE DEF A, B
  <2>2. /\ Cardinality(A) \in Nat /\ Cardinality(B) \in Nat
        /\ scope[w] = "register" => Cardinality(B) = Cardinality(A) - 1
        /\ scope[w] # "register" => Cardinality(B) = Cardinality(A)
    BY <2>1, OneWorkerMoves
  <2>3. Count("register") \in Nat /\ lost["register"] \in Nat /\ rows \in Nat /\ rows' = rows
    BY CountType DEF TypeOK
  <2> HIDE DEF Count
  <2>4. rows' + Count("register") + lost["register"] + Cardinality(A)
          <= rows + Count("register")' + lost'["register"] + Cardinality(B)
    <3>1. CASE scope[w] = "register"
      <4>1. \/ Count("register")' = Count("register") + 1 /\ lost'["register"] = lost["register"]
            \/ Count("register")' = Count("register") /\ lost'["register"] = lost["register"] + 1
        BY <3>1
      <4> QED
        BY <2>2, <2>3, <3>1, <4>1
    <3>2. CASE scope[w] # "register"
      <4>1. Count("register")' = Count("register") /\ lost'["register"] = lost["register"]
        BY <3>2
      <4> QED
        BY <2>2, <2>3, <3>2, <4>1
    <3> QED
      BY <3>1, <3>2
  <2> QED
    BY <2>2, <2>4, RowsStep DEF A, B, OvershootInv
<1> QED
  BY <1>2, <1>3 DEF OvershootInv

LEMMA CountOrLose ==
    ASSUME TypeOK, TypeOK', OvershootInv, NEW w \in Workers, NEW error,
           \/ Incr(w) \/ IncrMisses(w) \/ RecordFails(w, error)
           \/ SeedUnanswered(w, error) \/ IncrUnanswered(w, error)
    PROVE  OvershootInv'
<1>0. scope[w] \in Scopes
  BY DEF TypeOK
<1> DEFINE place(e) == IF e \in CaughtErrors \/ scope[w] = "volume" THEN "idle" ELSE "error"
<1>1. ASSUME Incr(w) \/ IncrUnanswered(w, error) PROVE OvershootInv'
  <2>1. /\ at[w] = "incr" /\ cache[scope[w]] \in Nat
        /\ cache' = [cache EXCEPT ![scope[w]] = cache[scope[w]] + 1]
        /\ UNCHANGED <<scope, rows, failedOpen, lost>>
    BY <1>0, <1>1 DEF Incr, IncrUnanswered, Key, TypeOK
  <2>2. Goto(w, "idle") \/ Goto(w, "error")
    BY <1>1 DEF Incr, IncrUnanswered, Escape
  <2>3. \A s \in Scopes : /\ s # scope[w] => Count(s)' = Count(s)
                          /\ s = scope[w] => Count(s)' = Count(s) + 1
    BY <2>1, ThrottleAssumption DEF Count, TypeOK
  <2> QED
    BY <2>1, <2>2, <2>3, LeavingOvershoot
<1>2. ASSUME NEW e, at[w] \in {"add", "incr"}, Lose(w, e),
             \A s \in Scopes : Count(s)' = Count(s)
      PROVE  OvershootInv'
  <2>1. /\ Goto(w, place(e)) /\ place(e) \in {"idle", "error"}
        /\ lost' = [lost EXCEPT ![scope[w]] = lost[scope[w]] + 1]
        /\ UNCHANGED <<scope, rows, failedOpen>>
    BY <1>2 DEF Lose, Escape
  <2> HIDE DEF place
  <2>2. \A s \in Scopes : /\ s # scope[w] => lost'[s] = lost[s]
                          /\ s = scope[w] => lost'[s] = lost[s] + 1
    BY <2>1 DEF TypeOK
  <2> QED
    BY <1>2, <2>1, <2>2, LeavingOvershoot
<1>3. CASE IncrMisses(w) \/ RecordFails(w, error)
  <2>1. \A s \in Scopes : Count(s)' = Count(s)
    BY <1>3 DEF IncrMisses, RecordFails, Count
  <2> QED
    BY <1>2, <1>3, <2>1 DEF IncrMisses, RecordFails
<1>4. CASE SeedUnanswered(w, error)
  <2>1. cache' = [cache EXCEPT ![scope[w]] = Count(scope[w])]
    BY <1>4 DEF SeedUnanswered, Key
  <2>2. \A s \in Scopes : Count(s)' = Count(s)
    BY <2>1, ThrottleAssumption DEF Count, TypeOK
  <2> QED
    BY <1>2, <1>4, <2>2 DEF SeedUnanswered
<1> QED
  BY <1>1, <1>3, <1>4

\* A new window begins with nothing counted and no row.
LEMMA ExpireOvershoot ==
    ASSUME TypeOK, TypeOK', OvershootInv, NEW x \in Scopes, Expire(x)
    PROVE  OvershootInv'
<1>1. /\ cache' = [cache EXCEPT ![x] = Absent]
      /\ rows' = IF x = "register" THEN 0 ELSE rows
      /\ \A s \in Scopes \ {x} : failedOpen'[s] = failedOpen[s] /\ lost'[s] = lost[s]
      /\ at' = at /\ scope' = scope
  BY DEF Expire, TypeOK
<1>2. Count(x)' = 0 /\ \A s \in Scopes \ {x} : Count(s)' = Count(s)
  BY <1>1 DEF Count, TypeOK
<1>3. \A s : /\ InFlight(s)' = InFlight(s)  /\ InFlight(s) \in SUBSET Workers
             /\ Recording(s)' = Recording(s) /\ Recording(s) \in SUBSET Workers
  BY <1>1 DEF InFlight, Recording
<1>4. ASSUME NEW s \in Scopes \cap Guarded
      PROVE  Count(s)' + Cardinality(InFlight(s)') + 1
                 <= THRESHOLD + Cardinality(Workers) + failedOpen'[s]
  <2>1. CASE s # x
    BY <1>2, <1>1, <1>3, <2>1 DEF OvershootInv, CountsBounded
  <2>2. CASE s = x
    <3>1. /\ Cardinality(InFlight(s)) \in Nat /\ Cardinality(Workers) \in Nat
          /\ Cardinality(InFlight(s)) <= Cardinality(Workers)
      BY <1>3, FS_Subset, FS_CardinalityType, ThrottleAssumption
    <3>2. failedOpen'[s] \in Nat
      BY DEF TypeOK
    <3>3. Cardinality(InFlight(s)') = Cardinality(InFlight(s)) /\ Count(s)' = 0
      BY <1>2, <1>3, <2>2
    <3> HIDE DEF InFlight, Count
    <3> QED
      BY <3>1, <3>2, <3>3, ThrottleAssumption
  <2> QED
    BY <2>1, <2>2
<1>5. CountsBounded'
  BY <1>4 DEF CountsBounded
<1>6. RowsAccountedFor'
  <2> SUFFICES ASSUME "register" \in Scopes
               PROVE  rows' <= Count("register")' + lost'["register"]
                                 + Cardinality(Recording("register")')
    BY DEF RowsAccountedFor
  <2>1. CASE x = "register"
    <3>1. rows' = 0 /\ Count("register")' = 0 /\ lost'["register"] \in Nat
      BY <1>1, <1>2, <2>1 DEF TypeOK
    <3>2. Cardinality(Recording("register")') \in Nat
      BY <1>3, FS_Subset, FS_CardinalityType, ThrottleAssumption
    <3> HIDE DEF Count, Recording
    <3> QED
      BY <3>1, <3>2
  <2>2. CASE x # "register"
    BY <1>1, <1>2, <1>3, <2>2 DEF OvershootInv, RowsAccountedFor
  <2> QED
    BY <2>1, <2>2
<1> QED
  BY <1>5, <1>6 DEF OvershootInv

LEMMA InitOvershoot == Init => OvershootInv
<1> SUFFICES ASSUME Init PROVE OvershootInv
  OBVIOUS
<1>1. \A s \in Scopes : /\ InFlight(s) = {} /\ Recording(s) = {}
                        /\ Count(s) = 0 /\ failedOpen[s] = 0 /\ lost[s] = 0
  BY DEF Init, InFlight, Recording, Count
<1>2. Cardinality(Workers) \in Nat /\ Cardinality({}) = 0 /\ rows = 0
  BY FS_CardinalityType, FS_EmptySet, ThrottleAssumption DEF Init
<1>3. CountsBounded
  <2> SUFFICES ASSUME NEW s \in Scopes \cap Guarded
               PROVE  Count(s) + Cardinality(InFlight(s)) + 1
                          <= THRESHOLD + Cardinality(Workers) + failedOpen[s]
    BY DEF CountsBounded
  <2>1. Count(s) = 0 /\ Cardinality(InFlight(s)) = 0 /\ failedOpen[s] = 0
    BY <1>1, <1>2
  <2> HIDE DEF InFlight, Count
  <2> QED
    BY <1>2, <2>1, ThrottleAssumption
<1>4. RowsAccountedFor
  BY <1>1, <1>2 DEF RowsAccountedFor
<1> QED
  BY <1>3, <1>4 DEF OvershootInv

LEMMA NextOvershoot == TypeOK /\ OvershootInv /\ [Next]_vars => OvershootInv'
<1> SUFFICES ASSUME TypeOK, OvershootInv, [Next]_vars PROVE OvershootInv'
  OBVIOUS
<1>0. TypeOK'
  BY NextType
<1>1. ASSUME NEW w \in Workers, NEW s \in Scopes, Arrive(w, s) PROVE OvershootInv'
  BY <1>0, <1>1, ArriveOvershoot
<1>2. ASSUME NEW w \in Workers, Work(w) PROVE OvershootInv'
  <2>1. CASE Check(w)
    BY <1>0, <2>1, CheckOvershoot
  <2>2. CASE InsertApplication(w)
    BY <1>0, <2>2, InsertOvershoot
  <2>3. CASE LookUpToken(w) \/ Seed(w) \/ Respond500(w)
    BY <1>0, <2>3, OtherQuietOvershoot
  <2>4. ASSUME NEW error, \/ Incr(w) \/ IncrMisses(w) \/ RecordFails(w, error)
                          \/ SeedUnanswered(w, error) \/ IncrUnanswered(w, error)
        PROVE  OvershootInv'
    BY <1>0, <2>4, CountOrLose
  <2>5. ASSUME NEW error, CheckFails(w, error) PROVE OvershootInv'
    BY <1>0, <2>5, CheckFailsOvershoot
  <2> QED
    BY <1>2, <2>1, <2>2, <2>3, <2>4, <2>5 DEF Work
<1>3. ASSUME NEW s \in Scopes, Expire(s) PROVE OvershootInv'
  BY <1>0, <1>3, ExpireOvershoot
<1>4. CASE UNCHANGED vars
  BY <1>4 DEF vars, OvershootInv, CountsBounded, RowsAccountedFor, Count, InFlight, Recording
<1> QED
  BY <1>1, <1>2, <1>3, <1>4 DEF Next, Quiet

\* However many requests race between the check and the count, a window records
\* at most the threshold and one attempt for each further worker, beyond what
\* checks that failed open let in; the rows inserted exceed that by lost counts
\* alone.
THEOREM OvershootIsBounded == Spec => []OvershootBounded
<1>1. TypeOK /\ OvershootInv => OvershootBounded
  <2> SUFFICES ASSUME TypeOK, OvershootInv, "register" \in Scopes
               PROVE  rows + 1 <= THRESHOLD + Cardinality(Workers)
                                    + failedOpen["register"] + lost["register"]
    BY DEF OvershootBounded, RowGrowthBounded, OvershootInv
  <2> DEFINE A == Recording("register")
             B == InFlight("register")
             n == Count("register")
             f == failedOpen["register"]
             l == lost["register"]
  <2>1. Cardinality(A) \in Nat /\ Cardinality(B) \in Nat /\ Cardinality(A) <= Cardinality(B)
    <3>1. A \subseteq B /\ B \subseteq Workers
      BY DEF Recording, InFlight
    <3> QED
      BY <3>1, FS_Subset, FS_CardinalityType, ThrottleAssumption
  <2>2. n + Cardinality(B) + 1 <= THRESHOLD + Cardinality(Workers) + f
    BY DEF OvershootInv, CountsBounded, Guarded
  <2>3. rows <= n + l + Cardinality(A)
    BY DEF OvershootInv, RowsAccountedFor
  <2>4. n \in Nat /\ f \in Nat /\ l \in Nat /\ rows \in Nat /\ Cardinality(Workers) \in Nat
    BY CountType, FS_CardinalityType, ThrottleAssumption DEF TypeOK
  <2> HIDE DEF A, B, n, f, l
  <2>5. rows + 1 <= THRESHOLD + Cardinality(Workers) + f + l
    BY <2>1, <2>2, <2>3, <2>4, ThrottleAssumption
  <2> QED
    BY <2>5 DEF f, l
<1> QED
  BY <1>1, InitOvershoot, NextOvershoot, TypeCorrect, PTL DEF Spec

-----------------------------------------------------------------------------
(* The OAuth clients *)

\* What the deploys leave behind: a worker, a migrate and the table hold
\* settings that were valid when they were released.
DeployInv ==
    /\ ClientsTypeOK
    /\ \A r \in deployed : ValidCloudClients(r)
    /\ ValidCloudClients(release) => release \in deployed
    /\ migrating # Settled => provisioned = NotYet

\* The row of every entry in `entries` is as the entry says.
Written(entries) == \A e \in entries : applications[e.name].uris = {e.uri}

\* The row of a client that registered is what its request said.
AsRegistered(uris) ==
    uris = {} \/ \E body \in Bodies : Registrable(body) /\ uris = Stored(body)

\* What is in the table: loopback addresses for the client that is built in, the
\* texts of their requests for those that registered, declared callbacks for the
\* cloud clients; and, of the release whose migrate is running or was the last,
\* the entries it has written.
TableInv ==
    /\ DOMAIN applications = Clients
    /\ \A u \in applications[Canonical].uris : u.scheme = "http" /\ u.host \in LoopbackHosts
    /\ \A c \in Minted : AsRegistered(applications[c].uris)
    /\ \A c \in Slugs : \A u \in applications[c].uris :
          \E r \in deployed : \E e \in Releases[r].clients : e.name = c /\ e.uri = u
    /\ migrating # Settled => Written(Releases[migrating].clients \ todo)
    /\ provisioned # NotYet => Written(Releases[provisioned].clients)

\* The page of a cloud client holds a URL.
PageInv == page # Nothing /\ page.client \in Slugs => page.uri \in Url

ClientsInv == DeployInv /\ TableInv /\ PageInv

-----------------------------------------------------------------------------
(* Redirects *)

LEMMA LeastIndex ==
    ASSUME NEW S \in SUBSET Nat, S # {}
    PROVE  \E m \in S : \A k \in S : m <= k
<1>1. PICK m \in S : \A k \in S : <<k, m>> \notin OpToRel(<, Nat)
  BY WFMin, NatLessThanWellFounded
<1>2. \A k \in S : ~(k < m)
  BY <1>1 DEF OpToRel
<1> QED
  BY <1>2

\* A browser takes a path without dot segments as it is.
LEMMA PlainPathStays ==
    ASSUME NEW path \in Seq(Segment),
           \A i \in DOMAIN path : ~(path[i].name = ".." /\ path[i].layers <= 1)
    PROVE  Resolve(path) = path
<1> DEFINE Turn(f) == [i \in 0..Len(path) |->
                         IF i = 0 THEN <<>>
                         ELSE IF path[i].name = ".." /\ path[i].layers <= 1
                              THEN IF f[i - 1] = <<>> THEN <<>> ELSE Front(f[i - 1])
                              ELSE Append(f[i - 1], path[i])]
           taken == [i \in 0..Len(path) |-> SubSeq(path, 1, i)]
           done  == CHOOSE f : f = Turn(f)
<1>1. Len(path) \in Nat /\ DOMAIN path = 1..Len(path) /\ \A i \in 1..Len(path) : path[i] \in Segment
  OBVIOUS
<1>2. SubSeq(path, 1, 0) = <<>> /\ SubSeq(path, 1, Len(path)) = path
  BY SubSeqEmpty, SubSeqFull
<1>3. ASSUME NEW i \in 1..Len(path)
      PROVE  SubSeq(path, 1, i) = Append(SubSeq(path, 1, i - 1), path[i])
  <2>1. SubSeq(path, 1, i) = SubSeq(path, 1, i - 1) \o <<path[i]>>
    BY <1>1, SubSeqRecursiveSecond
  <2>2. SubSeq(path, 1, i - 1) \in Seq(Segment)
    BY <1>1, SubSeqProperties
  <2> QED
    BY <1>1, <2>1, <2>2
<1>4. taken = Turn(taken)
  <2> SUFFICES ASSUME NEW i \in 0..Len(path) PROVE taken[i] = Turn(taken)[i]
    OBVIOUS
  <2>1. CASE i = 0
    BY <2>1, <1>2
  <2>2. CASE i # 0
    <3>1. i \in 1..Len(path) /\ i - 1 \in 0..Len(path)
      BY <2>2, <1>1
    <3> QED
      BY <2>2, <3>1, <1>1, <1>3
  <2> QED
    BY <2>1, <2>2
<1>5. ASSUME NEW f, f = Turn(f) PROVE f[Len(path)] = path
  <2> DEFINE wrong == {i \in 0..Len(path) : f[i] # SubSeq(path, 1, i)}
  <2>1. ASSUME wrong # {} PROVE FALSE
    <3>1. wrong \in SUBSET Nat
      BY <1>1
    <3>2. PICK m \in wrong : \A k \in wrong : m <= k
      <4> HIDE DEF wrong
      <4> QED
        BY <2>1, <3>1, LeastIndex
    <3>3. m \in 0..Len(path) /\ f[m] # SubSeq(path, 1, m)
      BY <3>2
    <3>4. f[m] = Turn(f)[m]
      BY <1>5
    <3>5. m # 0
      BY <3>3, <3>4, <1>2
    <3>6. m \in 1..Len(path) /\ m - 1 \in 0..Len(path)
      BY <3>3, <3>5, <1>1
    <3>7. f[m - 1] = SubSeq(path, 1, m - 1)
      <4>1. m - 1 \notin wrong
        <5>1. ~(m <= m - 1)
          BY <3>6
        <5> QED
          BY <5>1, <3>2
      <4> QED
        BY <4>1, <3>6
    <3>8. f[m] = Append(f[m - 1], path[m])
      BY <3>4, <3>5, <3>6, <1>1
    <3> QED
      BY <3>3, <3>6, <3>7, <3>8, <1>3
  <2>2. Len(path) \in 0..Len(path)
    BY <1>1
  <2> QED
    BY <2>1, <2>2, <1>2
<1>6. Resolve(path) = done[Len(path)]
  BY DEF Resolve
<1>7. done = Turn(done)
  <2>1. \E f : f = Turn(f)
    <3> HIDE DEF Turn, taken
    <3> QED
      BY <1>4
  <2> HIDE DEF Turn
  <2> QED
    BY <2>1
<1> HIDE DEF done, Turn
<1> QED
  BY <1>5, <1>6, <1>7

LEMMA UrlParts ==
    ASSUME NEW u \in Url
    PROVE  /\ u.path \in Seq(Segment)
           /\ u.scheme \in STRING /\ u.host \in STRING
           /\ u.user \in BOOLEAN /\ u.port \in Int
BY DEF Url

LEMMA NoDots ==
    ASSUME NEW u \in Url, NEW times \in Nat, times >= 1, ~Dots(u, times)
    PROVE  Resolve(u.path) = u.path
<1>1. u.path \in Seq(Segment)
  BY DEF Url
<1>2. \A i \in DOMAIN u.path : u.path[i].layers \in Nat
  <2>1. \A i \in DOMAIN u.path : u.path[i] \in Segment
    BY <1>1
  <2> QED
    BY <2>1 DEF Segment
<1>3. \A i \in DOMAIN u.path : ~(u.path[i].name = ".." /\ u.path[i].layers <= 1)
  <2> SUFFICES ASSUME NEW i \in DOMAIN u.path, u.path[i].name = "..", u.path[i].layers <= 1
               PROVE FALSE
    OBVIOUS
  <2>1. u.path[i].layers <= times
    BY <1>2
  <2> QED
    BY <2>1 DEF Dots
<1> QED
  BY <1>1, <1>3, PlainPathStays

\* The directory of a prefix is what _redirect_under_prefix compares with.
LEMMA PrefixIsDirectory ==
    ASSUME NEW prefix \in Url, ValidCloudRedirect("prefix", prefix)
    PROVE  /\ Anchored(prefix.path) = Front(prefix.path)
           /\ Len(prefix.path) \in Nat \ {0}
           /\ Len(Front(prefix.path)) = Len(prefix.path) - 1
<1>1. prefix.path \in Seq(Segment)
  BY DEF Url
<1>2. \E i \in DOMAIN prefix.path : prefix.path[i].name # ""
  BY DEF ValidCloudRedirect
<1>3. Last(prefix.path).name = ""
  BY DEF ValidCloudRedirect
<1>4. Len(prefix.path) \in Nat \ {0} /\ prefix.path # <<>>
  <2>1. Len(prefix.path) \in Nat /\ DOMAIN prefix.path = 1..Len(prefix.path)
    BY <1>1
  <2>2. 1..Len(prefix.path) # {}
    BY <1>2, <2>1
  <2>3. Len(prefix.path) # 0
    BY <2>1, <2>2
  <2> QED
    BY <2>1, <2>3
<1>5. Anchored(prefix.path) = Front(prefix.path)
  BY <1>3, <1>4 DEF Anchored
<1>6. Len(Front(prefix.path)) = Len(prefix.path) - 1
  BY <1>1, <1>4, SubSeqProperties DEF Front
<1> QED
  BY <1>4, <1>5, <1>6

\* A redirect _redirect_under_prefix accepts lands under the prefix.
LEMMA UnderPrefixLands ==
    ASSUME NEW u \in Url, NEW prefix \in Url, ValidCloudRedirect("prefix", prefix),
           RedirectUnderPrefix(u, prefix)
    PROVE  LandsUnder(u, prefix)
<1>1. Resolve(u.path) = u.path
  BY NoDots DEF RedirectUnderPrefix
<1>2. SameOrigin(u, prefix)
  BY DEF RedirectUnderPrefix, SameOrigin, ValidCloudRedirect
<1>3. IsPrefix(Front(prefix.path), u.path) /\ Len(u.path) > Len(prefix.path) - 1
  BY PrefixIsDirectory DEF RedirectUnderPrefix
<1>4. Len(u.path) >= Len(prefix.path)
  BY <1>3, PrefixIsDirectory, UrlParts
<1> QED
  BY <1>1, <1>2, <1>3, <1>4 DEF LandsUnder

\* A declared callback is where it says, and a prefix lies under itself.
LEMMA CallbackLands ==
    ASSUME NEW u \in Url, NEW v \in Url, NEW match, ValidCloudRedirect(match, v),
           u.scheme = v.scheme, u.host = v.host, u.port = v.port, u.path = v.path
    PROVE  /\ SameOrigin(u, v) /\ Resolve(u.path) = v.path
           /\ match = "prefix" => LandsUnder(u, v)
<1>1. SameOrigin(u, v)
  BY DEF SameOrigin, Port
<1>2. Resolve(u.path) = v.path
  <2>1. ~Dots(v, 1)
    BY DEF ValidCloudRedirect
  <2> QED
    BY <2>1, NoDots
<1>3. ASSUME match = "prefix" PROVE LandsUnder(u, v)
  <2>1. v.path \in Seq(Segment) /\ Len(v.path) \in Nat \ {0} /\ Len(Front(v.path)) = Len(v.path) - 1
    BY <1>3, PrefixIsDirectory, UrlParts
  <2> DEFINE n == Len(v.path) - 1
  <2>2. n \in 0..Len(v.path)
    BY <2>1
  <2>3. SubSeq(Front(v.path), 1, n) = SubSeq(v.path, 1, n)
    <3>1. Front(v.path) = SubSeq(v.path, 1, n)
      BY DEF Front
    <3>2. Front(v.path) \in Seq(Segment)
      BY <3>1, <2>1, SubSeqProperties
    <3>3. SubSeq(Front(v.path), 1, Len(Front(v.path))) = Front(v.path)
      BY <3>2, SubSeqFull
    <3> QED
      BY <3>1, <3>3, <2>1
  <2>4. IsPrefix(Front(v.path), v.path)
    BY <2>1, <2>2, <2>3 DEF IsPrefix
  <2> QED
    BY <1>1, <1>2, <2>1, <2>4 DEF LandsUnder
<1> QED
  BY <1>1, <1>2, <1>3

-----------------------------------------------------------------------------
(* Deploys *)

LEMMA ValidEntry ==
    ASSUME NEW r \in DOMAIN Releases, ValidCloudClients(r), NEW e \in Releases[r].clients
    PROVE  /\ e.name \in Slugs
           /\ e.match \in {"exact", "prefix"}
           /\ ValidCloudRedirect(e.match, e.uri)
           /\ e.uri \in Url
           /\ \A f \in Releases[r].clients : f.name = e.name => f = e
BY ClientsAssumption DEF ValidCloudClients

\* The settings a running worker has were valid when they were released.
LEMMA RunningSettings ==
    ASSUME DeployInv, NEW w \in Servers, config[w] # Down
    PROVE  config[w] \in deployed /\ config[w] \in DOMAIN Releases /\ ValidCloudClients(config[w])
<1>1. config[w] \in deployed \cup {Down}
  BY DEF DeployInv, ClientsTypeOK
<1> QED
  BY <1>1 DEF DeployInv, ClientsTypeOK

LEMMA MigratingSettings ==
    ASSUME DeployInv, migrating # Settled
    PROVE  /\ migrating \in deployed /\ migrating \in DOMAIN Releases
           /\ ValidCloudClients(migrating)
           /\ todo \subseteq Releases[migrating].clients
           /\ provisioned = NotYet
BY DEF DeployInv, ClientsTypeOK

LEMMA RecognisedClient ==
    ASSUME DeployInv, NEW w \in Servers, config[w] # Down, NEW client, ValidClient(w, client)
    PROVE  /\ client \in Clients
           /\ \/ client \in {Canonical} \cup Minted
              \/ client \in Slugs /\ client \in CloudClients(config[w])
BY RunningSettings, ValidEntry DEF ValidClient, IsRecognised, CloudClients, Clients

LEMMA InitDeploys == ClientsInit => DeployInv
<1> SUFFICES ASSUME ClientsInit PROVE DeployInv
  OBVIOUS
<1>1. \A c \in Clients : applications[c].skip \in BOOLEAN
  BY DEF ClientsInit, NoRow
<1>2. edits \in 0..MaxEdits
  BY ClientsAssumption DEF ClientsInit
<1> QED
  BY <1>1, <1>2 DEF ClientsInit, DeployInv, ClientsTypeOK

LEMMA NextDeploys == DeployInv /\ [ClientsNext]_clientsVars => DeployInv'
<1> SUFFICES ASSUME DeployInv, [ClientsNext]_clientsVars PROVE DeployInv'
  OBVIOUS
<1> USE DEF deploy, migrate, user
<1>1. CASE Edit
  <2>1. release' \in DOMAIN Releases /\ edits' \in 0..MaxEdits
    BY <1>1, ClientsAssumption DEF Edit, DeployInv, ClientsTypeOK
  <2>2. deployed \subseteq deployed' /\ deployed' \subseteq DOMAIN Releases
    BY <1>1, <2>1 DEF Edit, DeployInv, ClientsTypeOK
  <2>3. config' \in [Servers -> deployed' \cup {Down}]
    BY <1>1, <2>2 DEF Edit, DeployInv, ClientsTypeOK
  <2>4. \A r \in deployed' : ValidCloudClients(r)
    BY <1>1 DEF Edit, DeployInv
  <2>5. ValidCloudClients(release') => release' \in deployed'
    BY <1>1 DEF Edit
  <2>6. ClientsTypeOK'
    BY <1>1, <2>1, <2>2, <2>3 DEF Edit, DeployInv, ClientsTypeOK
  <2> QED
    BY <1>1, <2>4, <2>5, <2>6 DEF Edit, DeployInv, ValidCloudClients
<1>2. ASSUME NEW w \in Servers, Boot(w) PROVE DeployInv'
  <2>1. config' \in [Servers -> deployed \cup {Down}]
    BY <1>2 DEF Boot, DeployInv, ClientsTypeOK
  <2> QED
    BY <1>2, <2>1 DEF Boot, DeployInv, ClientsTypeOK, ValidCloudClients
<1>3. CASE Migrate
  <2>1. release \in deployed /\ release # Settled
    BY <1>3, ClientsAssumption DEF Migrate, DeployInv, ClientsTypeOK
  <2> QED
    BY <1>3, <2>1 DEF Migrate, DeployInv, ClientsTypeOK, ValidCloudClients
<1>4. ASSUME NEW e \in todo, ProvisionCloudClient(e) PROVE DeployInv'
  <2>1. \A c \in Clients : applications'[c].skip \in BOOLEAN
    <3> SUFFICES ASSUME NEW c \in Clients PROVE applications'[c].skip \in BOOLEAN
      OBVIOUS
    <3>1. applications'[c] = applications[c] \/ applications'[c] = UpdateOrCreateRow(e)
      BY <1>4 DEF ProvisionCloudClient
    <3>2. CASE applications'[c] = applications[c]
      BY <3>2 DEF DeployInv, ClientsTypeOK
    <3>3. CASE applications'[c] = UpdateOrCreateRow(e)
      BY <3>3 DEF UpdateOrCreateRow
    <3> QED
      BY <3>1, <3>2, <3>3
  <2> QED
    BY <1>4, <2>1 DEF ProvisionCloudClient, DeployInv, ClientsTypeOK, ValidCloudClients
<1>5. CASE MigrateEnds
  BY <1>5 DEF MigrateEnds, DeployInv, ClientsTypeOK, ValidCloudClients
<1>6. CASE MigrateAborts
  BY <1>6 DEF MigrateAborts, DeployInv, ClientsTypeOK, ValidCloudClients
<1>7. ASSUME NEW client \in Minted, NEW body \in Bodies, Register(client, body) PROVE DeployInv'
  <2>1. \A c \in Clients : applications'[c].skip \in BOOLEAN
    <3> SUFFICES ASSUME NEW c \in Clients PROVE applications'[c].skip \in BOOLEAN
      OBVIOUS
    <3>1. \/ applications'[c] = applications[c]
          \/ applications'[c] = [uris |-> Stored(body), skip |-> FALSE]
      BY <1>7 DEF Register
    <3>2. CASE applications'[c] = applications[c]
      BY <3>2 DEF DeployInv, ClientsTypeOK
    <3>3. CASE applications'[c] = [uris |-> Stored(body), skip |-> FALSE]
      BY <3>3
    <3> QED
      BY <3>1, <3>2, <3>3
  <2> QED
    BY <1>7, <2>1 DEF Register, DeployInv, ClientsTypeOK, ValidCloudClients
<1>8. ASSUME NEW w \in Servers, NEW q \in Requests, Authorize(w, q) PROVE DeployInv'
  <2>1. q.client \in Clients
    BY <1>8, RecognisedClient DEF Authorize
  <2>2. \A x \in {page', code'} : x = Nothing \/ x.client \in Clients
    BY <1>8, <2>1 DEF Authorize, DeployInv, ClientsTypeOK
  <2>3. UNCHANGED <<deploy, migrate, applications, approved>>
    BY <1>8 DEF Authorize
  <2> QED
    BY <2>2, <2>3 DEF DeployInv, ClientsTypeOK, ValidCloudClients
<1>9. ASSUME NEW w \in Servers, Consent(w) PROVE DeployInv'
  BY <1>9 DEF Consent, DeployInv, ClientsTypeOK, ValidCloudClients
<1>10. CASE Dismiss
  BY <1>10 DEF Dismiss, DeployInv, ClientsTypeOK, ValidCloudClients
<1>11. CASE Redeem
  BY <1>11 DEF Redeem, DeployInv, ClientsTypeOK, ValidCloudClients
<1>12. CASE UNCHANGED clientsVars
  BY <1>12 DEF clientsVars, DeployInv, ClientsTypeOK, ValidCloudClients
<1> QED
  BY <1>1, <1>2, <1>3, <1>4, <1>5, <1>6, <1>7, <1>8, <1>9, <1>10, <1>11, <1>12
     DEF ClientsNext, Rest

-----------------------------------------------------------------------------
(* The Application table *)

LEMMA InitTable == ClientsInit => TableInv /\ PageInv
<1> SUFFICES ASSUME ClientsInit PROVE TableInv /\ PageInv
  OBVIOUS
<1>1. DOMAIN applications = Clients
  BY DEF ClientsInit
<1>2. \A u \in applications[Canonical].uris : u.scheme = "http" /\ u.host \in LoopbackHosts
  <2>1. Canonical \in Clients
    BY DEF Clients
  <2>2. applications[Canonical].uris = {[scheme |-> "http", user |-> FALSE,
                                         host |-> "127.0.0.1", port |-> NoPort,
                                         path |-> <<>>]}
    BY <2>1 DEF ClientsInit, Canonical, Foreign
  <2> QED
    BY <2>2 DEF LoopbackHosts
<1>5. ASSUME NEW c \in Minted PROVE AsRegistered(applications[c].uris)
  <2>1. c \in Clients /\ c # Foreign /\ c # Canonical
    BY ClientsAssumption DEF Clients
  <2>2. applications[c] = NoRow
    BY <2>1 DEF ClientsInit
  <2> QED
    BY <2>2 DEF NoRow, AsRegistered
<1>3. ASSUME NEW c \in Slugs PROVE applications[c].uris = {}
  <2>1. c \in Clients /\ c # Foreign /\ c # Canonical
    BY ClientsAssumption DEF Clients
  <2>2. applications[c] = NoRow
    BY <2>1 DEF ClientsInit
  <2> QED
    BY <2>2 DEF NoRow
<1>4. migrating = Settled /\ provisioned = NotYet /\ page = Nothing
  BY DEF ClientsInit
<1> QED
  BY <1>1, <1>2, <1>3, <1>4, <1>5 DEF TableInv, PageInv

\* Writing an entry leaves the rows of the others as they are.
LEMMA RowsOfOthers ==
    ASSUME DeployInv, DOMAIN applications = Clients,
           NEW e \in todo, ProvisionCloudClient(e)
    PROVE  /\ e.name \in Slugs
           /\ migrating # Settled
           /\ e \in Releases[migrating].clients
           /\ applications'[e.name].uris = {e.uri}
           /\ \A c \in Clients \ {e.name} : applications'[c] = applications[c]
           /\ DOMAIN applications' = Clients
<1>1. migrating # Settled
  BY DEF DeployInv, ClientsTypeOK
<1>2. e \in Releases[migrating].clients /\ e.name \in Slugs
  BY <1>1, MigratingSettings, ValidEntry
<1>3. e.name \in Clients
  BY <1>2 DEF Clients
<1>4. applications'[e.name] = UpdateOrCreateRow(e)
  BY <1>3 DEF ProvisionCloudClient
<1>5. \A c \in Clients \ {e.name} : applications'[c] = applications[c]
  BY DEF ProvisionCloudClient
<1> QED
  BY <1>1, <1>2, <1>4, <1>5 DEF ProvisionCloudClient, UpdateOrCreateRow

\* As long as the rows of the cloud clients stay, what is written stays.
LEMMA TableStays ==
    ASSUME TableInv, UNCHANGED <<applications, migrating, todo, provisioned>>,
           deployed \subseteq deployed'
    PROVE  TableInv'
<1>1. \A c \in Slugs : \A u \in applications'[c].uris :
         \E r \in deployed' : \E e \in Releases[r].clients : e.name = c /\ e.uri = u
  BY DEF TableInv
<1> QED
  BY <1>1 DEF TableInv, Written

LEMMA NextTable == DeployInv /\ TableInv /\ [ClientsNext]_clientsVars => TableInv'
<1> SUFFICES ASSUME DeployInv, TableInv, [ClientsNext]_clientsVars PROVE TableInv'
  OBVIOUS
<1> USE DEF deploy, migrate, user
<1>1. CASE Edit
  BY <1>1, TableStays DEF Edit
<1>2. CASE Migrate
  <2>1. Written({})
    BY DEF Written
  <2>2. Releases[migrating'].clients \ todo' = {} /\ provisioned' = NotYet
    BY <1>2 DEF Migrate
  <2> QED
    BY <1>2, <2>2 DEF Migrate, TableInv, Written
<1>3. ASSUME NEW e \in todo, ProvisionCloudClient(e) PROVE TableInv'
  <2>1. /\ e.name \in Slugs /\ migrating # Settled
        /\ e \in Releases[migrating].clients
        /\ applications'[e.name].uris = {e.uri}
        /\ \A c \in Clients \ {e.name} : applications'[c] = applications[c]
        /\ DOMAIN applications' = Clients
    BY <1>3, RowsOfOthers DEF TableInv
  <2>2. UNCHANGED <<migrating, provisioned, deployed>> /\ todo' = todo \ {e}
    BY <1>3 DEF ProvisionCloudClient
  <2>3. migrating \in deployed /\ migrating \in DOMAIN Releases /\ ValidCloudClients(migrating)
        /\ todo \subseteq Releases[migrating].clients /\ provisioned = NotYet
    BY <2>1, MigratingSettings
  <2>4. ASSUME NEW c \in {Canonical} \cup Minted PROVE applications'[c] = applications[c]
    BY <2>1, ClientsAssumption DEF Clients
  <2>5. ASSUME NEW c \in Slugs, NEW u \in applications'[c].uris
        PROVE  \E r \in deployed' : \E f \in Releases[r].clients : f.name = c /\ f.uri = u
    <3>1. CASE c = e.name
      BY <2>1, <2>2, <2>3, <2>5, <3>1
    <3>2. CASE c # e.name
      <4>1. c \in Clients \ {e.name}
        BY <3>2 DEF Clients
      <4> QED
        BY <2>1, <2>2, <2>5, <4>1 DEF TableInv
    <3> QED
      BY <3>1, <3>2
  <2>6. ASSUME NEW f \in Releases[migrating].clients \ (todo \ {e})
        PROVE  applications'[f.name].uris = {f.uri}
    <3>1. CASE f = e
      BY <2>1, <3>1
    <3>2. CASE f # e
      <4>1. f.name \in Slugs /\ f.name # e.name
        BY <2>1, <2>3, <2>6, <3>2, ValidEntry
      <4>2. f.name \in Clients \ {e.name}
        BY <4>1 DEF Clients
      <4>3. applications[f.name].uris = {f.uri}
        BY <2>1, <2>6, <3>2 DEF TableInv, Written
      <4> QED
        BY <2>1, <4>2, <4>3
    <3> QED
      BY <3>1, <3>2
  <2> QED
    BY <2>1, <2>2, <2>3, <2>4, <2>5, <2>6 DEF TableInv, Written
<1>4. CASE MigrateEnds
  <2>1. Written(Releases[migrating].clients)
    <3>1. Releases[migrating].clients \ todo = Releases[migrating].clients
      BY <1>4 DEF MigrateEnds
    <3> QED
      BY <1>4, <3>1 DEF MigrateEnds, TableInv
  <2> QED
    BY <1>4, <2>1 DEF MigrateEnds, TableInv, Written
<1>5. CASE MigrateAborts
  BY <1>5 DEF MigrateAborts, TableInv, Written
<1>6. ASSUME NEW client \in Minted, NEW body \in Bodies, Register(client, body) PROVE TableInv'
  <2>1. client \in Clients /\ client \notin Slugs
    BY ClientsAssumption DEF Clients
  <2>2. /\ applications'[client].uris = Stored(body)
        /\ \A c \in Clients \ {client} : applications'[c] = applications[c]
        /\ DOMAIN applications' = Clients
    BY <1>6, <2>1 DEF Register, TableInv
  <2>3. UNCHANGED <<migrating, todo, provisioned, deployed>>
    BY <1>6 DEF Register
  <2>4. applications'[Canonical] = applications[Canonical]
    BY <2>2, ClientsAssumption DEF Clients
  <2>9. ASSUME NEW c \in Minted PROVE AsRegistered(applications'[c].uris)
    <3>1. CASE c = client
      BY <1>6, <2>2, <3>1 DEF Register, AsRegistered
    <3>2. CASE c # client
      BY <2>2, <3>2 DEF TableInv, Clients
    <3> QED
      BY <3>1, <3>2
  <2>5. \A c \in Slugs : applications'[c] = applications[c]
    BY <2>1, <2>2 DEF Clients
  <2>6. ASSUME NEW r \in deployed, NEW e \in Releases[r].clients
        PROVE  applications'[e.name] = applications[e.name]
    BY <2>5, ValidEntry DEF DeployInv, ClientsTypeOK
  <2>7. ASSUME migrating # Settled PROVE Written(Releases[migrating].clients \ todo)'
    BY <2>3, <2>6, <2>7, MigratingSettings DEF TableInv, Written
  <2>8. ASSUME provisioned # NotYet PROVE Written(Releases[provisioned].clients)'
    BY <2>3, <2>6, <2>8 DEF TableInv, Written, DeployInv, ClientsTypeOK
  <2> QED
    BY <2>2, <2>3, <2>4, <2>5, <2>7, <2>8, <2>9 DEF TableInv, Written
<1>7. ASSUME NEW w \in Servers,
             Boot(w) \/ Consent(w) \/ \E q \in Requests : Authorize(w, q)
      PROVE  TableInv'
  BY <1>7, TableStays DEF Boot, Consent, Authorize
<1>8. CASE Dismiss \/ Redeem \/ UNCHANGED clientsVars
  BY <1>8, TableStays DEF Dismiss, Redeem, clientsVars
<1> QED
  BY <1>1, <1>2, <1>3, <1>4, <1>5, <1>6, <1>7, <1>8 DEF ClientsNext, Rest

\* What a cloud client's row holds is a URL.
LEMMA RowHoldsUrls ==
    ASSUME DeployInv, TableInv, NEW c \in Slugs, NEW u \in applications[c].uris
    PROVE  u \in Url
BY ValidEntry DEF DeployInv, ClientsTypeOK, TableInv

\* What a worker sends an answer of a cloud client to is a URL.
LEMMA TargetsAreUrls ==
    ASSUME DeployInv, TableInv, NEW w \in Servers, NEW q \in Requests,
           q.client \in Slugs, NEW u \in Targets(w, q)
    PROVE  u \in Url
<1>1. CASE q.uri = Omitted
  BY <1>1, RowHoldsUrls DEF Targets
<1>2. CASE q.uri # Omitted
  BY <1>2, ClientsAssumption DEF Targets
<1> QED
  BY <1>1, <1>2

LEMMA NextPage == DeployInv /\ TableInv /\ PageInv /\ [ClientsNext]_clientsVars => PageInv'
<1> SUFFICES ASSUME DeployInv, TableInv, PageInv, [ClientsNext]_clientsVars PROVE PageInv'
  OBVIOUS
<1> USE DEF deploy, migrate, user
<1>1. ASSUME NEW w \in Servers, NEW q \in Requests, Authorize(w, q) PROVE PageInv'
  <2>1. PICK u \in Targets(w, q) : page' = [client |-> q.client, uri |-> u] \/ UNCHANGED page
    BY <1>1 DEF Authorize
  <2>2. q.client \in Slugs => u \in Url
    BY TargetsAreUrls
  <2> QED
    BY <2>1, <2>2 DEF PageInv
<1>2. ASSUME NEW w \in Servers, Boot(w) \/ Consent(w) PROVE PageInv'
  BY <1>2 DEF Boot, Consent, PageInv
<1>3. CASE Edit \/ Migrate \/ MigrateEnds \/ MigrateAborts
  BY <1>3 DEF Edit, Migrate, MigrateEnds, MigrateAborts, PageInv
<1>4. CASE Dismiss \/ Redeem \/ UNCHANGED clientsVars
  BY <1>4 DEF Dismiss, Redeem, clientsVars, PageInv
<1>5. ASSUME NEW e \in todo, ProvisionCloudClient(e) PROVE PageInv'
  BY <1>5 DEF ProvisionCloudClient, PageInv
<1>6. ASSUME NEW client \in Minted, NEW body \in Bodies, Register(client, body) PROVE PageInv'
  BY <1>6 DEF Register, PageInv
<1> QED
  BY <1>1, <1>2, <1>3, <1>4, <1>5, <1>6 DEF ClientsNext, Rest

LEMMA ClientsInvariant == ClientsSpec => []ClientsInv
<1>1. ClientsInit => ClientsInv
  BY InitDeploys, InitTable DEF ClientsInv
<1>2. ClientsInv /\ [ClientsNext]_clientsVars => ClientsInv'
  BY NextDeploys, NextTable, NextPage DEF ClientsInv
<1> QED
  BY <1>1, <1>2, PTL DEF ClientsSpec

-----------------------------------------------------------------------------
(* Codes *)

\* What the toolkit takes for the callback of an entry, the settings that hold
\* the entry declare.
LEMMA StockMatchDeclared ==
    ASSUME NEW r \in DOMAIN Releases, ValidCloudClients(r), NEW e \in Releases[r].clients,
           NEW u \in Url, StockMatch(u, e.uri)
    PROVE  Declares(r, e.name, u)
<1>1. ValidCloudRedirect(e.match, e.uri) /\ e.uri \in Url
  BY ValidEntry
<1>2. u.scheme = e.uri.scheme /\ u.host = e.uri.host /\ u.port = e.uri.port /\ u.path = e.uri.path
  BY <1>1 DEF StockMatch, ValidCloudRedirect
<1>3. /\ SameOrigin(u, e.uri) /\ Resolve(u.path) = e.uri.path
      /\ e.match = "prefix" => LandsUnder(u, e.uri)
  BY <1>1, <1>2, CallbackLands
<1> QED
  BY <1>3 DEF Declares

\* ... and what _redirect_under_prefix lets under its prefix.
LEMMA PrefixDeclared ==
    ASSUME NEW r \in DOMAIN Releases, ValidCloudClients(r), NEW e \in Releases[r].clients,
           e.match = "prefix", NEW u \in Url, RedirectUnderPrefix(u, e.uri)
    PROVE  Declares(r, e.name, u)
<1>1. LandsUnder(u, e.uri)
  BY ValidEntry, UnderPrefixLands
<1> QED
  BY <1>1 DEF Declares

\* What the toolkit takes for an address of a client that registered or is built
\* in is loopback, or a word of a text that it has split.
LEMMA LoopbackOrSplit ==
    ASSUME TableInv, NEW client \in {Canonical} \cup Minted, NEW u, NEW r,
           \E registered \in applications[client].uris : StockMatch(u, registered)
    PROVE  Declares(r, client, u) \/ SplitOff(client, u)
<1>1. PICK registered \in applications[client].uris : StockMatch(u, registered)
  OBVIOUS
<1>2. CASE registered.scheme = "http" /\ registered.host \in LoopbackHosts
  BY <1>1, <1>2 DEF StockMatch, Declares
<1>3. CASE client = Canonical
  BY <1>1, <1>2, <1>3 DEF TableInv
<1>4. CASE client \in Minted
  <2>1. PICK body \in Bodies : Registrable(body) /\ applications[client].uris = Stored(body)
    BY <1>1, <1>4 DEF TableInv, AsRegistered
  <2>2. PICK text \in body.redirects : registered \in text.words
    BY <1>1, <2>1 DEF Stored
  <2>3. text.read.scheme = "http" /\ text.read.host \in LoopbackHosts
    BY <2>1, <2>2 DEF Registrable, IsLoopbackRedirect
  <2>4. CASE text.words = {text.read}
    BY <1>2, <2>2, <2>3, <2>4
  <2>5. CASE text.words # {text.read}
    BY <1>1, <1>4, <2>1, <2>2, <2>5 DEF SplitOff
  <2> QED
    BY <2>4, <2>5
<1> QED
  BY <1>3, <1>4

\* The row's own redirect matches itself.
LEMMA StockMatchSelf == \A u : StockMatch(u, u)
BY DEF StockMatch

\* The worker's settings send the client's codes to u, or a text that was split
\* does, or the row of a cloud client in its settings.
Admitted(w, client, u) ==
    \/ Declares(config[w], client, u)
    \/ SplitOff(client, u)
    \/ /\ client \in Slugs /\ client \in CloudClients(config[w])
       /\ u \in Url
       /\ \E registered \in applications[client].uris : StockMatch(u, registered)

LEMMA MatchIsAdmitted ==
    ASSUME ClientsInv, NEW w \in Servers, config[w] # Down, NEW client, ValidClient(w, client),
           NEW u, client \in Slugs => u \in Url,
           \E registered \in applications[client].uris : StockMatch(u, registered)
    PROVE  Admitted(w, client, u)
BY RecognisedClient, LoopbackOrSplit DEF ClientsInv, Admitted

LEMMA RedirectIsAdmitted ==
    ASSUME ClientsInv, NEW w \in Servers, config[w] # Down, NEW client, ValidClient(w, client),
           NEW u, client \in Slugs => u \in Url, ValidRedirect(w, client, u)
    PROVE  Admitted(w, client, u)
<1> DEFINE r == config[w]
           e == Entry(r, client)
<1>1. CASE client \in CloudClients(r) /\ e.match = "prefix"
  <2>1. r \in deployed /\ r \in DOMAIN Releases /\ ValidCloudClients(r)
    BY RunningSettings DEF ClientsInv
  <2>2. e \in Releases[r].clients /\ e.name = client
    BY <1>1 DEF Entry, CloudClients
  <2>3. u \in Url
    BY <2>1, <2>2, ValidEntry
  <2>4. RedirectUnderPrefix(u, e.uri)
    BY <1>1 DEF ValidRedirect
  <2> HIDE DEF e, r
  <2>5. Declares(r, e.name, u)
    BY <1>1, <2>1, <2>2, <2>3, <2>4, PrefixDeclared
  <2> QED
    BY <2>2, <2>5 DEF r, Admitted
<1>2. CASE ~(client \in CloudClients(r) /\ e.match = "prefix")
  BY <1>2, MatchIsAdmitted DEF ValidRedirect
<1> QED
  BY <1>1, <1>2

\* Every code is issued by a worker that runs, to a redirect it admits.
LEMMA CodeIsAdmitted ==
    ASSUME ClientsInv, ClientsNext, code' # code, code' # Nothing
    PROVE  \E w \in Servers : config[w] # Down /\ Admitted(w, code'.client, code'.uri)
<1> USE DEF deploy, migrate, user
<1>1. ASSUME NEW w \in Servers, NEW q \in Requests, Authorize(w, q)
      PROVE  config[w] # Down /\ Admitted(w, code'.client, code'.uri)
  <2>1. PICK u \in Targets(w, q) : code' = [client |-> q.client, uri |-> u]
    BY <1>1 DEF Authorize
  <2>2. config[w] # Down /\ ValidClient(w, q.client)
    BY <1>1 DEF Authorize
  <2>3. q.client \in Slugs => u \in Url
    BY TargetsAreUrls DEF ClientsInv
  <2>4. CASE q.uri = Omitted
    <3>1. u \in applications[q.client].uris
      BY <2>4 DEF Targets
    <3> QED
      BY <2>1, <2>2, <2>3, <3>1, MatchIsAdmitted, StockMatchSelf
  <2>5. CASE q.uri # Omitted
    <3>1. ValidRedirect(w, q.client, u)
      BY <2>5 DEF Targets
    <3> QED
      BY <2>1, <2>2, <2>3, <3>1, RedirectIsAdmitted
  <2> QED
    BY <2>4, <2>5
<1>2. ASSUME NEW w \in Servers, Consent(w)
      PROVE  config[w] # Down /\ Admitted(w, code'.client, code'.uri)
  <2>1. code' = page /\ page # Nothing /\ config[w] # Down
    BY <1>2 DEF Consent
  <2>2. ValidClient(w, page.client) /\ ValidRedirect(w, page.client, page.uri)
    BY <1>2 DEF Consent
  <2>3. page.client \in Slugs => page.uri \in Url
    BY <2>1 DEF ClientsInv, PageInv
  <2> QED
    BY <2>1, <2>2, <2>3, RedirectIsAdmitted
<1>3. \E w \in Servers : Consent(w) \/ \E q \in Requests : Authorize(w, q)
  BY DEF ClientsNext, Rest, clientsVars, Edit, Migrate, MigrateEnds, MigrateAborts, Dismiss,
         Redeem, ProvisionCloudClient, Boot, Register
<1> QED
  BY <1>1, <1>2, <1>3

\* What is admitted, settings that were valid when they were released declare.
LEMMA AdmittedIsDeclared ==
    ASSUME ClientsInv, NEW w \in Servers, config[w] # Down, NEW client, NEW u,
           Admitted(w, client, u)
    PROVE  (\E r \in deployed : Declares(r, client, u)) \/ SplitOff(client, u)
<1>1. CASE Declares(config[w], client, u)
  BY <1>1, RunningSettings DEF ClientsInv
<1>2. CASE ~Declares(config[w], client, u) /\ ~SplitOff(client, u)
  <2>1. PICK registered \in applications[client].uris : StockMatch(u, registered)
    BY <1>2 DEF Admitted
  <2>2. client \in Slugs /\ u \in Url
    BY <1>2 DEF Admitted
  <2>3. PICK r \in deployed :
           \E e \in Releases[r].clients : e.name = client /\ e.uri = registered
    BY <2>1, <2>2 DEF ClientsInv, TableInv
  <2>4. r \in DOMAIN Releases /\ ValidCloudClients(r)
    BY <2>3 DEF ClientsInv, DeployInv, ClientsTypeOK
  <2> QED
    BY <2>1, <2>2, <2>3, <2>4, StockMatchDeclared
<1> QED
  BY <1>1, <1>2

\* The row of a client that registered is never written again.
LEMMA RegisteredRowStays ==
    ASSUME DeployInv, TableInv, [ClientsNext]_clientsVars,
           NEW client \in Minted, applications[client].uris # {}
    PROVE  applications'[client] = applications[client]
<1> USE DEF deploy, migrate, user
<1>1. ASSUME NEW e \in todo, ProvisionCloudClient(e)
      PROVE  applications'[client] = applications[client]
  <2>1. e.name \in Slugs /\ \A c \in Clients \ {e.name} : applications'[c] = applications[c]
    BY <1>1, RowsOfOthers DEF TableInv
  <2> QED
    BY <2>1, ClientsAssumption DEF Clients
<1>2. ASSUME NEW c \in Minted, NEW body \in Bodies, Register(c, body)
      PROVE  applications'[client] = applications[client]
  <2>1. c # client
    BY <1>2 DEF Register, NoRow
  <2> QED
    BY <1>2, <2>1 DEF Register, TableInv, Clients
<1>3. ASSUME NEW w \in Servers, Boot(w) \/ Consent(w) \/ \E q \in Requests : Authorize(w, q)
      PROVE  applications' = applications
  BY <1>3 DEF Boot, Consent, Authorize
<1>4. CASE Edit \/ Migrate \/ MigrateEnds \/ MigrateAborts
  BY <1>4 DEF Edit, Migrate, MigrateEnds, MigrateAborts
<1>5. CASE Dismiss \/ Redeem \/ UNCHANGED clientsVars
  BY <1>5 DEF Dismiss, Redeem, clientsVars
<1> QED
  BY <1>1, <1>2, <1>3, <1>4, <1>5 DEF ClientsNext, Rest

\* However deploys, half-done migrates and requests interleave, a code goes
\* where valid settings released so far declare the callback of that very client,
\* to a loopback address for one that registered or is built in, or, for one that
\* registered, to a word of a text with whitespace in its own request.
THEOREM CodesStayDeclared == ClientsSpec => []CodesGoWhereDeclared
<1>1. ClientsInit => CodesGoWhereDeclared
  BY DEF ClientsInit, CodesGoWhereDeclared
<1>2. ASSUME ClientsInv, CodesGoWhereDeclared, [ClientsNext]_clientsVars
      PROVE  CodesGoWhereDeclared'
  <2> DEFINE client == code'.client
             u      == code'.uri
  <2>1. deployed \subseteq deployed'
    BY <1>2 DEF ClientsNext, Rest, clientsVars, Edit, Migrate, MigrateEnds, MigrateAborts,
                Dismiss, Redeem, ProvisionCloudClient, Boot, Register, Authorize, Consent, deploy
  <2>2. ASSUME code' # Nothing
        PROVE  (\E r \in deployed : Declares(r, client, u)) \/ SplitOff(client, u)
    <3>1. CASE code' = code
      BY <1>2, <2>2, <3>1 DEF CodesGoWhereDeclared
    <3>2. CASE code' # code
      <4>1. ClientsNext
        BY <1>2, <3>2 DEF clientsVars
      <4>2. PICK w \in Servers : config[w] # Down /\ Admitted(w, code'.client, code'.uri)
        BY <1>2, <2>2, <3>2, <4>1, CodeIsAdmitted
      <4> QED
        BY <1>2, <4>2, AdmittedIsDeclared
    <3> QED
      BY <3>1, <3>2
  <2>3. ASSUME NEW r, Declares(r, client, u) PROVE Declares(r, code.client, code.uri)'
    BY <2>3 DEF Declares
  <2>4. ASSUME SplitOff(client, u) PROVE SplitOff(code.client, code.uri)'
    <3>1. client \in Minted /\ applications[client].uris # {}
      BY <2>4 DEF SplitOff, Stored
    <3>2. applications'[client] = applications[client]
      BY <1>2, <3>1, RegisteredRowStays DEF ClientsInv
    <3> QED
      BY <2>4, <3>2 DEF SplitOff
  <2> QED
    BY <2>1, <2>2, <2>3, <2>4 DEF CodesGoWhereDeclared
<1> QED
  BY <1>1, <1>2, ClientsInvariant, PTL DEF ClientsSpec

\* Once a deploy is complete no code goes where an earlier release sent it,
\* neither to a page left open before nor by a row left behind, but for the words
\* of a text with whitespace that a client has registered.
THEOREM CodesFollowRelease == ClientsSpec => NewCodesFollowRelease
<1>1. ASSUME ClientsInv, [ClientsNext]_clientsVars, DeployComplete, code' # code, code' # Nothing
      PROVE  Declares(release, code'.client, code'.uri) \/ SplitOff(code'.client, code'.uri)
  <2>1. ClientsNext
    BY <1>1 DEF clientsVars
  <2>2. PICK w \in Servers : config[w] # Down /\ Admitted(w, code'.client, code'.uri)
    BY <1>1, <2>1, CodeIsAdmitted
  <2>3. config[w] = release
    BY <1>1, <2>2 DEF DeployComplete
  <2>4. release \in DOMAIN Releases /\ ValidCloudClients(release)
    BY <1>1, <2>2, <2>3, RunningSettings DEF ClientsInv
  <2>5. CASE ~Declares(release, code'.client, code'.uri) /\ ~SplitOff(code'.client, code'.uri)
    <3> DEFINE client == code'.client
               u      == code'.uri
    <3>1. PICK registered \in applications[client].uris : StockMatch(u, registered)
      BY <2>2, <2>3, <2>5 DEF Admitted
    <3>2. u \in Url
      BY <2>2, <2>3, <2>5 DEF Admitted
    <3>3. PICK e \in Releases[release].clients : e.name = client
      BY <2>2, <2>3, <2>5 DEF Admitted, CloudClients
    <3>4. applications[e.name].uris = {e.uri}
      <4>1. provisioned = release /\ release # NotYet
        BY <1>1, <2>4, ClientsAssumption DEF DeployComplete
      <4> QED
        BY <1>1, <4>1 DEF ClientsInv, TableInv, Written
    <3>5. registered = e.uri
      BY <3>1, <3>3, <3>4
    <3> HIDE DEF u, client
    <3>6. Declares(release, e.name, u)
      BY <2>4, <3>1, <3>2, <3>5, StockMatchDeclared
    <3> QED
      BY <3>3, <3>6 DEF u, client
  <2> QED
    BY <2>5
<1>2. ClientsInv /\ [ClientsNext]_clientsVars
        => [DeployComplete /\ code' # code /\ code' # Nothing
              => \/ Declares(release, code'.client, code'.uri)
                 \/ SplitOff(code'.client, code'.uri)]_clientsVars
  BY <1>1
<1> QED
  BY <1>2, ClientsInvariant, PTL DEF ClientsSpec, NewCodesFollowRelease

\* Every variable of the clients has its type.
THEOREM ClientsTypeCorrect == ClientsSpec => []ClientsTypeOK
<1>1. ClientsInv => ClientsTypeOK
  BY DEF ClientsInv, DeployInv
<1> QED
  BY <1>1, ClientsInvariant, PTL
=============================================================================
