--------------------------- MODULE EndpointProofs ---------------------------
(***************************************************************************)
(* Proofs about _get_asgi_loop and about a request on the shared loop, for *)
(* any number of threads, loops, calls and pool threads.  A step of        *)
(* Endpoint is a step of AsgiLoop or leaves its variables alone, so what   *)
(* is proved of AsgiLoop holds of it.                                      *)
(***************************************************************************)
EXTENDS Endpoint, TLAPS

-----------------------------------------------------------------------------
(* _get_asgi_loop *)

LEMMA NextLoopIsNew == Loops \ created # {} => NextLoop \in Loops \ created
BY DEF NextLoop

LEMMA InitInv == Init => Inv
BY AsgiLoopAssumption DEF Init, Inv, TypeOK, LockInv, HolderInv, Stages

\* Every step of a request thread or of a daemon thread keeps the invariant.
LEMMA NextInv == Inv /\ [Next]_vars => Inv'
<1> SUFFICES ASSUME Inv, [Next]_vars PROVE Inv'
  OBVIOUS
<1> USE AsgiLoopAssumption DEF Inv, TypeOK, LockInv, HolderInv, Stages, Goto
<1>1. ASSUME NEW t \in Threads, Call(t) PROVE Inv'
  BY <1>1 DEF Call
<1>2. ASSUME NEW t \in Threads, FastPath(t) PROVE Inv'
  BY <1>2 DEF FastPath
<1>3. ASSUME NEW t \in Threads, Acquire(t) PROVE Inv'
  BY <1>3 DEF Acquire
<1>4. ASSUME NEW t \in Threads, RecheckHits(t) PROVE Inv'
  BY <1>4 DEF RecheckHits
<1>5. ASSUME NEW t \in Threads, StartLoop(t) PROVE Inv'
  BY <1>5, NextLoopIsNew DEF StartLoop
<1>6. ASSUME NEW t \in Threads, Publish(t) PROVE Inv'
  BY <1>6 DEF Publish
<1>7. ASSUME NEW t \in Threads, TimeOut(t) PROVE Inv'
  BY <1>7 DEF TimeOut
<1>8. ASSUME NEW l \in Loops, LoopRuns(l) PROVE Inv'
  BY <1>8 DEF LoopRuns
<1>9. CASE UNCHANGED vars
  BY <1>9 DEF vars
<1> QED
  BY <1>1, <1>2, <1>3, <1>4, <1>5, <1>6, <1>7, <1>8, <1>9 DEF Next, Proceed, Done

LEMMA InvHolds == Spec => []Inv
BY InitInv, NextInv, PTL DEF Spec

\* _get_asgi_loop keeps its types, for any number of threads and loops.
THEOREM TypeCorrect == Spec => []TypeOK
<1>1. Inv => TypeOK
  BY DEF Inv
<1> QED
  BY <1>1, InvHolds, PTL

\* Every caller that returns has the loop in the holder, and it is running.
THEOREM SharedLoopRuns == Spec => []OneRunningLoop
<1>1. Inv => OneRunningLoop
  BY DEF Inv, HolderInv, OneRunningLoop
<1> QED
  BY <1>1, InvHolds, PTL

\* A loop whose startup timed out is never published, also if it runs later.
THEOREM LateLoopStaysOut == Spec => []TimedOutNeverPublished
<1>1. Inv => TimedOutNeverPublished
  BY AsgiLoopAssumption DEF Inv, TypeOK, HolderInv, TimedOutNeverPublished
<1> QED
  BY <1>1, InvHolds, PTL

\* Once published, a loop stays: only a thread under the lock that found the
\* holder empty writes it.
THEOREM PublishedLoopStays == Spec => HolderStable
<1>1. Inv /\ [Next]_vars => [holder # None => holder' = holder]_vars
  BY DEF Inv, LockInv, Next, Proceed, Call, FastPath, Acquire, RecheckHits,
         StartLoop, Publish, TimeOut, LoopRuns, Done, vars
<1> QED
  BY <1>1, InvHolds, PTL DEF Spec, HolderStable

\* Loops and daemon threads leak only where a startup raised.
THEOREM LeakOnlyByTimeout == Spec => []LeaksOnlyOnTimeout
<1> USE DEF LeaksOnlyOnTimeout
<1>1. Init => LeaksOnlyOnTimeout
  BY DEF Init
<1>2. Inv /\ LeaksOnlyOnTimeout /\ [Next]_vars => LeaksOnlyOnTimeout'
  <2> SUFFICES ASSUME Inv, LeaksOnlyOnTimeout, [Next]_vars
               PROVE  LeaksOnlyOnTimeout'
    OBVIOUS
  <2> USE AsgiLoopAssumption DEF Inv, TypeOK, LockInv, Stages, Goto
  <2>1. ASSUME NEW t \in Threads, Call(t) \/ FastPath(t) \/ Acquire(t) \/ RecheckHits(t)
        PROVE  LeaksOnlyOnTimeout'
    BY <2>1 DEF Call, FastPath, Acquire, RecheckHits
  <2>2. ASSUME NEW t \in Threads, StartLoop(t) PROVE LeaksOnlyOnTimeout'
    BY <2>2, NextLoopIsNew DEF StartLoop
  <2>3. ASSUME NEW t \in Threads, Publish(t) PROVE LeaksOnlyOnTimeout'
    BY <2>3 DEF Publish
  <2>4. ASSUME NEW t \in Threads, TimeOut(t) PROVE LeaksOnlyOnTimeout'
    BY <2>4 DEF TimeOut
  <2>5. ASSUME NEW l \in Loops, LoopRuns(l) PROVE LeaksOnlyOnTimeout'
    BY <2>5 DEF LoopRuns
  <2>6. CASE UNCHANGED vars
    BY <2>6 DEF vars
  <2> QED
    BY <2>1, <2>2, <2>3, <2>4, <2>5, <2>6 DEF Next, Proceed, Done
<1> QED
  BY <1>1, <1>2, InvHolds, PTL DEF Spec

-----------------------------------------------------------------------------
(* A request on the loop *)

\* The endpoint uses the loop as AsgiLoop says.
THEOREM LoopUsedAsSpecified == EndpointSpec => Spec
<1>1. EndpointInit => Init
  BY DEF EndpointInit
<1>2. [EndpointNext]_endpointVars => [Next]_vars
  BY DEF EndpointNext, endpointVars, Next, NextRequest, GetLoop, Bridge, Join,
         JoinRaises, OnLoop, EnterLifespan, RespondAlone, CallTool, Resume,
         DispatchRaises, LeaveLifespan, TakeTool, RunTool, CloseConnsAfter,
         EndpointDone
<1> QED
  BY <1>1, <1>2, PTL DEF EndpointSpec, Spec

\* Every request is bridged to the one loop of its process, and it is running.
THEOREM RequestsShareRunningLoop == EndpointSpec => []OneRunningLoop
BY LoopUsedAsSpecified, SharedLoopRuns, PTL

LEMMA InitEndpointInv == EndpointInit => EndpointInv
<1> SUFFICES ASSUME EndpointInit PROVE EndpointInv
  OBVIOUS
<1>1. TypeOK
  BY InitInv DEF EndpointInit, Inv
<1> QED
  BY <1>1, EndpointAssumption, AsgiLoopAssumption
  DEF EndpointInit, Init, EndpointInv, EndpointTypeOK, Tasks, Replies

\* A thread on its way to the loop has no coroutine; one that has returned
\* keeps its place until the next request.
LEMMA PlaceKept ==
    ASSUME TypeOK, NEW t \in Threads, Proceed(t) \/ (\E l \in Loops : LoopRuns(l)),
           NEW u \in Threads, at[u] = "returned"
    PROVE  at'[u] = "returned"
BY DEF TypeOK, Proceed, FastPath, Acquire, RecheckHits, StartLoop, Publish, TimeOut,
       LoopRuns, Goto

\* Every step keeps the invariant: those of the request thread, of the
\* coroutine, of the pool, and of a daemon thread that starts.
LEMMA NextEndpointInv ==
    TypeOK' /\ EndpointInv /\ [EndpointNext]_endpointVars => EndpointInv'
<1> SUFFICES ASSUME TypeOK', EndpointInv, [EndpointNext]_endpointVars
             PROVE  EndpointInv'
  OBVIOUS
<1> USE EndpointAssumption, AsgiLoopAssumption
    DEF EndpointInv, EndpointTypeOK, Tasks, Replies, TaskTo, requestVars, poolVars
<1>1. ASSUME NEW t \in Threads, NextRequest(t) PROVE EndpointInv'
  BY <1>1 DEF NextRequest, Call, Goto, TypeOK
<1>2. ASSUME NEW t \in Threads, GetLoop(t) PROVE EndpointInv'
  BY <1>2, PlaceKept DEF GetLoop
<1>3. ASSUME NEW t \in Threads, Bridge(t) PROVE EndpointInv'
  BY <1>3 DEF Bridge, vars
<1>4. ASSUME NEW t \in Threads, Join(t) \/ JoinRaises(t) PROVE EndpointInv'
  <2>1. PICK given \in Replies : answer' = [answer EXCEPT ![t] = given]
    BY <1>4 DEF Join, JoinRaises
  <2>2. /\ t \in bodies /\ bodies' = bodies \ {t}
        /\ UNCHANGED <<vars, task, lifespan, sent, queue, call, progress, open>>
    BY <1>4 DEF Join, JoinRaises
  <2>3. /\ EndpointTypeOK'
        /\ \A u \in Threads : /\ task'[u] = "none" => answer'[u] = "none" /\ u \notin bodies'
                              /\ answer'[u] # "none" => u \notin bodies'
    BY <2>1, <2>2
  <2> QED
    BY <2>2, <2>3 DEF vars
<1>5. ASSUME NEW t \in Threads,
             EnterLifespan(t) \/ RespondAlone(t) \/ Resume(t) \/ DispatchRaises(t)
      PROVE  EndpointInv'
  BY <1>5 DEF EnterLifespan, RespondAlone, Resume, DispatchRaises, vars
<1>6. ASSUME NEW t \in Threads, CallTool(t) PROVE EndpointInv'
  <2>1. /\ queue' \in Seq(Threads)
        /\ DOMAIN queue' = DOMAIN queue \cup {Len(queue) + 1}
        /\ Len(queue) + 1 \notin DOMAIN queue
        /\ \A i \in DOMAIN queue : queue'[i] = queue[i]
        /\ queue'[Len(queue) + 1] = t
    BY <1>6 DEF CallTool
  <2>2. /\ \A i \in DOMAIN queue : queue[i] # t
        /\ \A p \in Pool : call[p] # t
    BY <1>6 DEF CallTool
  <2>3. /\ \A i \in DOMAIN queue' : task'[queue'[i]] = "tool"
        /\ \A i, j \in DOMAIN queue' : queue'[i] = queue'[j] => i = j
        /\ \A p \in Pool : \A i \in DOMAIN queue' : queue'[i] # call'[p]
    BY <1>6, <2>1, <2>2 DEF CallTool
  <2>4. EndpointTypeOK'
    BY <1>6, <2>1 DEF CallTool, vars
  <2> QED
    BY <1>6, <2>3, <2>4 DEF CallTool, vars
<1>7. ASSUME NEW t \in Threads, LeaveLifespan(t) PROVE EndpointInv'
  BY <1>7 DEF LeaveLifespan, vars
<1>8. ASSUME NEW p \in Pool, TakeTool(p) PROVE EndpointInv'
  BY <1>8 DEF TakeTool, vars
<1>9. ASSUME NEW p \in Pool, RunTool(p) PROVE EndpointInv'
  BY <1>9 DEF RunTool, vars
<1>10. ASSUME NEW p \in Pool, CloseConnsAfter(p) PROVE EndpointInv'
  BY <1>10 DEF CloseConnsAfter, vars
<1>11. ASSUME NEW l \in Loops, LoopRuns(l), UNCHANGED <<requestVars, poolVars>>
       PROVE  EndpointInv'
  BY <1>11 DEF LoopRuns
<1>12. CASE UNCHANGED endpointVars
  BY <1>12 DEF endpointVars, vars
<1> QED
  BY <1>1, <1>2, <1>3, <1>4, <1>5, <1>6, <1>7, <1>8, <1>9, <1>10, <1>11, <1>12
  DEF EndpointNext, OnLoop, EndpointDone, Done, endpointVars

LEMMA EndpointInvHolds == EndpointSpec => []EndpointInv
BY InitEndpointInv, NextEndpointInv, LoopUsedAsSpecified, TypeCorrect, PTL
DEF EndpointSpec

\* Every variable of a request, of the pool and of the loop keeps its type.
THEOREM EndpointTypeCorrect == EndpointSpec => []EndpointTypeOK
<1>1. EndpointInv => EndpointTypeOK
  BY DEF EndpointInv
<1> QED
  BY <1>1, EndpointInvHolds, PTL

\* No pool thread keeps a read-only connection from one tool call to the next.
THEOREM PoolThreadsStayClean == EndpointSpec => []PoolThreadsClean
<1>1. EndpointInv => PoolThreadsClean
  BY DEF EndpointInv, PoolThreadsClean
<1> QED
  BY <1>1, EndpointInvHolds, PTL

\* Every tool call is made inside its own request's lifespan, and a request
\* that is over has left it and closed its body.
THEOREM LifespansBalance == EndpointSpec => []LifespanAroundDispatch
<1>1. EndpointInv => LifespanAroundDispatch
  BY DEF EndpointInv, LifespanAroundDispatch
<1> QED
  BY <1>1, EndpointInvHolds, PTL
=============================================================================
