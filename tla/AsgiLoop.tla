------------------------------ MODULE AsgiLoop ------------------------------
(***************************************************************************)
(* _get_asgi_loop: the event loop all /mcp/sql/ requests of a worker       *)
(* process share.  A request thread looks in the holder, and if it is      *)
(* empty looks again under the lock, starts a loop in a daemon thread and  *)
(* waits at most five seconds for it to run before it puts it in the       *)
(* holder.  A loop that is late is not cached, and runs on as an orphan.   *)
(***************************************************************************)
EXTENDS Naturals, FiniteSets

CONSTANTS
    Threads,    \* request threads of one process
    Loops,      \* event loops that can be created
    MaxCalls,   \* bound: calls each thread makes
    None

ASSUME AsgiLoopAssumption ==
    /\ None \notin Threads
    /\ None \notin Loops
    /\ MaxCalls \in Nat

VARIABLES
    at,       \* where each thread is in its call
    got,      \* the loop each thread has in hand
    calls,    \* calls each thread has made
    holder,   \* _asgi_loop_holder["loop"], or None
    lock,     \* the thread inside `with _asgi_loop_lock`, or None
    created,  \* loops that were created, each with a daemon thread
    running,  \* loops whose run_forever is processing callbacks
    raised    \* loops whose startup timed out

vars == <<at, got, calls, holder, lock, created, running, raised>>

Stages == {"idle", "fast", "acquire", "recheck", "wait", "returned", "failed"}

\* Loops are all alike: any that does not exist yet
NextLoop == CHOOSE l \in Loops : l \notin created

Goto(t, place) == at' = [at EXCEPT ![t] = place]

Init ==
    /\ at      = [t \in Threads |-> "idle"]
    /\ got     = [t \in Threads |-> None]
    /\ calls   = [t \in Threads |-> 0]
    /\ holder  = None
    /\ lock    = None
    /\ created = {}
    /\ running = {}
    /\ raised  = {}

-----------------------------------------------------------------------------

\* A request needs the loop.
Call(t) ==
    /\ at[t] \in {"idle", "returned", "failed"}
    /\ calls[t] < MaxCalls
    /\ calls' = [calls EXCEPT ![t] = @ + 1]
    /\ got' = [got EXCEPT ![t] = None]
    /\ Goto(t, "fast")
    /\ UNCHANGED <<holder, lock, created, running, raised>>

\* The read without the lock
FastPath(t) ==
    /\ at[t] = "fast"
    /\ got' = [got EXCEPT ![t] = holder]
    /\ Goto(t, IF holder = None THEN "acquire" ELSE "returned")
    /\ UNCHANGED <<calls, holder, lock, created, running, raised>>

Acquire(t) ==
    /\ at[t] = "acquire"
    /\ lock = None
    /\ lock' = t
    /\ Goto(t, "recheck")
    /\ UNCHANGED <<got, calls, holder, created, running, raised>>

\* Another thread published a loop meanwhile.
RecheckHits(t) ==
    /\ at[t] = "recheck"
    /\ holder # None
    /\ got' = [got EXCEPT ![t] = holder]
    /\ lock' = None
    /\ Goto(t, "returned")
    /\ UNCHANGED <<calls, holder, created, running, raised>>

\* Mutant: the holder is not read again under the lock.
StartLoopUnchecked(t) ==
    /\ at[t] = "recheck"
    /\ Loops \ created # {}
    /\ got' = [got EXCEPT ![t] = NextLoop]
    /\ created' = created \cup {NextLoop}
    /\ Goto(t, "wait")
    /\ UNCHANGED <<calls, holder, lock, running, raised>>

\* asyncio.new_event_loop() and the daemon thread's start()
StartLoop(t) ==
    /\ at[t] = "recheck"
    /\ holder = None
    /\ Loops \ created # {}
    /\ got' = [got EXCEPT ![t] = NextLoop]
    /\ created' = created \cup {NextLoop}
    /\ Goto(t, "wait")
    /\ UNCHANGED <<calls, holder, lock, running, raised>>

\* Mutant: the event is set before the loop and its thread exist.
LoopRunsEarly(l) ==
    /\ l \notin running
    /\ running' = running \cup {l}
    /\ UNCHANGED <<at, got, calls, holder, lock, created, raised>>

\* The daemon thread gets to run_forever and sets the `running` event.
LoopRuns(l) ==
    /\ l \in created \ running
    /\ running' = running \cup {l}
    /\ UNCHANGED <<at, got, calls, holder, lock, created, raised>>

\* Mutant: the loop is published without waiting for the event.
PublishAtOnce(t) ==
    /\ at[t] = "wait"
    /\ holder' = got[t]
    /\ lock' = None
    /\ Goto(t, "returned")
    /\ UNCHANGED <<got, calls, created, running, raised>>

\* running.wait() returns True
Publish(t) ==
    /\ at[t] = "wait"
    /\ got[t] \in running
    /\ holder' = got[t]
    /\ lock' = None
    /\ Goto(t, "returned")
    /\ UNCHANGED <<got, calls, created, running, raised>>

\* Mutant: the exception leaves the lock taken.
TimeOutLocked(t) ==
    /\ at[t] = "wait"
    /\ got[t] \notin running
    /\ raised' = raised \cup {got[t]}
    /\ Goto(t, "failed")
    /\ UNCHANGED <<got, calls, holder, lock, created, running>>

\* Mutant: the late loop is forgotten without an error, and the thread starts
\* another one.
TimeOutRestarts(t) ==
    /\ at[t] = "wait"
    /\ got[t] \notin running
    /\ Goto(t, "recheck")
    /\ UNCHANGED <<got, calls, holder, lock, created, running, raised>>

\* Five seconds pass: RuntimeError, nothing cached, the loop is orphaned.
TimeOut(t) ==
    /\ at[t] = "wait"
    /\ got[t] \notin running
    /\ raised' = raised \cup {got[t]}
    /\ lock' = None
    /\ Goto(t, "failed")
    /\ UNCHANGED <<got, calls, holder, created, running>>

Proceed(t) ==
    \/ FastPath(t) \/ Acquire(t) \/ RecheckHits(t) \/ StartLoop(t)
    \/ Publish(t)  \/ TimeOut(t)

Ended(t) == at[t] \in {"idle", "returned", "failed"}

Done ==
    /\ \A t \in Threads : Ended(t) /\ calls[t] = MaxCalls
    /\ created = running
    /\ UNCHANGED vars

Next ==
    \/ \E t \in Threads : Call(t) \/ Proceed(t)
    \/ \E l \in Loops : LoopRuns(l)
    \/ Done

Spec == Init /\ [][Next]_vars

\* Request threads are scheduled; a daemon thread need not be, so only the
\* timeout ends a wait for it.
FairSpec == Spec /\ \A t \in Threads : WF_vars(Proceed(t))

-----------------------------------------------------------------------------
(* Properties *)

\* Every variable has its type.
TypeOK ==
    /\ at      \in [Threads -> Stages]
    /\ got     \in [Threads -> Loops \cup {None}]
    /\ calls   \in [Threads -> Nat]
    /\ holder  \in Loops \cup {None}
    /\ lock    \in Threads \cup {None}
    /\ created \subseteq Loops
    /\ running \subseteq created
    /\ raised  \subseteq created

\* Whoever got a loop got the one in the holder, and it is running: no request
\* is handed a loop that never starts, or one of its own.
OneRunningLoop ==
    \A t \in Threads : at[t] = "returned" =>
        /\ got[t] = holder
        /\ got[t] \in running

\* The published loop is never replaced, not even after a timeout.
HolderStable == [][holder # None => holder' = holder]_vars

\* A loop and its daemon thread are leaked only by a startup that timed out
\* and raised: every other loop is in the holder or is being waited for.
LeaksOnlyOnTimeout ==
    \A l \in created : \/ l = holder
                       \/ l \in raised
                       \/ \E t \in Threads : at[t] = "wait" /\ got[t] = l

\* A timed-out loop stays out of the holder, also when it starts late.
TimedOutNeverPublished == holder \notin raised

\* The lock and the threads inside it agree, and the one that waits is alone:
\* the holder is empty and its loop is new.
LockInv ==
    /\ \A t \in Threads : at[t] \in {"recheck", "wait"} <=> lock = t
    /\ \A t \in Threads : at[t] = "wait" => /\ holder = None
                                            /\ got[t] \in created \ raised

\* What is in the holder runs, and what a thread returned with is in it.
HolderInv ==
    /\ holder # None => holder \in running \ raised
    /\ \A t \in Threads : at[t] = "returned" => got[t] = holder /\ holder # None

\* The inductive invariant behind OneRunningLoop, HolderStable and
\* TimedOutNeverPublished
Inv == TypeOK /\ LockInv /\ HolderInv

\* Every call ends, with a loop or with the RuntimeError, whether or not the
\* daemon threads ever run.
EveryCallEnds == \A t \in Threads : at[t] = "fast" ~> Ended(t)
=============================================================================
