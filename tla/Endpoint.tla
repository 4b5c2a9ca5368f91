------------------------------ MODULE Endpoint ------------------------------
(***************************************************************************)
(* A /mcp/sql/ request on the loop of AsgiLoop.  The request thread hands  *)
(* its own FastMCP app to the shared loop and joins the body it streams    *)
(* back; on the loop the app runs inside its lifespan; a tool call leaves  *)
(* the loop for a thread of the loop's pool and comes back to it.          *)
(***************************************************************************)
EXTENDS AsgiLoop, Sequences

CONSTANTS
    Pool,       \* threads of the loop's executor (thread_sensitive=False)
    Slow        \* request threads whose tool call may never return

ASSUME EndpointAssumption ==
    /\ None \notin Pool
    /\ Slow \subseteq Threads

VARIABLES
    task,       \* where the request's coroutine is on the loop
    lifespan,   \* requests whose FastMCP lifespan is entered
    sent,       \* what the coroutine gave the request thread to read
    bodies,     \* requests whose WSGI body iterator is open
    answer,     \* what the view gave Django
    queue,      \* tool calls that wait for a pool thread
    call,       \* per pool thread: the request whose tool it runs
    progress,   \* per pool thread: how far that tool is
    open        \* pool threads with an open connection on the read-only alias

requestVars == <<task, lifespan, sent, bodies, answer>>
poolVars    == <<queue, call, progress, open>>
endpointVars == <<vars, requestVars, poolVars>>

Tasks   == {"none", "scheduled", "inside", "tool", "resumed", "sent", "raising",
            "ended"}
Replies == {"none", "answered", "status500", "raised"}

EndpointInit ==
    /\ Init
    /\ task     = [t \in Threads |-> "none"]
    /\ lifespan = {}
    /\ sent     = [t \in Threads |-> "none"]
    /\ bodies   = {}
    /\ answer   = [t \in Threads |-> "none"]
    /\ queue    = <<>>
    /\ call     = [p \in Pool |-> None]
    /\ progress = [p \in Pool |-> "idle"]
    /\ open     = {}

TaskTo(t, place) == task' = [task EXCEPT ![t] = place]

\* The view gives Django a response, or an exception goes through it.
Answered(t) == answer[t] # "none" \/ at[t] = "failed"

-----------------------------------------------------------------------------
(* The request thread *)

\* A thread takes its next request when it is through with the last one and
\* that one's coroutine has ended.
NextRequest(t) ==
    /\ Call(t)
    /\ at[t] = "returned" => answer[t] # "none" /\ task[t] = "ended"
    /\ TaskTo(t, "none")
    /\ sent' = [sent EXCEPT ![t] = "none"]
    /\ answer' = [answer EXCEPT ![t] = "none"]
    /\ UNCHANGED <<lifespan, bodies, poolVars>>

GetLoop(t) == Proceed(t) /\ UNCHANGED <<requestVars, poolVars>>

\* ASGIMiddleware.__call__ schedules the wrapped app on the loop in hand.
Bridge(t) ==
    /\ at[t] = "returned"
    /\ task[t] = "none"
    /\ TaskTo(t, "scheduled")
    /\ bodies' = bodies \cup {t}
    /\ UNCHANGED <<vars, lifespan, sent, answer, poolVars>>

\* The body is complete, or the coroutine died and a2wsgi answers 500.
Join(t) ==
    /\ t \in bodies
    /\ sent[t] # "none"
    /\ answer' = [answer EXCEPT ![t] = sent[t]]
    /\ bodies' = bodies \ {t}
    /\ UNCHANGED <<vars, task, lifespan, sent, poolVars>>

\* Mutant: close() is called after the join, not in a finally.
JoinRaisesOpen(t) ==
    /\ t \in bodies
    /\ answer[t] = "none"
    /\ answer' = [answer EXCEPT ![t] = "raised"]
    /\ UNCHANGED <<vars, task, lifespan, sent, bodies, poolVars>>

\* The join itself raises: the iterator is closed, the exception goes on.
JoinRaises(t) ==
    /\ t \in bodies
    /\ answer' = [answer EXCEPT ![t] = "raised"]
    /\ bodies' = bodies \ {t}
    /\ UNCHANGED <<vars, task, lifespan, sent, poolVars>>

-----------------------------------------------------------------------------
(* Its coroutine on the loop *)

EnterLifespan(t) ==
    /\ task[t] = "scheduled"
    /\ got[t] \in running
    /\ lifespan' = lifespan \cup {t}
    /\ TaskTo(t, "inside")
    /\ UNCHANGED <<vars, sent, bodies, answer, poolVars>>

\* initialize, tools/list, a notification, a request the transport refuses
RespondAlone(t) ==
    /\ task[t] = "inside"
    /\ sent' = [sent EXCEPT ![t] = "answered"]
    /\ TaskTo(t, "sent")
    /\ UNCHANGED <<vars, lifespan, bodies, answer, poolVars>>

\* await sync_to_async(...) in one of the three tools
CallTool(t) ==
    /\ task[t] = "inside"
    /\ queue' = Append(queue, t)
    /\ TaskTo(t, "tool")
    /\ UNCHANGED <<vars, lifespan, sent, bodies, answer, call, progress, open>>

\* The result is fenced, or FastMCP turns the tool's exception into a result.
Resume(t) ==
    /\ task[t] = "resumed"
    /\ sent' = [sent EXCEPT ![t] = "answered"]
    /\ TaskTo(t, "sent")
    /\ UNCHANGED <<vars, lifespan, bodies, answer, poolVars>>

DispatchRaises(t) ==
    /\ task[t] = "inside"
    /\ TaskTo(t, "raising")
    /\ UNCHANGED <<vars, lifespan, sent, bodies, answer, poolVars>>

\* Mutant: __aenter__ and __aexit__ are called by hand around the dispatch.
LeaveOnlyOnReturn(t) ==
    /\ task[t] \in {"sent", "raising"}
    /\ lifespan' = IF task[t] = "sent" THEN lifespan \ {t} ELSE lifespan
    /\ sent' = [sent EXCEPT ![t] = IF task[t] = "raising" THEN "status500" ELSE @]
    /\ TaskTo(t, "ended")
    /\ UNCHANGED <<vars, bodies, answer, poolVars>>

LeaveLifespan(t) ==
    /\ task[t] \in {"sent", "raising"}
    /\ lifespan' = lifespan \ {t}
    /\ sent' = [sent EXCEPT ![t] = IF task[t] = "raising" THEN "status500" ELSE @]
    /\ TaskTo(t, "ended")
    /\ UNCHANGED <<vars, bodies, answer, poolVars>>

-----------------------------------------------------------------------------
(* The pool *)

\* Mutant: thread_sensitive=True, which keeps one thread for all calls.
TakeToolInTurn(p) ==
    /\ queue # <<>>
    /\ \A q \in Pool : progress[q] = "idle"
    /\ call' = [call EXCEPT ![p] = Head(queue)]
    /\ queue' = Tail(queue)
    /\ progress' = [progress EXCEPT ![p] = "running"]
    /\ UNCHANGED <<vars, requestVars, open>>

TakeTool(p) ==
    /\ progress[p] = "idle"
    /\ queue # <<>>
    /\ call' = [call EXCEPT ![p] = Head(queue)]
    /\ queue' = Tail(queue)
    /\ progress' = [progress EXCEPT ![p] = "running"]
    /\ UNCHANGED <<vars, requestVars, open>>

\* The tool's ORM work ends, and it did or did not open a connection on the
\* read-only alias.
RunTool(p) ==
    /\ progress[p] = "running"
    /\ open' \in {open, open \cup {p}}
    /\ \E end \in {"returned", "raised"} : progress' = [progress EXCEPT ![p] = end]
    /\ UNCHANGED <<vars, requestVars, queue, call>>

\* Mutant: close_old_connections is called after the tool, not in a finally.
CloseOnReturn(p) ==
    /\ progress[p] \in {"returned", "raised"}
    /\ open' = IF progress[p] = "returned" THEN open \ {p} ELSE open
    /\ progress' = [progress EXCEPT ![p] = "idle"]
    /\ call' = [call EXCEPT ![p] = None]
    /\ TaskTo(call[p], "resumed")
    /\ UNCHANGED <<vars, lifespan, sent, bodies, answer, queue>>

\* close_old_connections in the pool thread closes the read-only alias, whose
\* CONN_MAX_AGE is 0; default is left to the age its owner gave it.
CloseConnsAfter(p) ==
    /\ progress[p] \in {"returned", "raised"}
    /\ open' = open \ {p}
    /\ progress' = [progress EXCEPT ![p] = "idle"]
    /\ call' = [call EXCEPT ![p] = None]
    /\ TaskTo(call[p], "resumed")
    /\ UNCHANGED <<vars, lifespan, sent, bodies, answer, queue>>

-----------------------------------------------------------------------------

OnLoop(t) ==
    \/ EnterLifespan(t) \/ RespondAlone(t) \/ CallTool(t) \/ Resume(t)
    \/ DispatchRaises(t) \/ LeaveLifespan(t)

EndpointDone ==
    /\ Done
    /\ \A t \in Threads : Answered(t) /\ (at[t] = "returned" => task[t] = "ended")
    /\ UNCHANGED <<requestVars, poolVars>>

EndpointNext ==
    \/ \E t \in Threads :
          \/ NextRequest(t) \/ GetLoop(t) \/ Bridge(t) \/ Join(t) \/ JoinRaises(t)
          \/ OnLoop(t)
    \/ \E p \in Pool : TakeTool(p) \/ RunTool(p) \/ CloseConnsAfter(p)
    \/ \E l \in Loops : LoopRuns(l) /\ UNCHANGED <<requestVars, poolVars>>
    \/ EndpointDone

EndpointSpec == EndpointInit /\ [][EndpointNext]_endpointVars

\* Request threads, a loop that runs and the threads of its pool are scheduled.
\* Of what runs in them only a slow tool may take for ever: the statement
\* timeout of the read-only session ends the others.
EndpointFairness ==
    /\ \A t \in Threads : /\ WF_endpointVars(GetLoop(t))
                          /\ WF_endpointVars(Bridge(t))
                          /\ WF_endpointVars(Join(t))
                          /\ WF_endpointVars(OnLoop(t))
    /\ \A p \in Pool : /\ WF_endpointVars(TakeTool(p))
                       /\ WF_endpointVars(call[p] \notin Slow /\ RunTool(p))
                       /\ WF_endpointVars(CloseConnsAfter(p))

FairEndpointSpec == EndpointSpec /\ EndpointFairness

-----------------------------------------------------------------------------
(* Properties *)

\* Every variable has its type.
EndpointTypeOK ==
    /\ TypeOK
    /\ task     \in [Threads -> Tasks]
    /\ lifespan \subseteq Threads
    /\ sent     \in [Threads -> {"none", "answered", "status500"}]
    /\ bodies   \subseteq Threads
    /\ answer   \in [Threads -> Replies]
    /\ queue    \in Seq(Threads)
    /\ call     \in [Pool -> Threads \cup {None}]
    /\ progress \in [Pool -> {"idle", "running", "returned", "raised"}]
    /\ open     \subseteq Pool

\* A pool thread that is between two calls holds no read-only connection, also
\* after a tool that raised: the signals that close old connections never fire
\* there (_close_conns_after).
PoolThreadsClean == \A p \in Pool : progress[p] = "idle" => p \notin open

\* A tool waits or runs for a request whose own session manager is up, and no
\* request leaves one behind, nor an open body: not when the dispatch raised,
\* not when the join did (_wrap_lifespan, _invoke_wsgi_app).
LifespanAroundDispatch ==
    /\ \A t \in Threads :
          /\ task[t] \in {"inside", "tool", "resumed"} => t \in lifespan
          /\ task[t] \in {"none", "ended"} => t \notin lifespan
          /\ answer[t] # "none" => t \notin bodies
    /\ \A i \in DOMAIN queue : task[queue[i]] = "tool"
    /\ \A p \in Pool : progress[p] # "idle" => task[call[p]] = "tool"

\* The inductive invariant behind the two: a tool call is in the queue or on
\* one pool thread, and its coroutine waits for it there.
EndpointInv ==
    /\ EndpointTypeOK
    /\ \A t \in Threads :
          /\ task[t] # "none" => at[t] = "returned"
          /\ t \in lifespan <=> task[t] \notin {"none", "scheduled", "ended"}
          /\ task[t] = "none" => answer[t] = "none" /\ t \notin bodies
          /\ answer[t] # "none" => t \notin bodies
    /\ \A i \in DOMAIN queue : task[queue[i]] = "tool"
    /\ \A i, j \in DOMAIN queue : queue[i] = queue[j] => i = j
    /\ \A p \in Pool :
          /\ progress[p] = "idle" <=> call[p] = None
          /\ progress[p] # "idle" => task[call[p]] = "tool"
          /\ \A i \in DOMAIN queue : queue[i] # call[p]
          /\ progress[p] = "idle" => p \notin open
    /\ \A p, q \in Pool : call[p] = call[q] => p = q \/ call[p] = None

\* While fewer tools are slow than the pool has threads, a slow one delays no
\* other request ("one slow query ... head-of-line-block every other agent").
SlowToolsDelayNobody ==
    \A t \in Threads \ Slow : task[t] = "scheduled" ~> task[t] = "ended"
=============================================================================
