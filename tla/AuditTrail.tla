----------------------------- MODULE AuditTrail -----------------------------
(***************************************************************************)
(* What the executor promises of its audit trail, with the pipeline left   *)
(* out.  A call is open until it ends, either with an answer to the agent  *)
(* or with an exception.  It writes at most one row; a row is there before *)
(* the answer and says of it what the answer says; an answer without a row *)
(* is one whose insert failed and was reported; a call that wrote a row    *)
(* always answers.  Rows are never changed.                                *)
(***************************************************************************)
EXTENDS Naturals, Sequences

CONSTANTS
    Calls,
    Rows,              \* what an audit row can say
    Answers,           \* what an agent can be told
    NoAnswer,
    Agrees(_, _)       \* the row says what the answer says

VARIABLES status, trail, missed, answer

vars == <<status, trail, missed, answer>>

Init ==
    /\ status = [c \in Calls |-> "open"]
    /\ trail  = [c \in Calls |-> <<>>]
    /\ missed = {}
    /\ answer = [c \in Calls |-> NoAnswer]

Open(c)     == status[c] = "open"
Unlogged(c) == trail[c] = <<>>

\* The step gives f[c] some value and leaves the rest of f alone.
Changes(f, c) == f' = [f EXCEPT ![c] = f'[c]]

Log(c) ==
    /\ Open(c)
    /\ Unlogged(c)
    /\ Changes(trail, c) /\ Len(trail'[c]) = 1 /\ trail'[c][1] \in Rows
    /\ UNCHANGED <<status, missed, answer>>

Answer(c) ==
    /\ Open(c)
    /\ ~Unlogged(c)
    /\ Changes(answer, c) /\ answer'[c] \in Answers
    /\ Agrees(trail[c][1], answer'[c])
    /\ status' = [status EXCEPT ![c] = "answered"]
    /\ UNCHANGED <<trail, missed>>

\* The insert failed; the answer is given all the same.
AnswerUnlogged(c) ==
    /\ Open(c)
    /\ Unlogged(c)
    /\ Changes(answer, c) /\ answer'[c] \in Answers
    /\ status' = [status EXCEPT ![c] = "answered"]
    /\ missed' = missed \cup {c}
    /\ UNCHANGED trail

\* An exception the executor does not catch
Fail(c) ==
    /\ Open(c)
    /\ Unlogged(c)
    /\ status' = [status EXCEPT ![c] = "failed"]
    /\ UNCHANGED <<trail, missed, answer>>

Next == \E c \in Calls : Log(c) \/ Answer(c) \/ AnswerUnlogged(c) \/ Fail(c)

Spec == Init /\ [][Next]_vars
=============================================================================
