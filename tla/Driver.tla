------------------------------- MODULE Driver -------------------------------
(***************************************************************************)
(* The two programs that drive a GPU server: the smoke test, one session   *)
(* per problem (driver/runtime_transport.py, smoke/v1_smoke.py), and the   *)
(* evidence loop, two sessions per problem (driver/evidence_loop.py).      *)
(* Both are sequential clients.  The server is what Slots promises of it;  *)
(* module Runtime implements that promise.  What the calls answer is left  *)
(* out; that they raise is not.                                            *)
(***************************************************************************)
EXTENDS Naturals, Sequences, FiniteSets

CONSTANTS
    Problems,     \* problems.json: a sequence of identifiers
    Seconds,      \* int(time.time()) is taken modulo this number
    MaxResident,  \* capacity of the server
    None

VARIABLES
    program,      \* "smoke" or "evidence"
    turn,         \* sessions opened so far, the next one counted
    phase,        \* "opening" a session, "asking", "stopped"
    sid,          \* _last_sid
    now,          \* the clock, in seconds
    given,        \* sessions retire has been called for
    held, gone    \* the server

clientVars == <<program, turn, phase, sid, given>>
serverVars == <<held, gone>>
vars       == <<clientVars, now, serverVars>>

Identifiers == {Problems[i] : i \in DOMAIN Problems} \X (0..Seconds - 1)

Server == INSTANCE Slots WITH Sessions <- Identifiers

Init ==
    /\ program \in {"smoke", "evidence"}
    /\ turn = 1 /\ phase = "opening" /\ sid = None
    /\ now = 0 /\ given = {}
    /\ Server!Init

\* The evidence loop asks twice per problem, without and with evidence.
PerProblem == IF program = "smoke" THEN 1 ELSE 2

Problem == Problems[1 + (turn - 1) \div PerProblem]

LastOfProblem == turn % PerProblem = 0

Session == <<Problem, now>>

Advance == /\ turn' = turn + 1
           /\ phase' = IF turn = Len(Problems) * PerProblem THEN "stopped" ELSE "opening"

Stop == phase' = "stopped" /\ UNCHANGED turn

Tick == now' = (now + 1) % Seconds /\ UNCHANGED <<clientVars, serverVars>>

Open ==
    /\ phase = "opening"
    /\ Server!Admit(Session)
    /\ sid' = Session /\ phase' = "asking"
    /\ UNCHANGED <<program, turn, given, now>>

\* Creation is refused or fails, or its answer is lost after the server has
\* done the work: no caller catches the exception.
OpenRaises ==
    /\ phase = "opening"
    /\ Server!Admit(Session) \/ UNCHANGED serverVars
    /\ Stop
    /\ UNCHANGED <<program, sid, given, now>>

\* GET /sessions/{id}/retire/v1, whose handler reads a retirement record;
\* whatever it answers, the driver goes on.
Retire(s) ==
    /\ given' = given \cup {s}
    /\ UNCHANGED serverVars

Asked ==
    /\ phase = "asking"
    /\ Retire(sid)
    /\ Advance
    /\ UNCHANGED <<program, sid, now>>

\* The smoke test retires on its way out; the evidence loop does not, and the
\* exception is its answer unless it came before phi was computed.
AskRaises ==
    /\ phase = "asking"
    /\ \/ program = "smoke" /\ Retire(sid) /\ Stop
       \/ program = "evidence" /\ Advance /\ UNCHANGED <<given, serverVars>>
       \/ program = "evidence" /\ LastOfProblem /\ Stop /\ UNCHANGED <<given, serverVars>>
    /\ UNCHANGED <<program, sid, now>>

Next == Tick \/ Open \/ OpenRaises \/ Asked \/ AskRaises

Spec == Init /\ [][Next]_vars
-----------------------------------------------------------------------------
\* "GET /sessions/{id}/retire/v1" recycles a session, which the smoke test does
\* right after its use (runtime_transport.py:7-9): a session the driver has
\* retired holds no slot of the server any more.
DoneIsReleased == given \cap held = {}
=============================================================================
