------------------------------- MODULE Service -------------------------------
(***************************************************************************)
(* What a caller of GpuActor may rely on: requests are accepted until the  *)
(* service is shut, are carried out one at a time in the order they were   *)
(* accepted, and each one accepted is answered, before the service stops.  *)
(***************************************************************************)
EXTENDS Sequences

CONSTANT Requests

VARIABLES
    pending,   \* accepted and not yet answered, oldest first
    answered,  \* requests that have their answer
    refused,   \* requests turned away
    shut,      \* no further request is accepted
    stopped    \* the service has stopped

vars == <<pending, answered, refused, shut, stopped>>

Known == {pending[i] : i \in DOMAIN pending} \cup answered \cup refused

Init ==
    /\ pending = <<>>
    /\ answered = {} /\ refused = {}
    /\ shut = FALSE /\ stopped = FALSE

Accept(r) ==
    /\ ~shut /\ r \notin Known
    /\ pending' = Append(pending, r)
    /\ UNCHANGED <<answered, refused, shut, stopped>>

Refuse(r) ==
    /\ shut /\ r \notin Known
    /\ refused' = refused \cup {r}
    /\ UNCHANGED <<pending, answered, shut, stopped>>

Answer ==
    /\ pending # <<>>
    /\ pending' = Tail(pending)
    /\ answered' = answered \cup {Head(pending)}
    /\ UNCHANGED <<refused, shut, stopped>>

Shut ==
    /\ ~shut /\ shut' = TRUE
    /\ UNCHANGED <<pending, answered, refused, stopped>>

Stop ==
    /\ shut /\ pending = <<>> /\ ~stopped
    /\ stopped' = TRUE
    /\ UNCHANGED <<pending, answered, refused, shut>>

Next == (\E r \in Requests : Accept(r) \/ Refuse(r)) \/ Answer \/ Shut \/ Stop

Spec == Init /\ [][Next]_vars /\ WF_vars(Answer) /\ WF_vars(Stop)
=============================================================================
