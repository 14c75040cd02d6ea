----------------------------- MODULE ActorProofs -----------------------------
(***************************************************************************)
(* The safety of the actor's queue and of its counters, for any number of  *)
(* requests and of concurrent closes, and the steps of the FIFO service it *)
(* implements.                                                             *)
(***************************************************************************)
EXTENDS Actor, FiniteSetTheorems, SequenceTheorems, TLAPS

\* Where the sentinel is: last in the queue from the first close until the
\* worker takes it, and nowhere else.
SentinelInv ==
    /\ \A i \in DOMAIN queue : queue[i] = Sentinel => i = Len(queue)
    /\ closed <=> worker = "exited" \/ (queue # <<>> /\ queue[Len(queue)] = Sentinel)
    /\ worker = "exited" => queue = <<>>
    /\ \A k \in Closers : closer[k] # "new" => closed
    /\ \A k \in Closers : closer[k] = "closed" => worker = "exited"

\* An accepted request is in one place only: queued, in the worker's hands, or
\* answered.
PlaceInv ==
    /\ \A i, j \in DOMAIN queue : queue[i] = queue[j] => i = j
    /\ \A i \in DOMAIN queue : queue[i] # Sentinel =>
           call[queue[i]] = "waiting" /\ queue[i] \notin done
    /\ Working => /\ item \in Requests /\ item \notin done /\ call[item] = "waiting"
                  /\ \A i \in DOMAIN queue : queue[i] # item
    /\ \A r \in done : r \in Accepted
    /\ \A r \in Accepted \ done :
           (Working /\ item = r) \/ \E i \in DOMAIN queue : queue[i] = r

\* What each counter counts.
CounterInv ==
    /\ queued = Len(queue) - (IF closed /\ worker # "exited" THEN 1 ELSE 0)
                    + (IF worker = "start" THEN 1 ELSE 0)
    /\ MetricsAddUp
    /\ errors \subseteq Completed \cup (IF worker = "finish" THEN {item} ELSE {})

IInv == TypeOK /\ SentinelInv /\ PlaceInv /\ CounterInv

\* Initially nothing is queued and everything counts zero.
LEMMA InitInv == Init => IInv
<1> SUFFICES ASSUME Init PROVE IInv
  OBVIOUS
<1>1. TypeOK
  <2>1. queue \in Seq(Requests \cup {Sentinel})
    BY EmptySeq DEF Init
  <2>2. QED
    BY <2>1 DEF Init, TypeOK
<1>2. SentinelInv /\ PlaceInv
  BY DEF Init, SentinelInv, PlaceInv, Working, Accepted
<1>3. CounterInv
  BY FS_EmptySet DEF Init, CounterInv, MetricsAddUp, Completed
<1>4. QED
  BY <1>1, <1>2, <1>3 DEF IInv

-----------------------------------------------------------------------------
(* The queue.                                                              *)

\* What appending to a queue does to its elements.
LEMMA AppendFacts ==
  ASSUME NEW S, NEW q \in Seq(S), NEW e \in S
  PROVE  /\ Append(q, e) \in Seq(S) /\ Len(Append(q, e)) = Len(q) + 1
         /\ DOMAIN Append(q, e) = 1..(Len(q) + 1)
         /\ \A i \in 1..Len(q) : Append(q, e)[i] = q[i]
         /\ Append(q, e)[Len(q) + 1] = e /\ Append(q, e) # <<>>
         /\ DOMAIN q = 1..Len(q) /\ Len(q) \in Nat
  OBVIOUS

\* What taking its head does.
LEMMA TailFacts ==
  ASSUME NEW S, NEW q \in Seq(S), q # <<>>
  PROVE  /\ Tail(q) \in Seq(S) /\ Len(Tail(q)) = Len(q) - 1
         /\ DOMAIN Tail(q) = 1..(Len(q) - 1)
         /\ \A i \in 1..(Len(q) - 1) : Tail(q)[i] = q[i + 1]
         /\ Head(q) = q[1] /\ Head(q) \in S
         /\ DOMAIN q = 1..Len(q) /\ Len(q) \in Nat \ {0}
         /\ Tail(q) = <<>> <=> Len(q) = 1
<1>1. /\ Tail(q) \in Seq(S) /\ Len(Tail(q)) = Len(q) - 1 /\ Head(q) \in S
      /\ \A i \in 1..Len(Tail(q)) : Tail(q)[i] = q[i + 1]
  BY HeadTailProperties
<1>2. DOMAIN q = 1..Len(q) /\ Len(q) \in Nat \ {0} /\ DOMAIN Tail(q) = 1..Len(Tail(q))
  BY <1>1, LenProperties, EmptySeq
<1>3. Tail(q) = <<>> <=> Len(q) = 1
  BY <1>1, <1>2, EmptySeq
<1>4. Head(q) = q[1]
  OBVIOUS
<1>5. QED
  BY <1>1, <1>2, <1>3, <1>4

\* Every variable keeps its type.
LEMMA TypeStep == IInv /\ [Next]_vars => TypeOK'
<1> SUFFICES ASSUME IInv, [Next]_vars PROVE TypeOK'
  OBVIOUS
<1>0. TypeOK
  BY DEF IInv
<1> USE DEF TypeOK, WorkerVars, counters
<1>1. ASSUME NEW r \in Requests, SubmitAccepted(r) PROVE TypeOK'
  BY <1>0, <1>1 DEF SubmitAccepted
<1>2. ASSUME NEW r \in Requests, SubmitRefused(r) \/ Return(r) PROVE TypeOK'
  BY <1>0, <1>2 DEF SubmitRefused, Return
<1>3. CASE Get
  BY <1>0, <1>3 DEF Get
<1>4. CASE Start
  <2>1. queued \in Nat \ {0}
    BY <1>0, <1>4 DEF IInv, CounterInv, SentinelInv, Start
  <2>2. QED
    BY <1>0, <1>4, <2>1 DEF Start
<1>5. CASE Run \/ RunRecursive
  <2>1. item \in Requests
    BY <1>5 DEF IInv, PlaceInv, Working, Run, RunRecursive
  <2>2. QED
    BY <1>0, <1>5, <2>1 DEF Run, RunRecursive
<1>6. CASE Finish
  <2>1. active = 1
    BY <1>6 DEF IInv, CounterInv, MetricsAddUp, Finish
  <2>2. QED
    BY <1>0, <1>6, <2>1 DEF Finish
<1>7. CASE SetDone
  <2>1. item \in Requests
    BY <1>7 DEF IInv, PlaceInv, Working, SetDone
  <2>2. QED
    BY <1>0, <1>7, <2>1 DEF SetDone
<1>8. ASSUME NEW k \in Closers, CloseFirst(k) \/ Join(k) PROVE TypeOK'
  <2>1. queue' \in Seq(Requests \cup {Sentinel})
    <3>1. Append(queue, Sentinel) \in Seq(Requests \cup {Sentinel})
      BY <1>0, AppendFacts
    <3>2. QED
      BY <1>0, <1>8, <3>1 DEF CloseFirst, Join
  <2>2. closer' \in [Closers -> {"new", "joining", "closed"}] /\ closed' \in BOOLEAN
    BY <1>0, <1>8 DEF CloseFirst, Join
  <2>3. UNCHANGED <<worker, item, call, done, counters, errors>>
    BY <1>8 DEF CloseFirst, Join
  <2>4. QED
    BY <1>0, <2>1, <2>2, <2>3
<1>9. CASE UNCHANGED vars
  BY <1>0, <1>9 DEF vars
<1>10. QED
  BY <1>1, <1>2, <1>3, <1>4, <1>5, <1>6, <1>7, <1>8, <1>9 DEF Next, WorkerStep, Rest

\* The sentinel stays last, and no request is accepted behind it.
LEMMA SentinelStep == IInv /\ [Next]_vars => SentinelInv'
<1> SUFFICES ASSUME IInv, [Next]_vars PROVE SentinelInv'
  OBVIOUS
<1>0. TypeOK /\ SentinelInv
  BY DEF IInv
<1>a. queue \in Seq(Requests \cup {Sentinel})
  BY <1>0 DEF TypeOK
<1> USE DEF SentinelInv
<1>1. ASSUME NEW r \in Requests, SubmitAccepted(r) PROVE SentinelInv'
  <2>1. ~closed /\ r # Sentinel
    BY <1>1, ActorAssumption DEF SubmitAccepted, MayEnter
  <2>2. \A i \in DOMAIN queue' : queue'[i] # Sentinel
    BY <1>0, <1>a, <1>1, <2>1, AppendFacts DEF SubmitAccepted
  <2>3. queue' # <<>> /\ Len(queue') \in DOMAIN queue'
    BY <1>a, <1>1, AppendFacts DEF SubmitAccepted
  <2>4. QED
    BY <1>0, <1>1, <2>1, <2>2, <2>3 DEF SubmitAccepted
<1>2. CASE UNCHANGED <<queue, closed, closer>> /\ worker # "exited" /\ worker' # "exited"
  BY <1>0, <1>2
<1>3. CASE Get
  <2>1. /\ queue # <<>> /\ queue' = Tail(queue) /\ UNCHANGED <<closed, closer>>
        /\ worker = "get"
        /\ worker' = IF Head(queue) = Sentinel THEN "exited" ELSE "start"
    BY <1>3 DEF Get, WorkerVars
  <2>2. \A i \in DOMAIN queue' : queue'[i] = queue[i + 1] /\ i + 1 \in DOMAIN queue
    BY <1>a, <2>1, TailFacts
  <2>3. Len(queue) \in DOMAIN queue /\ Len(queue') = Len(queue) - 1 /\ Head(queue) = queue[1]
    BY <1>a, <2>1, TailFacts
  <2>4. \A i \in DOMAIN queue' : queue'[i] = Sentinel => i = Len(queue')
    BY <1>0, <1>a, <2>1, <2>2, <2>3, TailFacts
  <2>5. CASE Head(queue) = Sentinel
    <3>1. Len(queue) = 1 /\ closed
      BY <1>0, <1>a, <2>1, <2>3, <2>5, TailFacts
    <3>2. queue' = <<>>
      BY <1>a, <2>1, <3>1, TailFacts
    <3>3. QED
      BY <1>0, <2>1, <2>4, <2>5, <3>1, <3>2
  <2>6. CASE Head(queue) # Sentinel
    <3>1. closed <=> queue[Len(queue)] = Sentinel
      BY <1>0, <2>1
    <3>2. Len(queue) = 1 => ~closed
      BY <2>3, <2>6, <3>1
    <3>3. Len(queue) # 1 => queue' # <<>> /\ queue'[Len(queue')] = queue[Len(queue)]
      BY <1>a, <2>1, TailFacts
    <3>4. Len(queue) = 1 => queue' = <<>>
      BY <1>a, <2>1, TailFacts
    <3>5. QED
      BY <1>0, <2>1, <2>4, <2>6, <3>1, <3>2, <3>3, <3>4
  <2>7. QED
    BY <2>5, <2>6
<1>4. ASSUME NEW k \in Closers, CloseFirst(k) PROVE SentinelInv'
  <2>1. CASE closed
    BY <1>0, <1>4, <2>1 DEF CloseFirst, TypeOK
  <2>2. CASE ~closed
    <3>1. \A i \in DOMAIN queue : queue[i] # Sentinel
      BY <1>0, <1>a, <2>2
    <3>2. queue' = Append(queue, Sentinel)
      BY <1>4, <2>2 DEF CloseFirst
    <3>3. \A i \in DOMAIN queue' : queue'[i] = Sentinel => i = Len(queue')
      BY <1>a, <3>1, <3>2, AppendFacts
    <3>4. queue' # <<>> /\ queue'[Len(queue')] = Sentinel
      BY <1>a, <3>2, AppendFacts
    <3>5. QED
      BY <1>0, <1>4, <2>2, <3>3, <3>4 DEF CloseFirst, TypeOK
  <2>3. QED
    BY <2>1, <2>2
<1>5. ASSUME NEW k \in Closers, Join(k) PROVE SentinelInv'
  BY <1>0, <1>5 DEF Join, TypeOK
<1>6. CASE UNCHANGED <<queue, closed, worker, closer>>
  BY <1>0, <1>6
<1>7. QED
  BY <1>1, <1>2, <1>3, <1>4, <1>5, <1>6
  DEF Next, WorkerStep, Rest, vars, SubmitRefused, Return, Start, Run, RunRecursive, Finish,
      SetDone, WorkerVars

\* A request stays in exactly one place until it is answered.
LEMMA PlaceStep == IInv /\ [Next]_vars => PlaceInv'
<1> SUFFICES ASSUME IInv, [Next]_vars PROVE PlaceInv'
  OBVIOUS
<1>0. TypeOK /\ SentinelInv /\ PlaceInv
  BY DEF IInv
<1>a. /\ queue \in Seq(Requests \cup {Sentinel}) /\ done \subseteq Requests
      /\ call \in [Requests -> {"new", "waiting", "refused", "returned", "raised"}]
      /\ DOMAIN queue = 1..Len(queue) /\ Len(queue) \in Nat
      /\ \A i \in DOMAIN queue : queue[i] \in Requests \cup {Sentinel}
  BY <1>0, LenProperties, ElementOfSeq DEF TypeOK
<1>b. Sentinel \notin Requests
  BY ActorAssumption
<1> USE DEF PlaceInv, Accepted, Working
<1>1. ASSUME NEW r \in Requests, SubmitAccepted(r) PROVE PlaceInv'
  <2>1. /\ queue' = Append(queue, r) /\ call[r] = "new" /\ call' = [call EXCEPT ![r] = "waiting"]
        /\ UNCHANGED <<worker, item, done>>
    BY <1>1 DEF SubmitAccepted
  <2>2. /\ \A i \in DOMAIN queue : queue'[i] = queue[i] /\ i \in DOMAIN queue'
        /\ queue'[Len(queue) + 1] = r /\ Len(queue) + 1 \in DOMAIN queue'
        /\ \A i \in DOMAIN queue' : i = Len(queue) + 1 \/ i \in DOMAIN queue
    BY <1>a, <2>1, AppendFacts
  <2>3. \A i \in DOMAIN queue : queue[i] # r
    BY <1>0, <1>a, <1>b, <2>1
  <2>4. r \notin done /\ (Working => item # r)
    BY <1>0, <2>1
  <2>5. \A i, j \in DOMAIN queue' : queue'[i] = queue'[j] => i = j
    BY <1>0, <2>2, <2>3
  <2>6. \A i \in DOMAIN queue' : queue'[i] # Sentinel =>
            call'[queue'[i]] = "waiting" /\ queue'[i] \notin done'
    BY <1>0, <1>a, <2>1, <2>2, <2>3, <2>4
  <2>7. Working' => /\ item' \in Requests /\ item' \notin done' /\ call'[item'] = "waiting"
                    /\ \A i \in DOMAIN queue' : queue'[i] # item'
    BY <1>0, <1>a, <2>1, <2>2, <2>4
  <2>8. \A q \in done' : q \in Accepted'
    BY <1>0, <1>a, <2>1
  <2>9. \A q \in Accepted' \ done' :
            (Working' /\ item' = q) \/ \E i \in DOMAIN queue' : queue'[i] = q
    BY <1>0, <1>a, <2>1, <2>2
  <2>10. QED
    BY <2>5, <2>6, <2>7, <2>8, <2>9
<1>2. ASSUME NEW r \in Requests, SubmitRefused(r) \/ Return(r) PROVE PlaceInv'
  <2>1. /\ UNCHANGED <<queue, worker, item, done>>
        /\ \/ call[r] = "new" /\ call' = [call EXCEPT ![r] = "refused"]
           \/ /\ call[r] = "waiting" /\ r \in done
              /\ \E a \in {"raised", "returned"} : call' = [call EXCEPT ![r] = a]
    BY <1>2 DEF SubmitRefused, Return
  <2>2. (\A i \in DOMAIN queue : queue[i] # r) /\ (Working => item # r)
    BY <1>0, <1>a, <1>b, <2>1
  <2>3. QED
    BY <1>0, <1>a, <1>b, <2>1, <2>2
<1>3. CASE Get
  <2>1. /\ worker = "get" /\ queue # <<>> /\ queue' = Tail(queue) /\ item' = Head(queue)
        /\ worker' = IF Head(queue) = Sentinel THEN "exited" ELSE "start"
        /\ UNCHANGED <<done, call>>
    BY <1>3 DEF Get, WorkerVars
  <2>2. /\ \A i \in DOMAIN queue' : queue'[i] = queue[i + 1] /\ i + 1 \in DOMAIN queue
        /\ \A i \in DOMAIN queue : i = 1 \/ (i - 1 \in DOMAIN queue' /\ queue'[i - 1] = queue[i])
        /\ item' = queue[1] /\ 1 \in DOMAIN queue
        /\ DOMAIN queue' \subseteq Nat \ {0}
    BY <1>a, <2>1, TailFacts
  <2>3. \A i, j \in DOMAIN queue' : queue'[i] = queue'[j] => i = j
    BY <1>0, <2>2
  <2>4. \A i \in DOMAIN queue' : queue'[i] # item'
    BY <1>0, <2>2
  <2>5. Working' => item' \in Requests /\ item' \notin done' /\ call'[item'] = "waiting"
    BY <1>0, <1>a, <2>1, <2>2
  <2>6. \A q \in Accepted' \ done' :
            (Working' /\ item' = q) \/ \E i \in DOMAIN queue' : queue'[i] = q
    <3>1. SUFFICES ASSUME NEW q \in Accepted \ done
                   PROVE  (Working' /\ item' = q) \/ \E i \in DOMAIN queue' : queue'[i] = q
      BY <2>1
    <3>2. PICK i \in DOMAIN queue : queue[i] = q
      BY <1>0, <2>1
    <3>3. QED
      BY <1>b, <2>1, <2>2, <3>2
  <2>7. QED
    BY <1>0, <2>1, <2>2, <2>3, <2>4, <2>5, <2>6
<1>4. CASE Start \/ Run \/ RunRecursive \/ Finish
  <2>1. UNCHANGED <<queue, item, done, call>> /\ Working /\ Working'
    BY <1>4 DEF Start, Run, RunRecursive, Finish, WorkerVars
  <2>2. QED
    BY <1>0, <2>1
<1>5. CASE SetDone
  <2>1. /\ worker = "set" /\ worker' = "get" /\ done' = done \cup {item}
        /\ UNCHANGED <<queue, item, call>>
    BY <1>5 DEF SetDone, WorkerVars
  <2>2. QED
    BY <1>0, <2>1
<1>6. ASSUME NEW k \in Closers, CloseFirst(k), ~closed PROVE PlaceInv'
  <2>1. queue' = Append(queue, Sentinel) /\ UNCHANGED <<worker, item, call, done>>
    BY <1>6 DEF CloseFirst
  <2>2. /\ \A i \in DOMAIN queue : queue'[i] = queue[i] /\ i \in DOMAIN queue'
        /\ queue'[Len(queue) + 1] = Sentinel
        /\ \A i \in DOMAIN queue' : i = Len(queue) + 1 \/ i \in DOMAIN queue
    BY <1>a, <2>1, AppendFacts
  <2>3. \A i \in DOMAIN queue : queue[i] # Sentinel
    BY <1>0, <1>a, <1>6 DEF SentinelInv
  <2>4. QED
    BY <1>0, <1>b, <2>1, <2>2, <2>3
<1>7. CASE UNCHANGED <<queue, worker, item, call, done>>
  BY <1>0, <1>7
<1>8. QED
  BY <1>1, <1>2, <1>3, <1>4, <1>5, <1>6, <1>7
  DEF Next, WorkerStep, Rest, vars, CloseFirst, Join

-----------------------------------------------------------------------------
(* The counters.                                                           *)

\* Answering one more request counts one more completion, and one more failure
\* if it ended with an error.
LEMMA OneMore ==
  ASSUME TypeOK, NEW x \in Requests, x \notin done
  PROVE  /\ Cardinality(done \cup {x}) = Cardinality(done) + 1
         /\ Cardinality(errors \cap (done \cup {x})) =
                Cardinality(errors \cap done) + (IF x \in errors THEN 1 ELSE 0)
<1>1. IsFiniteSet(done) /\ IsFiniteSet(errors \cap done)
  BY FS_Subset, ActorAssumption DEF TypeOK
<1>2. Cardinality(done \cup {x}) = Cardinality(done) + 1
  BY <1>1, FS_AddElement
<1>3. CASE x \in errors
  <2>1. errors \cap (done \cup {x}) = (errors \cap done) \cup {x} /\ x \notin errors \cap done
    BY <1>3
  <2>2. QED
    BY <1>1, <1>2, <1>3, <2>1, FS_AddElement
<1>4. CASE x \notin errors
  <2>1. errors \cap (done \cup {x}) = errors \cap done
    BY <1>4
  <2>2. Cardinality(errors \cap (done \cup {x})) = Cardinality(errors \cap done)
    BY <2>1, Zenon
  <2>3. Cardinality(errors \cap done) \in Nat
    BY <1>1, FS_CardinalityType
  <2>4. QED
    BY <1>2, <1>4, <2>2, <2>3
<1>5. QED
  BY <1>3, <1>4

\* The metrics keep adding up at every step of every thread.
LEMMA CounterStep == IInv /\ [Next]_vars => CounterInv'
<1> SUFFICES ASSUME IInv, [Next]_vars PROVE CounterInv'
  OBVIOUS
<1>0. TypeOK /\ SentinelInv /\ PlaceInv /\ CounterInv
  BY DEF IInv
<1>a. /\ queue \in Seq(Requests \cup {Sentinel}) /\ Len(queue) \in Nat
      /\ submitted \in Nat /\ queued \in Nat /\ started \in Nat /\ active \in Nat
      /\ maxActive \in Nat /\ completed \in Nat /\ failed \in Nat
      /\ closed \in BOOLEAN
  BY <1>0, LenProperties DEF TypeOK
<1>b. ASSUME UNCHANGED <<done, errors>>, Completed' = Completed
      PROVE  /\ Cardinality(Completed)' = Cardinality(Completed)
             /\ Cardinality(errors \cap Completed)' = Cardinality(errors \cap Completed)
  BY <1>b, Zenon
<1>c. /\ submitted = queued + active + completed /\ started = active + completed
      /\ maxActive <= 1 /\ active = (IF worker \in {"run", "finish"} THEN 1 ELSE 0)
  BY <1>0 DEF CounterInv, MetricsAddUp
<1> USE DEF CounterInv, MetricsAddUp
<1>1. ASSUME NEW r \in Requests, SubmitAccepted(r) PROVE CounterInv'
  <2>1. /\ Len(queue') = Len(queue) + 1 /\ queued' = queued + 1 /\ submitted' = submitted + 1
        /\ ~closed
        /\ UNCHANGED <<closed, worker, item, done, started, active, maxActive, completed,
                       failed, errors>>
    BY <1>a, <1>1, AppendFacts DEF SubmitAccepted, MayEnter
  <2>2. Completed' = Completed
    BY <2>1 DEF Completed
  <2>3. /\ Cardinality(Completed)' = Cardinality(Completed)
        /\ Cardinality(errors \cap Completed)' = Cardinality(errors \cap Completed)
    BY <1>b, <2>1, <2>2
  <2>4. /\ submitted' = queued' + active' + completed' /\ started' = active' + completed'
        /\ maxActive' <= 1 /\ active' = (IF worker' \in {"run", "finish"} THEN 1 ELSE 0)
        /\ completed' = Cardinality(Completed') /\ failed' = Cardinality(errors' \cap Completed')
    <3>1. /\ submitted' = queued' + active' + completed' /\ started' = active' + completed'
          /\ maxActive' <= 1 /\ active' = (IF worker' \in {"run", "finish"} THEN 1 ELSE 0)
      BY <1>a, <1>c, <2>1
    <3>2. completed' = Cardinality(Completed') /\ failed' = Cardinality(errors' \cap Completed')
      BY <1>0, <2>1, <2>2, <2>3
    <3>3. QED
      BY <3>1, <3>2
  <2>5. queued' = Len(queue') - (IF closed' /\ worker' # "exited" THEN 1 ELSE 0)
                      + (IF worker' = "start" THEN 1 ELSE 0)
    BY <1>0, <1>a, <2>1, <2>2, <2>3
  <2>6. errors' \subseteq Completed' \cup (IF worker' = "finish" THEN {item'} ELSE {})
    BY <1>0, <2>1, <2>2, <2>3
  <2>7. QED
    BY <2>4, <2>5, <2>6
<1>2. CASE UNCHANGED <<queue, closed, worker, item, done, counters, errors>>
  BY <1>0, <1>2 DEF counters, Completed
<1>3. CASE Get
  <2>1. /\ Len(queue') = Len(queue) - 1 /\ worker = "get" /\ queue # <<>>
        /\ Head(queue) = queue[1] /\ 1 \in DOMAIN queue
        /\ worker' = IF Head(queue) = Sentinel THEN "exited" ELSE "start"
        /\ UNCHANGED <<closed, done, counters, errors>>
    BY <1>a, <1>3, TailFacts DEF Get, WorkerVars
  <2>2. Head(queue) = Sentinel => Len(queue) = 1 /\ closed
    BY <1>0, <2>1 DEF SentinelInv
  <2>3. Completed' = Completed
    BY <2>1 DEF Completed
  <2>4. /\ Cardinality(Completed)' = Cardinality(Completed)
        /\ Cardinality(errors \cap Completed)' = Cardinality(errors \cap Completed)
    BY <1>b, <2>1, <2>3
  <2>5. errors' \subseteq Completed'
    BY <1>0, <2>1, <2>3
  <2>6. UNCHANGED <<submitted, queued, started, active, maxActive, completed, failed>>
    BY <2>1 DEF counters
  <2>7. /\ submitted' = queued' + active' + completed' /\ started' = active' + completed'
        /\ maxActive' <= 1 /\ active' = (IF worker' \in {"run", "finish"} THEN 1 ELSE 0)
        /\ completed' = Cardinality(Completed') /\ failed' = Cardinality(errors' \cap Completed')
    BY <1>0, <2>1, <2>4, <2>6
  <2>8. queued' = Len(queue') - (IF closed' /\ worker' # "exited" THEN 1 ELSE 0)
                      + (IF worker' = "start" THEN 1 ELSE 0)
    <3>1. queued = Len(queue) - (IF closed THEN 1 ELSE 0)
      BY <1>0, <1>a, <2>1
    <3>2. CASE Head(queue) = Sentinel
      BY <1>a, <2>1, <2>2, <2>6, <3>1, <3>2
    <3>3. CASE Head(queue) # Sentinel
      BY <1>a, <2>1, <2>6, <3>1, <3>3
    <3>4. QED
      BY <3>2, <3>3
  <2>9. QED
    BY <2>5, <2>7, <2>8
<1>4. CASE Start
  <2>1. /\ worker = "start" /\ worker' = "run"
        /\ queued' = queued - 1 /\ started' = started + 1 /\ active' = active + 1
        /\ maxActive' = (IF active + 1 > maxActive THEN active + 1 ELSE maxActive)
        /\ UNCHANGED <<queue, closed, item, done, errors, submitted, completed, failed>>
    BY <1>4 DEF Start, WorkerVars
  <2>2. Completed' = Completed
    BY <2>1 DEF Completed
  <2>3. /\ Cardinality(Completed)' = Cardinality(Completed)
        /\ Cardinality(errors \cap Completed)' = Cardinality(errors \cap Completed)
    BY <1>b, <2>1, <2>2
  <2>4. active = 0
    BY <1>0, <2>1
  <2>5. /\ submitted' = queued' + active' + completed' /\ started' = active' + completed'
        /\ maxActive' <= 1 /\ active' = (IF worker' \in {"run", "finish"} THEN 1 ELSE 0)
        /\ completed' = Cardinality(Completed') /\ failed' = Cardinality(errors' \cap Completed')
    <3>1. /\ submitted' = queued' + active' + completed' /\ started' = active' + completed'
          /\ maxActive' <= 1 /\ active' = (IF worker' \in {"run", "finish"} THEN 1 ELSE 0)
      BY <1>a, <1>c, <2>1, <2>4
    <3>2. completed' = Cardinality(Completed') /\ failed' = Cardinality(errors' \cap Completed')
      BY <1>0, <2>1, <2>2, <2>3, <2>4
    <3>3. QED
      BY <3>1, <3>2
  <2>6. queued' = Len(queue') - (IF closed' /\ worker' # "exited" THEN 1 ELSE 0)
                      + (IF worker' = "start" THEN 1 ELSE 0)
    BY <1>0, <1>a, <2>1, <2>2, <2>3, <2>4
  <2>7. errors' \subseteq Completed' \cup (IF worker' = "finish" THEN {item'} ELSE {})
    BY <1>0, <2>1, <2>2, <2>3, <2>4
  <2>8. QED
    BY <2>5, <2>6, <2>7
<1>5. CASE Run \/ RunRecursive
  <2>1. /\ worker = "run" /\ worker' = "finish" /\ UNCHANGED <<queue, closed, item, done, counters>>
        /\ errors' \in {errors, errors \cup {item}}
    BY <1>5 DEF Run, RunRecursive, WorkerVars
  <2>2. errors' \cap done = errors \cap done
    BY <1>0, <2>1 DEF PlaceInv, Working
  <2>3. Completed = done /\ Completed' = done
    BY <2>1 DEF Completed
  <2>4. /\ Cardinality(Completed') = Cardinality(Completed)
        /\ Cardinality(errors' \cap Completed') = Cardinality(errors \cap Completed)
    BY <2>2, <2>3, Zenon
  <2>5. UNCHANGED <<submitted, queued, started, active, maxActive, completed, failed>>
    BY <2>1 DEF counters
  <2>6. errors' \subseteq Completed' \cup {item'}
    BY <1>0, <2>1, <2>3
  <2>7. QED
    BY <1>0, <1>a, <2>1, <2>4, <2>5, <2>6
<1>6. CASE Finish
  <2>1. /\ worker = "finish" /\ worker' = "set" /\ UNCHANGED <<queue, closed, item, done, errors>>
        /\ failed' = (IF item \in errors THEN failed + 1 ELSE failed)
        /\ active' = active - 1 /\ completed' = completed + 1
        /\ UNCHANGED <<submitted, queued, started, maxActive>>
    BY <1>6 DEF Finish, WorkerVars
  <2>2. item \in Requests /\ item \notin done
    BY <1>0, <2>1 DEF PlaceInv, Working
  <2>3. /\ Cardinality(done \cup {item}) = Cardinality(done) + 1
        /\ Cardinality(errors \cap (done \cup {item})) =
               Cardinality(errors \cap done) + (IF item \in errors THEN 1 ELSE 0)
    BY <1>0, <2>2, OneMore
  <2>4. Completed = done /\ Completed' = done \cup {item}
    BY <2>1 DEF Completed
  <2>5. /\ Cardinality(Completed') = completed + 1
        /\ Cardinality(errors' \cap Completed') = failed + (IF item \in errors THEN 1 ELSE 0)
    <3>1. completed = Cardinality(done) /\ failed = Cardinality(errors \cap done)
      BY <1>0, <2>4
    <3>2. errors' = errors
      BY <2>1
    <3>3. QED
      BY <2>3, <2>4, <3>1, <3>2, Zenon
  <2>6. active = 1 /\ errors' \subseteq Completed'
    BY <1>0, <2>1, <2>4
  <2>7. /\ submitted' = queued' + active' + completed' /\ started' = active' + completed'
        /\ maxActive' <= 1 /\ active' = (IF worker' \in {"run", "finish"} THEN 1 ELSE 0)
        /\ completed' = Cardinality(Completed') /\ failed' = Cardinality(errors' \cap Completed')
    <3>1. /\ submitted' = queued' + active' + completed' /\ started' = active' + completed'
          /\ maxActive' <= 1 /\ active' = (IF worker' \in {"run", "finish"} THEN 1 ELSE 0)
      BY <1>a, <1>c, <2>1
    <3>2. completed' = Cardinality(Completed') /\ failed' = Cardinality(errors' \cap Completed')
      BY <1>0, <2>1, <2>5, <2>6
    <3>3. QED
      BY <3>1, <3>2
  <2>8. queued' = Len(queue') - (IF closed' /\ worker' # "exited" THEN 1 ELSE 0)
                      + (IF worker' = "start" THEN 1 ELSE 0)
    BY <1>0, <1>a, <2>1, <2>5, <2>6
  <2>9. errors' \subseteq Completed' \cup (IF worker' = "finish" THEN {item'} ELSE {})
    BY <1>0, <2>1, <2>5, <2>6
  <2>10. QED
    BY <2>7, <2>8, <2>9
<1>7. CASE SetDone
  <2>1. Completed' = Completed /\ worker = "set" /\ worker' = "get"
    BY <1>7 DEF SetDone, Completed
  <2>2. UNCHANGED <<queue, closed, item, counters, errors>>
    BY <1>7 DEF SetDone, WorkerVars
  <2>3. QED
    BY <1>0, <1>a, <2>1, <2>2 DEF counters
<1>8. ASSUME NEW k \in Closers, CloseFirst(k), ~closed PROVE CounterInv'
  <2>1. Len(queue') = Len(queue) + 1 /\ closed' = TRUE /\ worker # "exited"
    BY <1>0, <1>a, <1>8, AppendFacts DEF CloseFirst, SentinelInv
  <2>2. UNCHANGED <<worker, item, done, errors>>
    BY <1>8 DEF CloseFirst
  <2>3. UNCHANGED <<submitted, queued, started, active, maxActive, completed, failed>>
    BY <1>8 DEF CloseFirst, counters
  <2>4. Completed' = Completed
    BY <2>2 DEF Completed
  <2>5. /\ Cardinality(Completed)' = Cardinality(Completed)
        /\ Cardinality(errors \cap Completed)' = Cardinality(errors \cap Completed)
    BY <1>b, <2>2, <2>4
  <2>6. /\ submitted' = queued' + active' + completed' /\ started' = active' + completed'
        /\ maxActive' <= 1 /\ active' = (IF worker' \in {"run", "finish"} THEN 1 ELSE 0)
        /\ completed' = Cardinality(Completed') /\ failed' = Cardinality(errors' \cap Completed')
    BY <1>0, <1>a, <1>8, <2>1, <2>2, <2>3, <2>4, <2>5
  <2>7. queued' = Len(queue') - (IF closed' /\ worker' # "exited" THEN 1 ELSE 0)
                      + (IF worker' = "start" THEN 1 ELSE 0)
    BY <1>0, <1>a, <1>8, <2>1, <2>2, <2>3, <2>4, <2>5
  <2>8. errors' \subseteq Completed' \cup (IF worker' = "finish" THEN {item'} ELSE {})
    BY <1>0, <1>8, <2>1, <2>2, <2>3, <2>4, <2>5
  <2>9. QED
    BY <2>6, <2>7, <2>8
<1>9. QED
  BY <1>1, <1>2, <1>3, <1>4, <1>5, <1>6, <1>7, <1>8, <1>a
  DEF Next, WorkerStep, Rest, vars, SubmitRefused, Return, CloseFirst, Join

-----------------------------------------------------------------------------
(* What follows of every behaviour.                                        *)

\* The invariant is inductive.
LEMMA Inductive == Spec => []IInv
<1>1. IInv /\ [Next]_vars => IInv'
  BY TypeStep, SentinelStep, PlaceStep, CounterStep DEF IInv
<1>2. QED
  BY InitInv, <1>1, PTL DEF Spec

\* Every variable keeps its type; no counter goes below zero.
THEOREM ActorTyped == Spec => []TypeOK
<1>1. IInv => TypeOK
  BY DEF IInv
<1>2. QED
  BY <1>1, Inductive, PTL

\* The metrics add up between any two steps, and the backend is never entered
\* twice at a time.
THEOREM MetricsCorrect == Spec => []MetricsAddUp
<1>1. IInv => MetricsAddUp
  BY DEF IInv, CounterInv
<1>2. QED
  BY <1>1, Inductive, PTL

\* No accepted request is left behind by the worker's end.
THEOREM NothingLeftBehind == Spec => []NothingBehindSentinel
<1>1. IInv => NothingBehindSentinel
  <2>1. ASSUME IInv, worker = "exited", NEW r \in Accepted PROVE r \in done
    <3>1. DOMAIN queue = {}
      BY <2>1 DEF IInv, SentinelInv
    <3>2. ~Working
      BY <2>1 DEF Working
    <3>3. QED
      BY <2>1, <3>1, <3>2 DEF IInv, PlaceInv
  <2>2. ASSUME IInv, NEW i \in DOMAIN queue, queue[i] = Sentinel
        PROVE  i = Len(queue) /\ closed
    BY <2>2 DEF IInv, SentinelInv
  <2>3. QED
    BY <2>1, <2>2 DEF NothingBehindSentinel, IInv, SentinelInv
<1>2. QED
  BY <1>1, Inductive, PTL

\* Any call of close that has returned has waited for all accepted work.
THEOREM CloseIsDrained == Spec => []CloseDrains
<1>1. IInv => CloseDrains
  <2>1. ASSUME IInv, NEW k \in Closers, closer[k] = "closed" PROVE Accepted \subseteq done
    <3>1. worker = "exited" /\ queue = <<>>
      BY <2>1 DEF IInv, SentinelInv
    <3>2. DOMAIN queue = {} /\ ~Working
      BY <3>1 DEF Working
    <3>3. QED
      BY <2>1, <3>2 DEF IInv, PlaceInv
  <2>2. QED
    BY <2>1 DEF CloseDrains
<1>2. QED
  BY <1>1, Inductive, PTL

-----------------------------------------------------------------------------
(* The FIFO service.                                                       *)

\* Appending to the second of two sequences appends to both.
LEMMA ConcatAppend ==
  ASSUME NEW S, NEW w \in Seq(S), NEW q \in Seq(S), NEW e \in S
  PROVE  w \o Append(q, e) = Append(w \o q, e)
<1>1. Append(q, e) = q \o <<e>> /\ <<e>> \in Seq(S)
  BY AppendIsConcat
<1>2. w \o q \in Seq(S)
  BY ConcatProperties
<1>3. Append(w \o q, e) = (w \o q) \o <<e>>
  BY <1>2, AppendIsConcat
<1>4. QED
  BY <1>1, <1>3, ConcatAssociative

\* A sequence is its head followed by its tail.
LEMMA HeadThenTail ==
  ASSUME NEW S, NEW q \in Seq(S), q # <<>>
  PROVE  q = <<Head(q)>> \o Tail(q)
<1>1. <<Head(q)>> \in Seq(S) /\ Tail(q) \in Seq(S) /\ Len(Tail(q)) = Len(q) - 1
  BY TailFacts
<1>2. /\ <<Head(q)>> \o Tail(q) \in Seq(S) /\ Len(<<Head(q)>> \o Tail(q)) = 1 + (Len(q) - 1)
      /\ \A i \in 1..(1 + (Len(q) - 1)) : (<<Head(q)>> \o Tail(q))[i] =
             IF i <= 1 THEN Head(q) ELSE Tail(q)[i - 1]
  BY <1>1, ConcatProperties
<1>3. \A i \in 1..Len(q) : (<<Head(q)>> \o Tail(q))[i] = q[i]
  BY <1>1, <1>2, TailFacts
<1>4. QED
  BY <1>2, <1>3, TailFacts, SeqEqual

\* Leaving out the last element of a sequence.
LEMMA StripFacts ==
  ASSUME NEW S, NEW q \in Seq(S), q # <<>>
  PROVE  /\ SubSeq(q, 1, Len(q) - 1) \in Seq(S)
         /\ Len(SubSeq(q, 1, Len(q) - 1)) = Len(q) - 1
         /\ \A i \in 1..(Len(q) - 1) : SubSeq(q, 1, Len(q) - 1)[i] = q[i]
<1>1. Len(q) \in Nat \ {0} /\ \A i \in 1..(Len(q) - 1) : q[i] \in S
  BY TailFacts, ElementOfSeq
<1>2. \A m \in Nat \ {0} : m - 1 \in Nat
  OBVIOUS
<1>3. PICK n \in Nat : Len(q) - 1 = n
  BY <1>1, <1>2
<1>4. /\ SubSeq(q, 1, n) \in Seq(S)
      /\ Len(SubSeq(q, 1, n)) = IF 1 <= n THEN n - 1 + 1 ELSE 0
      /\ \A i \in 1..(n - 1 + 1) : SubSeq(q, 1, n)[i] = q[1 + i - 1]
  BY <1>1, <1>3, SubSeqProperties
<1>5. Len(SubSeq(q, 1, n)) = n /\ \A i \in 1..n : SubSeq(q, 1, n)[i] = q[i]
  BY <1>4
<1>6. QED
  BY <1>3, <1>4, <1>5

\* Leaving out an element that was just appended.
LEMMA StripAppended ==
  ASSUME NEW S, NEW q \in Seq(S), NEW e \in S
  PROVE  SubSeq(Append(q, e), 1, Len(Append(q, e)) - 1) = q
<1>1. /\ Append(q, e) \in Seq(S) /\ Append(q, e) # <<>> /\ Len(Append(q, e)) = Len(q) + 1
      /\ \A i \in 1..Len(q) : Append(q, e)[i] = q[i] /\ Len(q) \in Nat
  BY AppendFacts
<1>2. Len(Append(q, e)) - 1 = Len(q)
  BY AppendFacts
<1>3. QED
  BY <1>1, <1>2, StripFacts, SeqEqual

\* Leaving out the last element commutes with taking the head.
LEMMA StripTail ==
  ASSUME NEW S, NEW q \in Seq(S), q # <<>>, Tail(q) # <<>>
  PROVE  /\ SubSeq(q, 1, Len(q) - 1) # <<>>
         /\ Head(SubSeq(q, 1, Len(q) - 1)) = Head(q)
         /\ Tail(SubSeq(q, 1, Len(q) - 1)) = SubSeq(Tail(q), 1, Len(Tail(q)) - 1)
<1> DEFINE p == SubSeq(q, 1, Len(q) - 1)
           t == SubSeq(Tail(q), 1, Len(Tail(q)) - 1)
<1>1. /\ Len(q) \in Nat \ {0, 1} /\ Tail(q) \in Seq(S) /\ Len(Tail(q)) = Len(q) - 1
      /\ \A i \in 1..(Len(q) - 1) : Tail(q)[i] = q[i + 1]
  BY TailFacts
<1>2. p \in Seq(S) /\ Len(p) = Len(q) - 1 /\ \A i \in 1..(Len(q) - 1) : p[i] = q[i]
  BY StripFacts
<1>3. p # <<>> /\ Head(p) = Head(q)
  BY <1>1, <1>2, TailFacts, EmptySeq
<1>4. /\ Tail(p) \in Seq(S) /\ Len(Tail(p)) = Len(q) - 2
      /\ \A i \in 1..(Len(q) - 2) : Tail(p)[i] = p[i + 1]
  BY <1>1, <1>2, <1>3, TailFacts
<1>5. /\ t \in Seq(S) /\ Len(t) = Len(q) - 2
      /\ \A i \in 1..(Len(q) - 2) : t[i] = Tail(q)[i]
  BY <1>1, StripFacts
<1> HIDE DEF p, t
<1>6. \A i \in 1..(Len(q) - 2) : Tail(p)[i] = t[i]
  BY <1>1, <1>2, <1>4, <1>5
<1>7. Tail(p) = t
  BY <1>4, <1>5, <1>6, SeqEqual
<1>8. QED
  BY <1>3, <1>7 DEF p, t

\* What waits in the queue are requests, in the order of the queue.
LEMMA WaitingFacts ==
  ASSUME TypeOK, SentinelInv
  PROVE  /\ Waiting \in Seq(Requests)
         /\ \A i \in DOMAIN Waiting : i \in DOMAIN queue /\ Waiting[i] = queue[i]
         /\ ~closed => Waiting = queue
<1>1. /\ queue \in Seq(Requests \cup {Sentinel}) /\ DOMAIN queue = 1..Len(queue)
      /\ Len(queue) \in Nat
      /\ \A i \in 1..Len(queue) : queue[i] \in Requests \cup {Sentinel}
  BY LenProperties, ElementOfSeq DEF TypeOK
<1>2. CASE queue # <<>> /\ queue[Len(queue)] = Sentinel
  <2> DEFINE n == Len(queue) - 1
  <2>1. Waiting = SubSeq(queue, 1, n) /\ closed
    BY <1>2 DEF Waiting, SentinelInv
  <2>2. Len(SubSeq(queue, 1, n)) = n /\ \A i \in 1..n : SubSeq(queue, 1, n)[i] = queue[i]
    BY <1>1, <1>2, StripFacts
  <2>3. n \in Int /\ 1..n \subseteq DOMAIN queue /\ \A i \in 1..n : queue[i] \in Requests
    BY <1>1 DEF SentinelInv
  <2> HIDE DEF n
  <2>4. SubSeq(queue, 1, n) \in Seq(Requests)
    BY <2>3, SubSeqProperties
  <2>5. DOMAIN SubSeq(queue, 1, n) = 1..n
    BY <2>2, <2>4, LenProperties
  <2>6. QED
    BY <2>1, <2>2, <2>3, <2>4, <2>5
<1>3. CASE ~(queue # <<>> /\ queue[Len(queue)] = Sentinel)
  <2>1. Waiting = queue
    BY <1>3 DEF Waiting
  <2>2. \A i \in 1..Len(queue) : queue[i] \in Requests
    <3>1. ASSUME NEW i \in 1..Len(queue), queue[i] = Sentinel PROVE FALSE
      BY <1>1, <1>3, <3>1, EmptySeq DEF SentinelInv
    <3>2. QED
      BY <1>1, <3>1
  <2>3. SubSeq(queue, 1, Len(queue)) \in Seq(Requests)
    BY <1>1, <2>2, SubSeqProperties
  <2>4. QED
    BY <1>1, <2>1, <2>3, SubSeqFull
<1>4. QED
  BY <1>2, <1>3

\* No request that was not submitted yet is known to the service.
LEMMA NewIsUnknown ==
  ASSUME IInv, NEW r \in Requests, call[r] = "new"
  PROVE  r \notin Contract!Known
<1>1. TypeOK /\ SentinelInv /\ PlaceInv
  BY DEF IInv
<1>2. r \notin done /\ \A i \in DOMAIN queue : queue[i] # r
  BY <1>1, ActorAssumption DEF PlaceInv, Accepted
<1>3. Waiting \in Seq(Requests) /\ \A i \in DOMAIN Waiting : Waiting[i] # r
  BY <1>1, <1>2, WaitingFacts
<1>4. CASE Working
  <2>1. item # r /\ <<item>> \in Seq(Requests) /\ Len(<<item>>) = 1 /\ <<item>>[1] = item
    BY <1>1, <1>4 DEF PlaceInv
  <2>2. /\ <<item>> \o Waiting \in Seq(Requests)
        /\ Len(<<item>> \o Waiting) = 1 + Len(Waiting)
        /\ \A i \in 1..(1 + Len(Waiting)) : (<<item>> \o Waiting)[i] =
               IF i <= 1 THEN <<item>>[i] ELSE Waiting[i - 1]
    BY <1>3, <2>1, ConcatProperties
  <2>3. \A i \in DOMAIN (<<item>> \o Waiting) : (<<item>> \o Waiting)[i] # r
    BY <1>3, <2>1, <2>2, LenProperties
  <2>4. QED
    BY <1>2, <1>4, <2>3 DEF Contract!Known, Pending
<1>5. CASE ~Working
  <2>1. Pending = Waiting
    BY <1>3, <1>5, ConcatEmptySeq DEF Pending
  <2>2. QED
    BY <1>2, <1>3, <2>1 DEF Contract!Known
<1>6. QED
  BY <1>4, <1>5

\* The service sees of the actor what it accepts, refuses and answers, and when
\* it is shut and has stopped; everything else is internal.
LEMMA Hidden ==
  ASSUME UNCHANGED <<Pending, done, closed>>, worker' = "exited" <=> worker = "exited",
         \A r \in Requests : call'[r] = "refused" <=> call[r] = "refused"
  PROVE  UNCHANGED Contract!vars
  BY DEF Contract!vars

\* Every step of every thread is a step of the service, or invisible to it.
LEMMA ServiceStep == IInv /\ [Next]_vars => [Contract!Next]_(Contract!vars)
<1> SUFFICES ASSUME IInv, [Next]_vars PROVE Contract!Next \/ UNCHANGED Contract!vars
  OBVIOUS
<1>0. TypeOK /\ SentinelInv /\ PlaceInv
  BY DEF IInv
<1>a. /\ queue \in Seq(Requests \cup {Sentinel}) /\ Waiting \in Seq(Requests)
      /\ call \in [Requests -> {"new", "waiting", "refused", "returned", "raised"}]
  BY <1>0, WaitingFacts DEF TypeOK
<1>b. Working => <<item>> \in Seq(Requests)
  BY <1>0 DEF PlaceInv
<1>c. UNCHANGED queue => Waiting' = Waiting
  BY DEF Waiting
<1>d. UNCHANGED <<queue, item>> /\ (Working' <=> Working) => Pending' = Pending
  BY <1>c DEF Pending
<1>1. ASSUME NEW r \in Requests, SubmitAccepted(r) PROVE Contract!Next
  <2>1. /\ call[r] = "new" /\ ~closed /\ queue' = Append(queue, r)
        /\ call' = [call EXCEPT ![r] = "waiting"]
        /\ UNCHANGED <<closed, worker, item, done>>
    BY <1>1 DEF SubmitAccepted, MayEnter
  <2>2. Waiting = queue
    BY <1>0, <2>1, WaitingFacts
  <2>3. Waiting' = Append(Waiting, r)
    <3>1. Append(queue, r) # <<>> /\ Append(queue, r)[Len(Append(queue, r))] = r
      BY <1>a, AppendFacts
    <3>2. QED
      BY <2>1, <2>2, <3>1, ActorAssumption DEF Waiting
  <2>4. Pending' = Append(Pending, r)
    <3>1. CASE Working
      BY <1>a, <1>b, <2>1, <2>3, <3>1, ConcatAppend DEF Pending, Working
    <3>2. CASE ~Working
      <4>1. Pending = Waiting
        BY <1>a, <3>2, ConcatEmptySeq DEF Pending
      <4>2. Append(Waiting, r) \in Seq(Requests) /\ (Working' <=> Working)
        BY <1>a, <2>1, AppendFacts DEF Working
      <4>3. Pending' = Append(Waiting, r)
        BY <2>3, <3>2, <4>2, ConcatEmptySeq DEF Pending
      <4>4. QED
        BY <4>1, <4>3
    <3>3. QED
      BY <3>1, <3>2
  <2>5. {q \in Requests : call'[q] = "refused"} = {q \in Requests : call[q] = "refused"}
    BY <1>a, <2>1
  <2>6. Contract!Accept(r)
    BY <2>1, <2>4, <2>5, NewIsUnknown DEF Contract!Accept
  <2>7. QED
    BY <2>6 DEF Contract!Next
<1>2. ASSUME NEW r \in Requests, SubmitRefused(r) PROVE Contract!Next
  <2>1. /\ call[r] = "new" /\ closed /\ call' = [call EXCEPT ![r] = "refused"]
        /\ UNCHANGED <<queue, closed, worker, item, done>>
    BY <1>2 DEF SubmitRefused
  <2>2. {q \in Requests : call'[q] = "refused"} = {q \in Requests : call[q] = "refused"} \cup {r}
    BY <1>a, <2>1
  <2>3. Pending' = Pending
    BY <1>d, <2>1 DEF Working
  <2>4. Contract!Refuse(r)
    BY <2>1, <2>2, <2>3, NewIsUnknown DEF Contract!Refuse
  <2>5. QED
    BY <2>4 DEF Contract!Next
<1>3. ASSUME NEW r \in Requests, Return(r) PROVE UNCHANGED Contract!vars
  <2>1. /\ call[r] = "waiting" /\ \E a \in {"raised", "returned"} : call' = [call EXCEPT ![r] = a]
        /\ UNCHANGED <<queue, closed, worker, item, done>>
    BY <1>3 DEF Return
  <2>2. \A q \in Requests : call'[q] = "refused" <=> call[q] = "refused"
    BY <1>a, <2>1
  <2>3. QED
    BY <1>d, <2>1, <2>2, Hidden DEF Working
<1>4. CASE Get
  <2>1. /\ worker = "get" /\ queue # <<>> /\ queue' = Tail(queue) /\ item' = Head(queue)
        /\ worker' = IF Head(queue) = Sentinel THEN "exited" ELSE "start"
        /\ UNCHANGED <<done, call, closed>>
    BY <1>4 DEF Get, WorkerVars
  <2>2. Pending = Waiting
    BY <1>a, <2>1, ConcatEmptySeq DEF Pending, Working
  <2>3. Head(queue) = queue[1] /\ DOMAIN queue = 1..Len(queue) /\ Len(queue) \in Nat \ {0}
    BY <1>a, <2>1, TailFacts
  <2>4. CASE Head(queue) = Sentinel
    <3>1. Len(queue) = 1 /\ closed /\ queue' = <<>>
      BY <1>0, <1>a, <2>1, <2>3, <2>4, TailFacts DEF SentinelInv
    <3>2. Waiting = <<>>
      BY <2>1, <2>3, <2>4, <3>1, SubSeqEmpty DEF Waiting
    <3>3. Pending' = <<>>
      <4>1. Waiting' = <<>> /\ ~Working'
        BY <2>1, <2>4, <3>1 DEF Waiting, Working
      <4>2. QED
        BY <4>1, <1>a, ConcatEmptySeq, EmptySeq DEF Pending
    <3>4. Contract!Stop
      BY <2>1, <2>2, <2>4, <3>1, <3>2, <3>3 DEF Contract!Stop
    <3>5. QED
      BY <3>4 DEF Contract!Next
  <2>5. CASE Head(queue) # Sentinel
    <3>1. Pending' = <<Head(queue)>> \o Waiting'
      BY <2>1, <2>5 DEF Pending, Working
    <3>2. CASE queue[Len(queue)] = Sentinel
      <4>1. Len(queue) # 1 /\ Tail(queue) # <<>>
        BY <1>a, <2>1, <2>3, <2>5, <3>2, TailFacts
      <4>2. Waiting # <<>> /\ Head(Waiting) = Head(queue)
            /\ Tail(Waiting) = SubSeq(Tail(queue), 1, Len(Tail(queue)) - 1)
        BY <1>a, <2>1, <3>2, <4>1, StripTail DEF Waiting
      <4>3. Tail(queue)[Len(Tail(queue))] = Sentinel
        BY <1>a, <2>1, <3>2, <4>1, TailFacts
      <4>4. Waiting' = Tail(Waiting)
        BY <2>1, <4>1, <4>2, <4>3 DEF Waiting
      <4>5. Pending' = Pending
        BY <1>a, <2>2, <3>1, <4>2, <4>4, HeadThenTail
      <4>6. QED
        BY <2>1, <2>5, <4>5, Hidden
    <3>3. CASE queue[Len(queue)] # Sentinel
      <4>1. Waiting = queue
        BY <2>1, <3>3 DEF Waiting
      <4>2. Tail(queue) # <<>> => Tail(queue)[Len(Tail(queue))] # Sentinel
        BY <1>a, <2>1, <2>3, <3>3, TailFacts
      <4>3. Waiting' = Tail(queue)
        BY <2>1, <4>2 DEF Waiting
      <4>4. Pending' = Pending
        BY <1>a, <2>1, <2>2, <3>1, <4>1, <4>3, HeadThenTail
      <4>5. QED
        BY <2>1, <2>5, <4>4, Hidden
    <3>4. QED
      BY <3>2, <3>3
  <2>6. QED
    BY <2>4, <2>5
<1>5. CASE Start \/ Run \/ RunRecursive \/ Finish
  <2>1. /\ UNCHANGED <<queue, item, done, call, closed>> /\ Working /\ Working'
        /\ worker # "exited" /\ worker' # "exited"
    BY <1>5 DEF Start, Run, RunRecursive, Finish, WorkerVars, Working
  <2>2. QED
    BY <1>d, <2>1, Hidden
<1>6. CASE SetDone
  <2>1. /\ worker = "set" /\ worker' = "get" /\ done' = done \cup {item}
        /\ UNCHANGED <<queue, item, call, closed>>
    BY <1>6 DEF SetDone, WorkerVars
  <2>2. Working /\ ~Working'
    BY <2>1 DEF Working
  <2>3. Pending = <<item>> \o Waiting
    BY <2>2 DEF Pending
  <2>4. Pending' = Waiting
    BY <1>a, <1>c, <2>1, <2>2, ConcatEmptySeq DEF Pending
  <2>5. Pending # <<>> /\ Head(Pending) = item /\ Tail(Pending) = Waiting
    <3>1. /\ Pending \in Seq(Requests) /\ Len(Pending) = Len(Waiting) + 1
          /\ Pending[1] = item /\ \A i \in 1..Len(Waiting) : Pending[i + 1] = Waiting[i]
      <4>1. /\ Pending \in Seq(Requests) /\ Len(Pending) = 1 + Len(Waiting)
            /\ \A i \in 1..(1 + Len(Waiting)) :
                   Pending[i] = IF i <= 1 THEN <<item>>[i] ELSE Waiting[i - 1]
        BY <1>a, <1>b, <2>2, <2>3, ConcatProperties
      <4>2. Len(Waiting) \in Nat
        BY <1>a, LenProperties
      <4>3. QED
        BY <4>1, <4>2
    <3>2. Pending # <<>> /\ Len(Waiting) \in Nat
      BY <1>a, <3>1, LenProperties, EmptySeq
    <3>3. /\ Head(Pending) = Pending[1] /\ Tail(Pending) \in Seq(Requests)
          /\ Len(Tail(Pending)) = Len(Waiting)
          /\ \A i \in 1..Len(Waiting) : Tail(Pending)[i] = Pending[i + 1]
      BY <3>1, <3>2, TailFacts
    <3>4. QED
      BY <1>a, <3>1, <3>2, <3>3, SeqEqual
  <2>6. Contract!Answer
    BY <2>1, <2>4, <2>5 DEF Contract!Answer
  <2>7. QED
    BY <2>6 DEF Contract!Next
<1>7. ASSUME NEW k \in Closers, CloseFirst(k), ~closed PROVE Contract!Next
  <2>1. /\ queue' = Append(queue, Sentinel) /\ closed' = TRUE
        /\ UNCHANGED <<worker, item, call, done>>
    BY <1>7 DEF CloseFirst
  <2>2. Waiting = queue
    BY <1>0, <1>7, WaitingFacts
  <2>3. Waiting' = queue
    <3>1. /\ Append(queue, Sentinel) # <<>>
          /\ Append(queue, Sentinel)[Len(Append(queue, Sentinel))] = Sentinel
      BY <1>a, AppendFacts
    <3>2. SubSeq(Append(queue, Sentinel), 1, Len(Append(queue, Sentinel)) - 1) = queue
      BY <1>a, StripAppended
    <3>3. QED
      BY <2>1, <3>1, <3>2 DEF Waiting
  <2>4. Pending' = Pending
    BY <2>1, <2>2, <2>3 DEF Pending, Working
  <2>5. Contract!Shut
    BY <1>7, <2>1, <2>4 DEF Contract!Shut
  <2>6. QED
    BY <2>5 DEF Contract!Next
<1>8. CASE UNCHANGED <<queue, worker, item, done, call, closed>>
  BY <1>d, <1>8, Hidden DEF Working
<1>9. QED
  BY <1>0, <1>1, <1>2, <1>3, <1>4, <1>5, <1>6, <1>7, <1>8
  DEF Next, WorkerStep, Rest, vars, CloseFirst, Join, TypeOK

\* GpuActor does what the FIFO service allows and nothing else: requests are
\* answered one at a time in the order they were accepted, none is accepted
\* once it is shut, and it stops only when it is drained.
THEOREM ServiceSafe == Spec => Contract!Init /\ [][Contract!Next]_(Contract!vars)
<1>1. Init => Contract!Init
  <2>1. Init => Pending = <<>>
    BY EmptySeq, ConcatEmptySeq DEF Init, Pending, Waiting, Working
  <2>2. QED
    BY <2>1 DEF Init, Contract!Init
<1>2. QED
  BY <1>1, Inductive, ServiceStep, PTL DEF Spec
=============================================================================
