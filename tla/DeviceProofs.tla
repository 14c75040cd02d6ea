------------------------------ MODULE DeviceProofs ------------------------------
(***************************************************************************)
(* The shared model is back at rest after every call, nothing is left in   *)
(* it unaccounted for, the parts of a session agree and a failed call      *)
(* changes nothing: for any number of sessions and for every configuration *)
(* and generated batch.                                                    *)
(*                                                                         *)
(* The second half is about the scores of a policy call: for every prompt, *)
(* batch of rows and chunk width, each of the four scoring modes reports   *)
(* the causal score of every token.  What a recursive function computes is *)
(* shown by taking the least place at which it would differ.               *)
(***************************************************************************)
EXTENDS Device, WellFoundedInduction, TLAPS

CallFields   == {"op", "s", "pc", "origin", "rows", "cache", "image"}
SharedFields == {"active", "cache", "training", "disabled", "rng", "grads"}
Images == [adapter : WeightStates, head : WeightStates,
           moments : Nat, steps : Nat, draws : Nat]
Places == [policy  |-> {"begun", "generated", "answered"},
           value   |-> {"begun", "valued", "answered"},
           learn   |-> {"begun", "losses", "stepped", "counted", "failed"},
           restore |-> {"begun", "failed"},
           create  |-> {"begun", "allocated", "built", "replaced"}]

TypeOK ==
    /\ adapter \in [Sessions -> WeightStates \cup {None, Torn}]
    /\ session \in [Sessions -> SessionStates \cup {None}]
    /\ saved \in [Sessions -> SUBSET Images]
    /\ DOMAIN shared = SharedFields
    /\ DOMAIN call = CallFields
    /\ Idle => call.pc = "none"
    /\ ~Idle => /\ call.s \in Sessions
                /\ call.op \in DOMAIN Places
                /\ call.pc \in Places[call.op]

\* The parts of a session have absorbed the same updates.
Whole(s) == adapter[s] \in WeightStates /\ Consistent(Image(s))

\* Between its calls a served session is whole, and so is what is on disk of it;
\* its adapter is accounted for.
Accounted(s) == \/ session[s] # None
                \/ s \in withheld
                \/ call.op = "create" /\ call.s = s /\ call.pc = "allocated"
SessionInv(s) ==
    /\ session[s] # None => session[s].owns = session[s].made
    /\ Served(s) /\ (Idle \/ call.s # s) => Whole(s)
    /\ \A image \in saved[s] : Consistent(image)
    /\ adapter[s] # None => Accounted(s)

\* What a call does to the shared model lasts no longer than these places.
InTraining == call.op = "learn" /\ call.pc \in {"losses", "stepped"}
Streaming  == \/ call.pc \in {"generated", "valued"}
              \/ InTraining
              \/ call.op = "create" /\ call.pc \in {"begun", "allocated"}
SharedInv ==
    /\ ~InTraining => shared.cache /\ ~shared.training /\ ~shared.disabled /\ shared.grads = {}
    /\ ~Streaming => shared.rng = Host
    /\ InTraining => shared.grads \in {{}, Owned(call.s)}
    /\ call.op = "learn" => shared.active = call.s
    /\ call.cache

\* What a call knows of its session at each place.
ServingInv == call.op \in {"policy", "value", "learn", "restore"} =>
    Served(call.s) /\ call.image \in Images /\ Consistent(call.image)
AskInv == call.op \in {"policy", "value"} =>
    Whole(call.s) /\ (call.pc # "answered" => Image(call.s) = call.image)
LearnInv == call.op = "learn" =>
    /\ call.pc \in {"begun", "losses", "counted"} => Whole(call.s)
    /\ call.pc = "stepped" =>
        /\ adapter[call.s] \in WeightStates
        /\ adapter[call.s] = session[call.s].head
        /\ session[call.s].head.updates = session[call.s].moments
        /\ session[call.s].moments = session[call.s].steps + 1
RestoreInv == call.op = "restore" /\ call.pc = "begun" =>
    Whole(call.s) /\ call.origin \in Images /\ Consistent(call.origin)
CreateInv == call.op = "create" =>
    /\ call.s \notin withheld
    /\ call.pc \in {"begun", "allocated"} => session[call.s] = None
    /\ call.pc # "begun" => adapter[call.s] = Weights("fresh", 0)
    /\ call.pc \in {"built", "replaced"} => session[call.s] # None /\ Whole(call.s)
CallInv == ServingInv /\ AskInv /\ LearnInv /\ RestoreInv /\ CreateInv

IInv == /\ TypeOK
        /\ \A s \in Sessions : SessionInv(s)
        /\ SharedInv
        /\ CallInv

-----------------------------------------------------------------------------
(* The operators the steps are built from.                                 *)

LEMMA CommittedType ==
  ASSUME NEW r \in SessionStates
  PROVE  /\ Committed(r) \in SessionStates
         /\ Committed(r).owns = r.owns /\ Committed(r).made = r.made
         /\ Committed(r).head = r.head /\ Committed(r).moments = r.moments
         /\ Committed(r).steps = r.steps
BY DEF Committed, SessionStates

LEMMA FreshType == Fresh \in SessionStates /\ Weights("fresh", 0) \in WeightStates
BY DEF Fresh, SessionStates, WeightStates, Weights, Origins

LEMMA ReplacedType ==
  ASSUME NEW r \in SessionStates
  PROVE  /\ Replaced(r) \in SessionStates
         /\ Replaced(r).owns = Replaced(r).made
         /\ Replaced(r).head = Weights("fresh", 0)
         /\ Replaced(r).moments = 0 /\ Replaced(r).steps = r.steps
<1>1. /\ Committed(r) \in SessionStates /\ Committed(r).made = r.made
      /\ Committed(r).steps = r.steps /\ r.made + 1 \in Nat
  BY CommittedType DEF SessionStates
<1>2. /\ HeadReplaced(r) \in SessionStates
      /\ HeadReplaced(r).head = Weights("fresh", 0)
      /\ HeadReplaced(r).made = r.made + 1 /\ HeadReplaced(r).steps = r.steps
  BY <1>1, FreshType DEF HeadReplaced, SessionStates
<1>3. QED
  BY <1>1, <1>2 DEF Replaced, SessionStates

LEMMA ImportType ==
  ASSUME NEW r \in SessionStates, NEW image \in Images, NEW k \in 0..4
  PROVE  /\ ImportedParts(r, image, k) \in SessionStates
         /\ ImportedParts(r, image, k).owns = r.owns
         /\ ImportedParts(r, image, k).made = r.made
BY DEF ImportedParts, SessionStates, Images

LEMMA ImportAll ==
  ASSUME NEW r \in SessionStates, NEW image \in Images
  PROVE  /\ ImportedParts(r, image, 4).head = image.head
         /\ ImportedParts(r, image, 4).moments = image.moments
         /\ ImportedParts(r, image, 4).steps = image.steps
         /\ ImportedParts(r, image, 4).draws = image.draws
BY DEF ImportedParts, SessionStates, Images

\* The image of a whole session is an image on disk, and a consistent one.
LEMMA WholeImage ==
  ASSUME NEW s \in Sessions, session[s] \in SessionStates, Whole(s)
  PROVE  Image(s) \in Images /\ Consistent(Image(s))
<1>1. Image(s) \in Images
  BY DEF Whole, Image, Images, SessionStates
<1>2. QED
  BY <1>1 DEF Whole

\* A session that exists has a state.
LEMMA Exists ==
  ASSUME TypeOK, NEW s \in Sessions, session[s] # None
  PROVE  session[s] \in SessionStates
BY DEF TypeOK

LEMMA StatesDiffer ==
  /\ \A r \in SessionStates : r # None
  /\ \A w \in WeightStates : w # None /\ w # Torn
  /\ Torn # None
BY DeviceAssumption

-----------------------------------------------------------------------------
(* A call leaves the other sessions as they are.                           *)

Elsewhere(s) == \A r \in Sessions \ {s} :
    /\ adapter'[r] = adapter[r]
    /\ session'[r] = session[r]
    /\ saved'[r] = saved[r]
    /\ r \in withheld' <=> r \in withheld

\* The session a step is about: the one whose call is going on, or any.
LEMMA OthersKeep ==
  ASSUME IInv, NEW s \in Sessions, Idle \/ call.s = s, Idle' \/ call'.s = s, Elsewhere(s)
  PROVE  \A r \in Sessions \ {s} : SessionInv(r)'
<1> SUFFICES ASSUME NEW r \in Sessions \ {s} PROVE SessionInv(r)'
  OBVIOUS
<1>1. SessionInv(r) /\ r # s
  BY DEF IInv
<1>2. /\ adapter'[r] = adapter[r] /\ session'[r] = session[r] /\ saved'[r] = saved[r]
      /\ r \in withheld' <=> r \in withheld
  BY DEF Elsewhere
<1>3. (session[r] # None => session[r].owns = session[r].made)'
  BY <1>1, <1>2 DEF SessionInv
<1>4. (Served(r) => Whole(r))'
  <2>1. Served(r)' => Served(r)
    BY <1>2 DEF Served
  <2>2. Served(r) => Whole(r)
    BY <1>1 DEF SessionInv
  <2>3. Whole(r) => Whole(r)'
    BY <1>2 DEF Whole, Image
  <2>4. QED
    BY <2>1, <2>2, <2>3
<1>5. (\A image \in saved[r] : Consistent(image))'
  BY <1>1, <1>2 DEF SessionInv
<1>6. (adapter[r] # None => session[r] # None \/ r \in withheld)'
  BY <1>1, <1>2 DEF SessionInv, Accounted, Idle
<1>7. QED
  BY <1>3, <1>4, <1>5, <1>6 DEF SessionInv, Accounted

LEMMA Assembled ==
  ASSUME IInv, NEW s \in Sessions, Idle \/ call.s = s, Idle' \/ call'.s = s, Elsewhere(s),
         TypeOK', SessionInv(s)', SharedInv', CallInv'
  PROVE  IInv'
BY OthersKeep DEF IInv

\* What follows from the type of a call in progress.
LEMMA CallTypes ==
  ASSUME TypeOK, ~Idle
  PROVE  /\ call.s \in Sessions
         /\ call.op \in {"policy", "value", "learn", "restore", "create"}
         /\ call.op = "policy"  => call.pc \in {"begun", "generated", "answered"}
         /\ call.op = "value"   => call.pc \in {"begun", "valued", "answered"}
         /\ call.op = "learn"   => call.pc \in {"begun", "losses", "stepped", "counted", "failed"}
         /\ call.op = "restore" => call.pc \in {"begun", "failed"}
         /\ call.op = "create"  => call.pc \in {"begun", "allocated", "built", "replaced"}
BY DEF TypeOK, Places

LEMMA Unchanged ==
  ASSUME NEW s \in Sessions, adapter'[s] = adapter[s], session'[s] = session[s]
  PROVE  Whole(s)' = Whole(s) /\ Image(s)' = Image(s)
BY DEF Whole, Image

\* The call goes on at another place: its other fields stay.
LEMMA Continues ==
  ASSUME TypeOK, NEW pc, GoTo(pc)
  PROVE  /\ DOMAIN call' = CallFields /\ call'.pc = pc
         /\ call'.op = call.op /\ call'.s = call.s /\ call'.origin = call.origin
         /\ call'.cache = call.cache /\ call'.image = call.image
BY DEF TypeOK, GoTo, CallFields

LEMMA Ended ==
  ASSUME Ends
  PROVE  /\ DOMAIN call' = CallFields /\ Idle' /\ call'.op = "none" /\ call'.pc = "none"
         /\ call'.cache /\ CallInv'
<1>1. /\ DOMAIN call' = CallFields /\ call'.op = "none" /\ call'.pc = "none" /\ call'.cache
  BY DEF Ends, NoCall, CallFields
<1>2. QED
  BY <1>1 DEF Idle, CallInv, ServingInv, AskInv, LearnInv, RestoreInv, CreateInv

LEMMA Started ==
  ASSUME IInv, Idle, NEW s \in Sessions, NEW op \in DOMAIN Places, NEW origin, Start(op, s, origin)
  PROVE  /\ DOMAIN call' = CallFields /\ ~Idle' /\ call'.op = op /\ call'.s = s
         /\ call'.pc = "begun" /\ call'.origin = origin /\ call'.cache
         /\ session[s] # None => call'.image = Image(s)
         /\ call'.pc \in Places[op]
<1>1. shared.cache
  BY DEF IInv, SharedInv, InTraining, Idle
<1>2. QED
  BY <1>1 DEF Start, CallFields, Idle, Places

\* Between two calls the shared model is at rest, a served session is whole.
LEMMA AtIdle ==
  ASSUME IInv, Idle
  PROVE  /\ AtRest(shared) /\ DOMAIN shared = SharedFields
         /\ \A s \in Sessions : Served(s) => /\ session[s] \in SessionStates
                                             /\ Whole(s)
                                             /\ Image(s) \in Images /\ Consistent(Image(s))
<1>1. AtRest(shared) /\ DOMAIN shared = SharedFields
  BY DEF IInv, TypeOK, SharedInv, InTraining, Streaming, Idle, AtRest
<1>2. ASSUME NEW s \in Sessions, Served(s) PROVE session[s] \in SessionStates /\ Whole(s)
  BY <1>2, Exists DEF IInv, SessionInv, Served
<1>3. QED
  BY <1>1, <1>2, WholeImage

-----------------------------------------------------------------------------
(* Policy and value.                                                       *)

LEMMA AskStep ==
  ASSUME IInv, NEW s \in Sessions, NEW op \in {"policy", "value"}, Ask(op, s)
  PROVE  IInv'
<1>1. /\ Idle /\ Served(s) /\ AtRest(shared) /\ DOMAIN shared = SharedFields
      /\ Whole(s) /\ Image(s) \in Images /\ Consistent(Image(s))
  BY AtIdle DEF Ask
<1>2. /\ adapter' = adapter /\ session' = session /\ withheld' = withheld /\ saved' = saved
      /\ shared' = [Activate(shared, s) EXCEPT !.training = FALSE]
  BY DEF Ask
<1>3. /\ DOMAIN call' = CallFields /\ ~Idle' /\ call'.op = op /\ call'.s = s
      /\ call'.pc = "begun" /\ call'.cache /\ call'.image = Image(s) /\ call'.pc \in Places[op]
      /\ op \in DOMAIN Places
  BY <1>1, Started DEF Ask, Served, Places
<1>4. TypeOK'
  BY <1>1, <1>2, <1>3 DEF IInv, TypeOK, Activate, SharedFields
<1>5. SharedInv'
  BY <1>1, <1>2, <1>3 DEF SharedInv, InTraining, Streaming, AtRest, Activate, SharedFields
<1>6. Whole(s)' /\ Served(s)' /\ Image(s)' = Image(s)
  BY <1>1, <1>2, Unchanged DEF Served
<1>7. CallInv'
  BY <1>1, <1>3, <1>6 DEF CallInv, ServingInv, AskInv, LearnInv, RestoreInv, CreateInv
<1>8. SessionInv(s)'
  BY <1>1, <1>2, <1>6 DEF IInv, SessionInv, Served, Accounted
<1>9. QED
  BY <1>1, <1>2, <1>3, <1>4, <1>5, <1>7, <1>8, Assembled DEF Elsewhere

\* A policy or value call that samples, or returns its answer.
LEMMA AskPlaces ==
  ASSUME IInv, ~Idle, call.op \in {"policy", "value"}
  PROVE  /\ call.s \in Sessions /\ session[call.s] \in SessionStates /\ call.s \notin withheld
         /\ Served(call.s) /\ Whole(call.s)
         /\ call.image \in Images /\ Consistent(call.image)
         /\ call.pc # "answered" => Image(call.s) = call.image
         /\ ~InTraining /\ DOMAIN shared = SharedFields
         /\ shared.cache /\ ~shared.training /\ ~shared.disabled /\ shared.grads = {}
         /\ call.cache
BY CallTypes, Exists DEF IInv, TypeOK, CallInv, ServingInv, AskInv, SharedInv, InTraining, Served

Streams(rng) ==
    /\ DOMAIN shared' = SharedFields /\ shared'.rng = rng
    /\ shared'.cache = shared.cache /\ shared'.training = shared.training
    /\ shared'.disabled = shared.disabled /\ shared'.grads = shared.grads

\* An answer commits the session's stream, so the image may change by then.
LEMMA AskServes ==
  ASSUME IInv, ~Idle, NEW s \in Sessions, call.s = s, call.op \in {"policy", "value"},
         adapter' = adapter, saved' = saved, withheld' = withheld,
         NEW rng, Streams(rng),
         session' \in {session, [session EXCEPT ![s] = Committed(@)]},
         \/ Ends /\ rng = Host
         \/ /\ DOMAIN call' = CallFields /\ call'.op = call.op /\ call'.s = s
            /\ call'.image = call.image /\ call'.cache = call.cache
            /\ call'.pc \in Places[call.op]
            /\ call'.pc \in {"generated", "valued"} \/ rng = Host
            /\ call.pc # "answered" /\ (call'.pc # "answered" => session' = session)
  PROVE  IInv'
<1>1. /\ s \in Sessions /\ session[s] \in SessionStates /\ s \notin withheld
      /\ Served(s) /\ Whole(s)
      /\ call.image \in Images /\ Consistent(call.image)
      /\ call.pc # "answered" => Image(s) = call.image
      /\ ~InTraining /\ DOMAIN shared = SharedFields
      /\ shared.cache /\ ~shared.training /\ ~shared.disabled /\ shared.grads = {}
      /\ call.cache
  BY AskPlaces
<1>2. /\ Committed(session[s]) \in SessionStates
      /\ Committed(session[s]).owns = session[s].owns
      /\ Committed(session[s]).made = session[s].made
      /\ Committed(session[s]).head = session[s].head
      /\ Committed(session[s]).moments = session[s].moments
      /\ Committed(session[s]).steps = session[s].steps
  BY <1>1, CommittedType
<1>3. session \in [Sessions -> SessionStates \cup {None}]
  BY DEF IInv, TypeOK
<1>4. /\ session' \in [Sessions -> SessionStates \cup {None}]
      /\ session'[s] \in SessionStates /\ session'[s].owns = session'[s].made
      /\ session'[s].head = session[s].head /\ session'[s].moments = session[s].moments
      /\ session'[s].steps = session[s].steps
      /\ \A r \in Sessions \ {s} : session'[r] = session[r]
  BY <1>1, <1>2, <1>3, StatesDiffer DEF IInv, SessionInv
<1>5. Whole(s)' /\ (session' = session => Image(s)' = Image(s))
  BY <1>1, <1>4 DEF Whole, Image, Consistent
<1>6. Served(s)'
  BY <1>1, <1>4, StatesDiffer DEF Served
<1>7. /\ DOMAIN shared' = SharedFields /\ shared'.cache /\ ~shared'.training
      /\ ~shared'.disabled /\ shared'.grads = {} /\ shared'.rng = rng
  BY <1>1 DEF Streams
<1>8. Elsewhere(s)
  BY <1>4 DEF Elsewhere
<1>s. SessionInv(s)'
  <2>1. \A image \in saved[s] : Consistent(image)
    BY <1>1 DEF IInv, SessionInv
  <2>2. Accounted(s)'
    BY <1>4, StatesDiffer DEF Accounted
  <2>3. QED
    BY <1>4, <1>5, <2>1, <2>2 DEF SessionInv
<1>9. CASE Ends
  <2>1. /\ DOMAIN call' = CallFields /\ Idle' /\ call'.op = "none" /\ call'.pc = "none"
        /\ call'.cache /\ CallInv'
    BY <1>9, Ended
  <2>2. rng = Host
    BY <2>1, <1>1, <1>9 DEF Places, Idle
  <2>3. TypeOK'
    BY <1>4, <1>7, <2>1 DEF IInv, TypeOK
  <2>4. SharedInv'
    BY <1>7, <2>1, <2>2 DEF SharedInv, InTraining, Streaming
  <2>5. QED
    BY <1>1, <1>8, <1>s, <2>1, <2>3, <2>4, Assembled
<1>10. CASE ~Ends
  <2>1. /\ DOMAIN call' = CallFields /\ call'.op = call.op /\ call'.s = s
        /\ call'.image = call.image /\ call'.cache = call.cache
        /\ call'.pc \in Places[call.op]
        /\ call'.pc \in {"generated", "valued"} \/ rng = Host
        /\ call.pc # "answered" /\ (call'.pc # "answered" => session' = session)
    BY <1>10
  <2>2. ~Idle' /\ ~InTraining'
    BY <2>1 DEF Idle, InTraining
  <2>3. TypeOK'
    BY <1>1, <1>4, <1>7, <2>1, <2>2 DEF IInv, TypeOK
  <2>4. SharedInv'
    BY <1>1, <1>7, <2>1, <2>2 DEF SharedInv, Streaming
  <2>5. CallInv'
    BY <1>1, <1>5, <1>6, <2>1 DEF CallInv, ServingInv, AskInv, LearnInv, RestoreInv, CreateInv
  <2>6. QED
    BY <1>1, <1>8, <1>s, <2>1, <2>3, <2>4, <2>5, Assembled
<1>11. QED
  BY <1>9, <1>10

LEMMA AnswerSteps ==
  ASSUME IInv, Generate \/ ScoreRows \/ Forward \/ ReadValue \/ Return \/ AskFails
  PROVE  IInv'
<1>1. /\ ~Idle /\ call.op \in {"policy", "value"} /\ DOMAIN call = CallFields
      /\ DOMAIN shared = SharedFields
  BY DEF Generate, ScoreRows, Forward, ReadValue, Return, AskFails, At, IInv, TypeOK
<1>2. PICK s \in Sessions : call.s = s
  BY <1>1, CallTypes DEF IInv
<1>3. CASE Generate
  <2>1. PICK rows \in Answers : call' = [call EXCEPT !.pc = "generated", !.rows = rows]
    BY <1>3 DEF Generate
  <2>2. Streams(s)
    BY <1>1, <1>2, <1>3 DEF Generate, Streams, SharedFields
  <2>3. /\ DOMAIN call' = CallFields /\ call'.op = call.op /\ call'.s = s
        /\ call'.image = call.image /\ call'.cache = call.cache /\ call'.pc = "generated"
    BY <1>1, <1>2, <2>1 DEF CallFields
  <2>4. call.pc = "begun" /\ "generated" \in Places[call.op]
    <3>1. At("policy", "begun")
      BY <1>3 DEF Generate
    <3>2. QED
      BY <3>1 DEF At, Places
  <2>5. QED
    BY <1>1, <1>2, <1>3, <2>2, <2>3, <2>4, AskServes DEF Generate
<1>4. CASE ScoreRows \/ ReadValue
  <2>1. /\ DOMAIN call' = CallFields /\ call'.op = call.op /\ call'.s = s
        /\ call'.image = call.image /\ call'.cache = call.cache /\ call'.pc = "answered"
    BY <1>1, <1>2, <1>4 DEF ScoreRows, ReadValue, CallFields
  <2>2. Streams(Host)
    BY <1>1, <1>4 DEF ScoreRows, ReadValue, Unwound, Streams, SharedFields
  <2>3. call.pc # "answered" /\ "answered" \in Places[call.op]
    BY <1>4 DEF ScoreRows, ReadValue, At, Places
  <2>4. /\ session' \in {session, [session EXCEPT ![s] = Committed(@)]}
        /\ adapter' = adapter /\ saved' = saved /\ withheld' = withheld
    BY <1>2, <1>4 DEF ScoreRows, ReadValue
  <2>5. QED
    BY <1>1, <1>2, <2>1, <2>2, <2>3, <2>4, AskServes
<1>5. CASE Forward
  <2>1. /\ DOMAIN call' = CallFields /\ call'.op = call.op /\ call'.s = s
        /\ call'.image = call.image /\ call'.cache = call.cache /\ call'.pc = "valued"
    BY <1>2, <1>5, Continues DEF Forward, IInv
  <2>2. PICK rng : Streams(rng)
    BY <1>1, <1>5 DEF Forward, Streams, SharedFields
  <2>3. call.pc = "begun" /\ "valued" \in Places[call.op]
    BY <1>5 DEF Forward, At, Places
  <2>4. QED
    BY <1>1, <1>2, <1>5, <2>1, <2>2, <2>3, AskServes DEF Forward
<1>6. CASE AskFails
  <2>1. Streams(Host)
    BY <1>1, <1>6 DEF AskFails, Unwound, Streams, SharedFields
  <2>2. QED
    BY <1>1, <1>2, <1>6, <2>1, AskServes DEF AskFails
<1>7. CASE Return
  <2>1. shared.rng = Host
    BY <1>1, <1>7 DEF Return, At, IInv, SharedInv, Streaming, InTraining
  <2>2. Streams(Host)
    BY <1>1, <1>7, <2>1 DEF Return, Streams
  <2>3. QED
    BY <1>1, <1>2, <1>7, <2>2, AskServes DEF Return
<1>8. QED
  BY <1>3, <1>4, <1>5, <1>6, <1>7

-----------------------------------------------------------------------------
(* Learn.                                                                  *)

LEMMA LearnStep ==
  ASSUME IInv, NEW s \in Sessions, Learn(s)
  PROVE  IInv'
<1>1. /\ Idle /\ Served(s) /\ AtRest(shared) /\ DOMAIN shared = SharedFields
      /\ Whole(s) /\ Image(s) \in Images /\ Consistent(Image(s))
  BY AtIdle DEF Learn
<1>2. /\ adapter' = adapter /\ session' = session /\ withheld' = withheld /\ saved' = saved
      /\ shared' = Activate(shared, s)
  BY DEF Learn
<1>3. "learn" \in DOMAIN Places
  BY DEF Places
<1>4. /\ DOMAIN call' = CallFields /\ ~Idle' /\ call'.op = "learn" /\ call'.s = s
      /\ call'.pc = "begun" /\ call'.cache /\ call'.image = Image(s)
      /\ call'.pc \in Places["learn"]
  BY <1>1, <1>3, Started DEF Learn, Served
<1>5. TypeOK'
  BY <1>1, <1>2, <1>3, <1>4 DEF IInv, TypeOK, Activate, SharedFields
<1>6. SharedInv'
  BY <1>1, <1>2, <1>4 DEF SharedInv, InTraining, Streaming, AtRest, Activate, SharedFields
<1>7. Whole(s)' /\ Served(s)' /\ Image(s)' = Image(s)
  BY <1>1, <1>2, Unchanged DEF Served
<1>8. CallInv'
  BY <1>1, <1>4, <1>7 DEF CallInv, ServingInv, AskInv, LearnInv, RestoreInv, CreateInv
<1>9. SessionInv(s)'
  BY <1>1, <1>2, <1>7 DEF IInv, SessionInv, Served, Accounted
<1>10. QED
  BY <1>1, <1>2, <1>4, <1>5, <1>6, <1>8, <1>9, Assembled DEF Elsewhere

\* What a session being served or rolled back keeps, whatever is written to it.
Holds(s) == /\ session[s] \in SessionStates /\ session[s].owns = session[s].made
            /\ s \notin withheld
            /\ call.image \in Images /\ Consistent(call.image)
            /\ call.cache /\ DOMAIN call = CallFields /\ DOMAIN shared = SharedFields
LEMMA Held ==
  ASSUME IInv, ~Idle, NEW s \in Sessions, call.s = s, call.op \in {"learn", "restore"}
  PROVE  Holds(s) /\ Served(s)
BY Exists DEF IInv, TypeOK, CallInv, ServingInv, SessionInv, SharedInv, Served, Holds

\* A learn that goes on: what is left to show of each step.
LEMMA LearnGoesOn ==
  ASSUME IInv, NEW s \in Sessions, ~Idle, call.s = s, call.op = "learn",
         saved' = saved, withheld' = withheld, Elsewhere(s),
         adapter' \in [Sessions -> WeightStates \cup {None, Torn}],
         session' \in [Sessions -> SessionStates \cup {None}],
         session'[s] \in SessionStates, session'[s].owns = session'[s].made,
         DOMAIN shared' = SharedFields,
         DOMAIN call' = CallFields, call'.op = call.op, call'.s = call.s,
         call'.cache = call.cache, call'.image = call.image,
         call'.pc \in Places["learn"], SharedInv', LearnInv'
  PROVE  IInv'
<1>1. Holds(s) /\ Served(s)
  BY Held
<1>2. ~Idle'
  BY DEF Idle
<1>3. TypeOK'
  BY <1>2 DEF IInv, TypeOK, Idle
<1>4. Served(s)' /\ session'[s] # None
  BY <1>1, StatesDiffer DEF Served
<1>5. CallInv'
  BY <1>1, <1>4 DEF CallInv, ServingInv, AskInv, RestoreInv, CreateInv, Holds
<1>6. SessionInv(s)'
  BY <1>2, <1>4 DEF IInv, SessionInv, Accounted
<1>7. QED
  BY <1>2, <1>3, <1>5, <1>6, Assembled

\* The places of a learn, and what they promise.
LEMMA LearnPlaces ==
  ASSUME IInv, NEW s \in Sessions, ~Idle, call.s = s, call.op = "learn"
  PROVE  /\ session[s] \in SessionStates /\ session[s].owns = session[s].made
         /\ session \in [Sessions -> SessionStates \cup {None}]
         /\ adapter \in [Sessions -> WeightStates \cup {None, Torn}]
         /\ DOMAIN shared = SharedFields /\ DOMAIN call = CallFields /\ call.cache
         /\ Owned(s) = {AdapterOf(s), HeadOf(s, session[s].made)}
         /\ call.pc \in {"begun", "losses", "counted"} => Whole(s)
         /\ call.pc \notin {"losses", "stepped"} =>
              /\ shared.cache /\ ~shared.training /\ ~shared.disabled
              /\ shared.rng = Host /\ shared.grads = {}
         /\ shared.active = s
         /\ call.pc \in {"losses", "stepped"} => shared.grads \in {{}, Owned(s)}
         /\ call.pc = "stepped" =>
              /\ adapter[s] \in WeightStates /\ adapter[s] = session[s].head
              /\ session[s].head.updates = session[s].moments
              /\ session[s].moments = session[s].steps + 1
<1>1. /\ session[s] \in SessionStates /\ session[s].owns = session[s].made
      /\ DOMAIN shared = SharedFields /\ DOMAIN call = CallFields /\ call.cache
  BY Held DEF Holds
<1>2. call.pc \in {"begun", "losses", "stepped", "counted", "failed"}
  BY CallTypes DEF IInv
<1>3. Owned(s) = {AdapterOf(s), HeadOf(s, session[s].made)}
  BY <1>1 DEF Owned
<1>4. QED
  BY <1>1, <1>2, <1>3 DEF IInv, TypeOK, SharedInv, InTraining, Streaming, CallInv, LearnInv

LEMMA EnterTrainingStep == ASSUME IInv, EnterTraining PROVE IInv'
<1>1. ~Idle /\ call.op = "learn" /\ call.pc = "begun"
  BY DEF EnterTraining, At
<1>2. PICK s \in Sessions : call.s = s
  BY <1>1, CallTypes DEF IInv
<1>3. /\ session[s] \in SessionStates /\ session[s].owns = session[s].made /\ Whole(s)
      /\ session \in [Sessions -> SessionStates \cup {None}]
      /\ adapter \in [Sessions -> WeightStates \cup {None, Torn}]
      /\ DOMAIN shared = SharedFields /\ call.cache /\ shared.grads = {}
      /\ shared.active = s
  BY <1>1, <1>2, LearnPlaces
<1>4. /\ adapter' = adapter /\ session' = session /\ withheld' = withheld /\ saved' = saved
      /\ DOMAIN call' = CallFields /\ call'.pc = "losses" /\ call'.op = call.op
      /\ call'.s = call.s /\ call'.cache = call.cache /\ call'.image = call.image
  BY Continues DEF EnterTraining, IInv
<1>5. /\ DOMAIN shared' = SharedFields /\ shared'.grads = {} /\ shared'.active = shared.active
  BY <1>3 DEF EnterTraining, SharedFields
<1>6. InTraining' /\ Streaming'
  BY <1>1, <1>4 DEF InTraining, Streaming
<1>7. SharedInv'
  BY <1>2, <1>3, <1>4, <1>5, <1>6 DEF SharedInv
<1>8. LearnInv'
  BY <1>2, <1>3, <1>4, Unchanged DEF LearnInv
<1>9. "losses" \in Places["learn"]
  BY DEF Places
<1>10. QED
  BY <1>1, <1>2, <1>3, <1>4, <1>5, <1>7, <1>8, <1>9, LearnGoesOn DEF Elsewhere

\* The reference passes leave everything but the gradients as it was.
LEMMA ReferenceSteps == ASSUME IInv, EnterReference \/ LeaveReference PROVE IInv'
<1>1. InTraining /\ ~Idle /\ call.op = "learn"
  <2>1. CASE EnterReference
    BY <2>1 DEF EnterReference, At, InTraining
  <2>2. CASE LeaveReference
    BY <2>2 DEF LeaveReference, IInv, SharedInv, InTraining, Idle
  <2>3. QED
    BY <2>1, <2>2
<1>2. PICK s \in Sessions : call.s = s
  BY <1>1, CallTypes DEF IInv
<1>3. /\ session[s] \in SessionStates /\ session[s].owns = session[s].made
      /\ session \in [Sessions -> SessionStates \cup {None}]
      /\ adapter \in [Sessions -> WeightStates \cup {None, Torn}]
      /\ DOMAIN shared = SharedFields /\ call.cache /\ shared.grads \in {{}, Owned(s)}
      /\ shared.active = s /\ Owned(s) = {AdapterOf(s), HeadOf(s, session[s].made)}
  BY <1>1, <1>2, LearnPlaces DEF InTraining
<1>4. /\ adapter' = adapter /\ session' = session /\ withheld' = withheld /\ saved' = saved
      /\ call' = call
  BY DEF EnterReference, LeaveReference
<1>5. DOMAIN shared' = SharedFields /\ shared'.active = s /\ shared'.grads \in {{}, Owned(s)}
  <2>1. CASE EnterReference
    BY <1>3, <2>1 DEF EnterReference, SharedFields
  <2>2. CASE LeaveReference
    <3>1. shared'.grads \in {shared.grads, shared.grads \cup Owned(s)}
      BY <1>2, <1>3, <2>2 DEF LeaveReference, SharedFields
    <3>2. QED
      BY <1>3, <2>2, <3>1 DEF LeaveReference, SharedFields
  <2>3. QED
    BY <2>1, <2>2
<1>6. Owned(s)' = Owned(s) /\ InTraining' /\ Streaming'
  BY <1>1, <1>4 DEF Owned, InTraining, Streaming
<1>7. SharedInv'
  BY <1>2, <1>3, <1>4, <1>5, <1>6 DEF SharedInv
<1>8. LearnInv'
  BY <1>2, <1>4, Unchanged DEF LearnInv, IInv, CallInv
<1>9. DOMAIN call = CallFields /\ call.pc \in Places["learn"]
  BY <1>1 DEF IInv, TypeOK
<1>10. QED
  BY <1>1, <1>2, <1>3, <1>4, <1>5, <1>7, <1>8, <1>9, LearnGoesOn DEF Elsewhere

\* The optimizer moves the adapter and the head together, or tears.
LEMMA SteppedType ==
  ASSUME NEW r \in SessionStates, Moves(HeadOf(call.s, r.made))
  PROVE  /\ Stepped(r) \in SessionStates /\ Stepped(r).owns = r.owns
         /\ Stepped(r).made = r.made /\ Stepped(r).steps = r.steps
         /\ Stepped(r).moments = r.moments + 1
         /\ Stepped(r).head = [r.head EXCEPT !.updates = r.head.updates + 1]
<1>1. /\ r.head \in WeightStates /\ r.head.updates + 1 \in Nat /\ r.moments + 1 \in Nat
      /\ [r.head EXCEPT !.updates = r.head.updates + 1] \in WeightStates
  BY DEF SessionStates, WeightStates
<1>2. Stepped(r) = [r EXCEPT !.moments = r.moments + 1,
                             !.head = [r.head EXCEPT !.updates = r.head.updates + 1]]
  BY DEF Stepped, SessionStates
<1>3. QED
  BY <1>1, <1>2 DEF SessionStates

LEMMA StepStep == ASSUME IInv, Step PROVE IInv'
<1>1. ~Idle /\ call.op = "learn" /\ call.pc = "losses" /\ shared.grads # {}
  BY DEF Step, At
<1>2. PICK s \in Sessions : call.s = s
  BY <1>1, CallTypes DEF IInv
<1>3. /\ session[s] \in SessionStates /\ session[s].owns = session[s].made
      /\ session \in [Sessions -> SessionStates \cup {None}]
      /\ adapter \in [Sessions -> WeightStates \cup {None, Torn}]
      /\ DOMAIN shared = SharedFields /\ call.cache /\ shared.active = s
      /\ shared.grads = {AdapterOf(s), HeadOf(s, session[s].made)}
      /\ Owned(s) = {AdapterOf(s), HeadOf(s, session[s].made)} /\ Whole(s)
  BY <1>1, <1>2, LearnPlaces
<1>4. Moves(AdapterOf(s)) /\ Moves(HeadOf(s, session[s].made))
  BY <1>2, <1>3 DEF Moves
<1>5. /\ adapter' = [adapter EXCEPT ![s].updates = @ + 1]
      /\ session' = [session EXCEPT ![s] = Stepped(session[s])]
      /\ withheld' = withheld /\ saved' = saved /\ shared' = shared
  BY <1>2, <1>4 DEF Step
<1>6. /\ DOMAIN call' = CallFields /\ call'.pc = "stepped" /\ call'.op = call.op
      /\ call'.s = call.s /\ call'.cache = call.cache /\ call'.image = call.image
  BY Continues DEF Step, IInv
<1>7. /\ adapter[s] \in WeightStates /\ adapter[s] = session[s].head
      /\ session[s].head.updates = session[s].moments
      /\ session[s].moments = session[s].steps
  BY <1>3 DEF Whole, Consistent, Image
<1>8. PICK q \in SessionStates :
        /\ q = Stepped(session[s])
        /\ q.owns = session[s].owns /\ q.made = session[s].made /\ q.steps = session[s].steps
        /\ q.moments = session[s].moments + 1
        /\ q.head = [session[s].head EXCEPT !.updates = session[s].head.updates + 1]
  BY <1>2, <1>3, <1>4, SteppedType
<1>9. session' = [session EXCEPT ![s] = q]
  BY <1>5, <1>8
<1>10. /\ session' \in [Sessions -> SessionStates \cup {None}]
       /\ session'[s] = q /\ \A r \in Sessions \ {s} : session'[r] = session[r]
  BY <1>3, <1>8, <1>9
<1>11. /\ adapter'[s] = [adapter[s] EXCEPT !.updates = adapter[s].updates + 1]
       /\ adapter'[s] \in WeightStates
       /\ adapter' \in [Sessions -> WeightStates \cup {None, Torn}]
       /\ \A r \in Sessions \ {s} : adapter'[r] = adapter[r]
  BY <1>3, <1>5, <1>7 DEF WeightStates
<1>12. /\ adapter'[s] = session'[s].head
       /\ session'[s].head.updates = session'[s].moments
       /\ session'[s].moments = session'[s].steps + 1
  BY <1>3, <1>7, <1>8, <1>10, <1>11 DEF WeightStates
<1>13. Owned(s)' = Owned(s) /\ InTraining' /\ Streaming'
  BY <1>1, <1>6, <1>8, <1>10 DEF Owned, InTraining, Streaming
<1>14. SharedInv'
  BY <1>2, <1>3, <1>5, <1>6, <1>13 DEF SharedInv
<1>15. LearnInv'
  BY <1>2, <1>6, <1>11, <1>12 DEF LearnInv
<1>16. "stepped" \in Places["learn"]
  BY DEF Places
<1>17. Elsewhere(s)
  BY <1>5, <1>10, <1>11 DEF Elsewhere
<1>18. QED
  BY <1>1, <1>2, <1>3, <1>5, <1>6, <1>8, <1>10, <1>11, <1>14, <1>15, <1>16, <1>17, LearnGoesOn

\* Leaving the training block puts the shared model at rest.
LEMMA LeftRests ==
  ASSUME IInv, ~Idle, NEW s \in Sessions, call.s = s, InTraining
  PROVE  /\ DOMAIN Left(s) = SharedFields /\ Left(s).cache /\ ~Left(s).training
         /\ ~Left(s).disabled /\ Left(s).rng = Host /\ Left(s).grads = {}
         /\ Left(s).active = s
BY LearnPlaces DEF Left, SharedFields, InTraining

\* A learn that has left the training block.
LEMMA LearnLeaves ==
  ASSUME IInv, NEW s \in Sessions, ~Idle, call.s = s, call.op = "learn",
         saved' = saved, withheld' = withheld, Elsewhere(s),
         adapter' \in [Sessions -> WeightStates \cup {None, Torn}],
         session' \in [Sessions -> SessionStates \cup {None}],
         session'[s] \in SessionStates, session'[s].owns = session'[s].made,
         NEW pc \in {"counted", "failed"}, GoTo(pc),
         pc = "counted" => Whole(s)',
         \/ InTraining /\ shared' = Left(s)
         \/ ~InTraining /\ shared' = shared
  PROVE  IInv'
<1>1. /\ DOMAIN call' = CallFields /\ call'.pc = pc /\ call'.op = call.op
      /\ call'.s = call.s /\ call'.cache = call.cache /\ call'.image = call.image
  BY Continues DEF IInv
<1>2. ~InTraining' /\ call.cache
  BY <1>1, LearnPlaces DEF InTraining
<1>3. /\ DOMAIN shared' = SharedFields /\ shared'.cache /\ ~shared'.training
      /\ ~shared'.disabled /\ shared'.rng = Host /\ shared'.grads = {} /\ shared'.active = s
  BY LeftRests, LearnPlaces DEF InTraining
<1>4. SharedInv'
  BY <1>1, <1>2, <1>3 DEF SharedInv
<1>5. LearnInv'
  BY <1>1 DEF LearnInv
<1>6. pc \in Places["learn"]
  BY DEF Places
<1>7. QED
  BY <1>1, <1>3, <1>4, <1>5, <1>6, LearnGoesOn

LEMMA CountedType ==
  ASSUME NEW r \in SessionStates
  PROVE  /\ Counted(r) \in SessionStates /\ Counted(r).owns = r.owns
         /\ Counted(r).made = r.made /\ Counted(r).steps = r.steps + 1
         /\ Counted(r).moments = r.moments /\ Counted(r).head = r.head
<1>1. r.steps + 1 \in Nat /\ r.draws + 1 \in Nat /\ r.draws \in Nat
  BY DEF SessionStates
<1>2. PICK n \in Nat, d \in Nat :
        n = r.steps + 1 /\ Counted(r) = [r EXCEPT !.steps = n, !.draws = d]
  BY <1>1 DEF Counted
<1>3. QED
  BY <1>2 DEF SessionStates

LEMMA CommitStep == ASSUME IInv, Commit PROVE IInv'
<1>1. ~Idle /\ call.op = "learn" /\ call.pc = "stepped" /\ InTraining
  BY DEF Commit, At, InTraining
<1>2. PICK s \in Sessions : call.s = s
  BY <1>1, CallTypes DEF IInv
<1>3. /\ session[s] \in SessionStates /\ session[s].owns = session[s].made
      /\ session \in [Sessions -> SessionStates \cup {None}]
      /\ adapter \in [Sessions -> WeightStates \cup {None, Torn}]
      /\ adapter[s] \in WeightStates /\ adapter[s] = session[s].head
      /\ session[s].head.updates = session[s].moments
      /\ session[s].moments = session[s].steps + 1
  BY <1>1, <1>2, LearnPlaces
<1>4. PICK q \in SessionStates :
        /\ q = Counted(session[s]) /\ q.owns = q.made
        /\ q.steps = session[s].steps + 1 /\ q.moments = session[s].moments
        /\ q.head = session[s].head
  BY <1>3, CountedType
<1>5. /\ adapter' = adapter /\ session' = [session EXCEPT ![s] = q]
      /\ withheld' = withheld /\ saved' = saved /\ shared' = Left(s) /\ GoTo("counted")
  BY <1>2, <1>4 DEF Commit
<1>6. /\ session' \in [Sessions -> SessionStates \cup {None}]
      /\ session'[s] = q /\ \A r \in Sessions \ {s} : session'[r] = session[r]
  BY <1>3, <1>4, <1>5
<1>7. Whole(s)'
  BY <1>3, <1>4, <1>5, <1>6, StatesDiffer DEF Whole, Image, Consistent
<1>8. Elsewhere(s)
  BY <1>5, <1>6 DEF Elsewhere
<1>9. QED
  BY <1>1, <1>2, <1>3, <1>4, <1>5, <1>6, <1>7, <1>8, LearnLeaves

LEMMA LearnFailSteps == ASSUME IInv, StepTears \/ LearnRaises PROVE IInv'
<1>1. ~Idle /\ call.op = "learn"
  BY DEF StepTears, LearnRaises, At
<1>2. PICK s \in Sessions : call.s = s
  BY <1>1, CallTypes DEF IInv
<1>3. /\ session[s] \in SessionStates /\ session[s].owns = session[s].made
      /\ session \in [Sessions -> SessionStates \cup {None}]
      /\ adapter \in [Sessions -> WeightStates \cup {None, Torn}]
  BY <1>1, <1>2, LearnPlaces
<1>4. /\ adapter' \in {adapter, [adapter EXCEPT ![s] = Torn]}
      /\ session' = session /\ withheld' = withheld /\ saved' = saved /\ GoTo("failed")
  BY <1>2 DEF StepTears, LearnRaises
<1>5. /\ adapter' \in [Sessions -> WeightStates \cup {None, Torn}]
      /\ \A r \in Sessions \ {s} : adapter'[r] = adapter[r]
  BY <1>3, <1>4
<1>6. \/ InTraining /\ shared' = Left(s)
      \/ ~InTraining /\ shared' = shared
  BY <1>1, <1>2 DEF StepTears, LearnRaises, At, InTraining
<1>7. Elsewhere(s)
  BY <1>4, <1>5 DEF Elsewhere
<1>8. QED
  BY <1>1, <1>2, <1>3, <1>4, <1>5, <1>6, <1>7, LearnLeaves

\* A step that ends the call of a session and leaves the others alone.
LEMMA CallEnds ==
  ASSUME IInv, NEW s \in Sessions, Idle \/ call.s = s, Ends, Elsewhere(s),
         adapter' \in [Sessions -> WeightStates \cup {None, Torn}],
         session' \in [Sessions -> SessionStates \cup {None}],
         saved' \in [Sessions -> SUBSET Images],
         DOMAIN shared' = SharedFields, AtRest(shared'), SessionInv(s)'
  PROVE  IInv'
<1>1. /\ DOMAIN call' = CallFields /\ Idle' /\ call'.op = "none" /\ call'.pc = "none"
      /\ call'.cache /\ CallInv'
  BY Ended
<1>2. TypeOK'
  BY <1>1 DEF TypeOK
<1>3. SharedInv'
  BY <1>1 DEF SharedInv, InTraining, AtRest
<1>4. QED
  BY <1>1, <1>2, <1>3, Assembled

LEMMA LearnReturnsStep == ASSUME IInv, LearnReturns PROVE IInv'
<1>1. ~Idle /\ call.op = "learn" /\ call.pc = "counted"
  BY DEF LearnReturns, At
<1>2. PICK s \in Sessions : call.s = s
  BY <1>1, CallTypes DEF IInv
<1>3. /\ session[s] \in SessionStates /\ session[s].owns = session[s].made /\ Whole(s)
      /\ DOMAIN shared = SharedFields /\ AtRest(shared)
  BY <1>1, <1>2, LearnPlaces DEF AtRest
<1>4. /\ adapter' = adapter /\ session' = session /\ withheld' = withheld /\ saved' = saved
      /\ shared' = shared /\ Ends
  BY DEF LearnReturns
<1>5. SessionInv(s)'
  BY <1>3, <1>4, Unchanged, StatesDiffer DEF IInv, SessionInv, Accounted
<1>6. QED
  BY <1>2, <1>3, <1>4, <1>5, CallEnds DEF Elsewhere, IInv, TypeOK

-----------------------------------------------------------------------------
(* Restore, and the rollback of learn and restore.                         *)

LEMMA SaveStep == ASSUME IInv, NEW s \in Sessions, Save(s) PROVE IInv'
<1>1. /\ Idle /\ Served(s) /\ AtRest(shared) /\ DOMAIN shared = SharedFields
      /\ Whole(s) /\ Image(s) \in Images /\ Consistent(Image(s))
  BY AtIdle DEF Save
<1>2. /\ adapter' = adapter /\ session' = session /\ withheld' = withheld /\ call' = call
      /\ saved' = [saved EXCEPT ![s] = @ \cup {Image(s)}] /\ shared' = Activate(shared, s)
  BY DEF Save
<1>3. /\ saved' \in [Sessions -> SUBSET Images]
      /\ saved'[s] = saved[s] \cup {Image(s)} /\ \A r \in Sessions \ {s} : saved'[r] = saved[r]
  BY <1>1, <1>2 DEF IInv, TypeOK
<1>4. DOMAIN shared' = SharedFields /\ AtRest(shared')
  BY <1>1, <1>2 DEF Activate, AtRest, SharedFields
<1>5. TypeOK' /\ Idle'
  BY <1>1, <1>2, <1>3, <1>4 DEF IInv, TypeOK, Idle
<1>6. SharedInv'
  BY <1>1, <1>2, <1>4 DEF IInv, SharedInv, InTraining, AtRest, Idle
<1>7. CallInv'
  BY <1>1, <1>2 DEF CallInv, ServingInv, AskInv, LearnInv, RestoreInv, CreateInv, Idle
<1>8. SessionInv(s)'
  BY <1>1, <1>2, <1>3, Unchanged DEF IInv, SessionInv, Accounted
<1>9. QED
  BY <1>1, <1>2, <1>3, <1>5, <1>6, <1>7, <1>8, Assembled DEF Elsewhere

LEMMA RestoreStep == ASSUME IInv, NEW s \in Sessions, Restore(s) PROVE IInv'
<1>1. /\ Idle /\ Served(s) /\ AtRest(shared) /\ DOMAIN shared = SharedFields
      /\ Whole(s) /\ Image(s) \in Images /\ Consistent(Image(s))
  BY AtIdle DEF Restore
<1>2. PICK image \in saved[s] : Start("restore", s, image)
  BY DEF Restore
<1>3. image \in Images /\ Consistent(image)
  BY <1>2 DEF IInv, TypeOK, SessionInv
<1>4. /\ adapter' = adapter /\ session' = session /\ withheld' = withheld /\ saved' = saved
      /\ shared' = Activate(shared, s)
  BY DEF Restore
<1>5. "restore" \in DOMAIN Places
  BY DEF Places
<1>6. /\ DOMAIN call' = CallFields /\ ~Idle' /\ call'.op = "restore" /\ call'.s = s
      /\ call'.pc = "begun" /\ call'.cache /\ call'.image = Image(s)
      /\ call'.origin = image /\ call'.pc \in Places["restore"]
  BY <1>1, <1>2, <1>5, Started DEF Served
<1>7. TypeOK'
  BY <1>1, <1>4, <1>5, <1>6 DEF IInv, TypeOK, Activate, SharedFields
<1>8. SharedInv'
  BY <1>1, <1>4, <1>6 DEF SharedInv, InTraining, Streaming, AtRest, Activate, SharedFields
<1>9. Whole(s)' /\ Served(s)' /\ Image(s)' = Image(s)
  BY <1>1, <1>4, Unchanged DEF Served
<1>10. CallInv'
  BY <1>1, <1>3, <1>6, <1>9 DEF CallInv, ServingInv, AskInv, LearnInv, RestoreInv, CreateInv
<1>11. SessionInv(s)'
  BY <1>1, <1>4, <1>9 DEF IInv, SessionInv, Served, Accounted
<1>12. QED
  BY <1>1, <1>4, <1>6, <1>7, <1>10, <1>8, <1>11, Assembled DEF Elsewhere

\* What an import leaves, complete or not.
LEMMA ImportLeaves ==
  ASSUME IInv, NEW s \in Sessions, ~Idle, call.s = s, Holds(s), AtRest(shared),
         NEW image \in Images, NEW k \in 0..4, Import(image, k)
  PROVE  /\ adapter' \in [Sessions -> WeightStates \cup {None, Torn}]
         /\ session' \in [Sessions -> SessionStates \cup {None}]
         /\ session'[s] \in SessionStates /\ session'[s].owns = session'[s].made
         /\ \A r \in Sessions \ {s} : adapter'[r] = adapter[r] /\ session'[r] = session[r]
         /\ DOMAIN shared' = SharedFields /\ AtRest(shared')
         /\ k = 4 => Image(s)' = image
<1>1. /\ session[s] \in SessionStates /\ session[s].owns = session[s].made
      /\ DOMAIN shared = SharedFields
      /\ session \in [Sessions -> SessionStates \cup {None}]
      /\ adapter \in [Sessions -> WeightStates \cup {None, Torn}]
  BY DEF Holds, IInv, TypeOK
<1>2. image.adapter \in WeightStates
  BY DEF Images
<1>3. PICK q \in SessionStates :
        /\ q = ImportedParts(session[s], image, k)
        /\ q.owns = session[s].owns /\ q.made = session[s].made
        /\ k = 4 => /\ q.head = image.head /\ q.moments = image.moments
                    /\ q.steps = image.steps /\ q.draws = image.draws
  <2>1. /\ ImportedParts(session[s], image, k) \in SessionStates
        /\ ImportedParts(session[s], image, k).owns = session[s].owns
        /\ ImportedParts(session[s], image, k).made = session[s].made
    BY <1>1, ImportType
  <2>2. /\ ImportedParts(session[s], image, 4).head = image.head
        /\ ImportedParts(session[s], image, 4).moments = image.moments
        /\ ImportedParts(session[s], image, 4).steps = image.steps
        /\ ImportedParts(session[s], image, 4).draws = image.draws
    BY <1>1, ImportAll
  <2>3. QED
    BY <2>1, <2>2
<1>4. session' = [session EXCEPT ![s] = q] /\ shared' = Activate(shared, s)
  BY <1>3 DEF Import
<1>5. /\ adapter' \in [Sessions -> WeightStates \cup {None, Torn}]
      /\ \A r \in Sessions \ {s} : adapter'[r] = adapter[r]
      /\ k = 4 => adapter'[s] = image.adapter
  BY <1>1, <1>2 DEF Import
<1>6. /\ session' \in [Sessions -> SessionStates \cup {None}]
      /\ session'[s] = q /\ \A r \in Sessions \ {s} : session'[r] = session[r]
  BY <1>1, <1>3, <1>4
<1>7. DOMAIN shared' = SharedFields /\ AtRest(shared')
  BY <1>1, <1>4 DEF Activate, AtRest, SharedFields
<1>8. k = 4 => Image(s)' = image
  BY <1>3, <1>5, <1>6 DEF Image, Images
<1>9. QED
  BY <1>1, <1>3, <1>5, <1>6, <1>7, <1>8

\* An import ends its call with the session whole, or fails at some place.
LEMMA ImportSteps ==
  ASSUME IInv, Imported \/ ImportStops \/ Rollback \/ RollbackStops PROVE IInv'
<1>1. /\ ~Idle /\ call.op \in {"learn", "restore"}
      /\ call.op = "learn" => call.pc = "failed"
      /\ call.op = "restore" => call.pc \in {"begun", "failed"}
  BY CallTypes DEF Imported, ImportStops, Rollback, RollbackStops, At, IInv
<1>2. PICK s \in Sessions : call.s = s
  BY <1>1, CallTypes DEF IInv
<1>3. /\ Holds(s) /\ Served(s) /\ AtRest(shared)
      /\ session[s] # None /\ saved \in [Sessions -> SUBSET Images]
  BY <1>1, <1>2, Held DEF IInv, TypeOK, SharedInv, Streaming, InTraining, AtRest, Served
<1>4. saved' = saved /\ \A image \in saved[s] : Consistent(image)
  BY DEF Imported, ImportStops, Rollback, RollbackStops, IInv, SessionInv
<1>5. ASSUME NEW image \in Images, Consistent(image), Import(image, 4), Ends, withheld' = withheld
      PROVE  IInv'
  <2>1. /\ adapter' \in [Sessions -> WeightStates \cup {None, Torn}]
        /\ session' \in [Sessions -> SessionStates \cup {None}]
        /\ session'[s] \in SessionStates /\ session'[s].owns = session'[s].made
        /\ \A r \in Sessions \ {s} : adapter'[r] = adapter[r] /\ session'[r] = session[r]
        /\ DOMAIN shared' = SharedFields /\ AtRest(shared') /\ Image(s)' = image
    BY <1>1, <1>2, <1>3, <1>5, ImportLeaves
  <2>2. Whole(s)' /\ session'[s] # None
    BY <1>5, <2>1, StatesDiffer DEF Whole, Image, Images
  <2>3. SessionInv(s)'
    BY <1>4, <2>1, <2>2 DEF SessionInv, Accounted
  <2>4. QED
    BY <1>2, <1>3, <1>4, <1>5, <2>1, <2>3, CallEnds DEF Elsewhere
<1>6. CASE Imported
  <2>1. call.origin \in Images /\ Consistent(call.origin)
    BY <1>6 DEF Imported, At, IInv, CallInv, RestoreInv
  <2>2. QED
    BY <1>5, <1>6, <2>1 DEF Imported
<1>7. CASE Rollback
  BY <1>3, <1>5, <1>7 DEF Rollback, Holds
<1>8. CASE RollbackStops
  <2>1. PICK k \in 0..3 : Import(call.image, k)
    BY <1>8 DEF RollbackStops
  <2>2. k \in 0..4 /\ call.image \in Images
    BY <1>3 DEF Holds
  <2>3. Ends /\ withheld' = withheld \cup {s}
    BY <1>2, <1>8 DEF RollbackStops, EndsWithheld
  <2>4. /\ adapter' \in [Sessions -> WeightStates \cup {None, Torn}]
        /\ session' \in [Sessions -> SessionStates \cup {None}]
        /\ session'[s] \in SessionStates /\ session'[s].owns = session'[s].made
        /\ \A r \in Sessions \ {s} : adapter'[r] = adapter[r] /\ session'[r] = session[r]
        /\ DOMAIN shared' = SharedFields /\ AtRest(shared')
    BY <1>1, <1>2, <1>3, <2>1, <2>2, ImportLeaves
  <2>5. SessionInv(s)'
    BY <1>4, <2>3, <2>4 DEF SessionInv, Accounted, Served
  <2>6. QED
    BY <1>2, <1>3, <1>4, <2>3, <2>4, <2>5, CallEnds DEF Elsewhere
<1>9. CASE ImportStops
  <2>1. call.op = "restore" /\ call.origin \in Images
    BY <1>9 DEF ImportStops, At, IInv, CallInv, RestoreInv
  <2>2. PICK k \in 0..3 : Import(call.origin, k)
    BY <1>9 DEF ImportStops
  <2>3. k \in 0..4
    OBVIOUS
  <2>4. /\ adapter' \in [Sessions -> WeightStates \cup {None, Torn}]
        /\ session' \in [Sessions -> SessionStates \cup {None}]
        /\ session'[s] \in SessionStates /\ session'[s].owns = session'[s].made
        /\ \A r \in Sessions \ {s} : adapter'[r] = adapter[r] /\ session'[r] = session[r]
        /\ DOMAIN shared' = SharedFields /\ AtRest(shared')
    BY <1>1, <1>2, <1>3, <2>1, <2>2, <2>3, ImportLeaves
  <2>5. /\ DOMAIN call' = CallFields /\ call'.pc = "failed" /\ call'.op = call.op
        /\ call'.s = s /\ call'.cache = call.cache /\ call'.image = call.image
    BY <1>2, <1>9, Continues DEF ImportStops, IInv
  <2>6. withheld' = withheld
    BY <1>9 DEF ImportStops
  <2>7. ~Idle' /\ call'.pc \in Places[call'.op] /\ call'.op \in DOMAIN Places
    BY <2>1, <2>5 DEF Idle, Places
  <2>8. TypeOK'
    BY <1>2, <1>3, <1>4, <2>4, <2>5, <2>7 DEF TypeOK
  <2>9. SharedInv'
    BY <1>3, <2>1, <2>4, <2>5 DEF SharedInv, InTraining, AtRest, Holds
  <2>10. Served(s)' /\ session'[s] # None
    BY <1>3, <2>4, <2>6, StatesDiffer DEF Served
  <2>11. CallInv'
    BY <1>3, <2>1, <2>5, <2>10
       DEF CallInv, ServingInv, AskInv, LearnInv, RestoreInv, CreateInv, Holds
  <2>12. SessionInv(s)'
    BY <1>4, <2>4, <2>5, <2>7, <2>10 DEF SessionInv, Accounted
  <2>13. QED
    BY <1>2, <1>4, <2>4, <2>5, <2>6, <2>8, <2>9, <2>11, <2>12, Assembled DEF Elsewhere
<1>10. QED
  BY <1>6, <1>7, <1>8, <1>9

-----------------------------------------------------------------------------
(* Create and delete.                                                      *)

LEMMA CreateStep ==
  ASSUME IInv, NEW s \in Sessions, NEW origin, Create(s, origin)
  PROVE  IInv'
<1>1. /\ Idle /\ AtRest(shared) /\ DOMAIN shared = SharedFields
      /\ session[s] = None /\ s \notin withheld
  BY AtIdle DEF Create
<1>2. /\ adapter' = adapter /\ session' = session /\ withheld' = withheld /\ saved' = saved
      /\ shared' = [shared EXCEPT !.rng = s] /\ Start("create", s, origin)
  BY DEF Create
<1>3. "create" \in DOMAIN Places
  BY DEF Places
<1>4. /\ DOMAIN call' = CallFields /\ ~Idle' /\ call'.op = "create" /\ call'.s = s
      /\ call'.pc = "begun" /\ call'.cache /\ call'.pc \in Places["create"]
  BY <1>1, <1>2, <1>3, Started
<1>5. TypeOK'
  BY <1>1, <1>2, <1>3, <1>4 DEF IInv, TypeOK, SharedFields
<1>6. SharedInv'
  BY <1>1, <1>2, <1>4 DEF SharedInv, InTraining, Streaming, AtRest, SharedFields
<1>7. CallInv'
  BY <1>1, <1>2, <1>4 DEF CallInv, ServingInv, AskInv, LearnInv, RestoreInv, CreateInv
<1>8. SessionInv(s)'
  BY <1>1, <1>2, <1>4 DEF IInv, SessionInv, Served, Accounted, Idle
<1>9. QED
  BY <1>1, <1>2, <1>4, <1>5, <1>6, <1>7, <1>8, Assembled DEF Elsewhere

\* The places of a create, and what they promise.
LEMMA CreatePlaces ==
  ASSUME IInv, NEW s \in Sessions, ~Idle, call.s = s, call.op = "create"
  PROVE  /\ session \in [Sessions -> SessionStates \cup {None}]
         /\ adapter \in [Sessions -> WeightStates \cup {None, Torn}]
         /\ saved \in [Sessions -> SUBSET Images]
         /\ DOMAIN shared = SharedFields /\ DOMAIN call = CallFields /\ call.cache
         /\ s \notin withheld
         /\ shared.cache /\ ~shared.training /\ ~shared.disabled /\ shared.grads = {}
         /\ call.pc \in {"built", "replaced"} =>
              /\ session[s] \in SessionStates /\ session[s].owns = session[s].made
              /\ Whole(s) /\ shared.rng = Host
         /\ call.pc \in {"begun", "allocated"} => session[s] = None
         /\ call.pc # "begun" => adapter[s] = Weights("fresh", 0)
         /\ \A image \in saved[s] : Consistent(image)
BY Exists DEF IInv, TypeOK, SharedInv, InTraining, Streaming, CallInv, CreateInv, SessionInv

\* A create that goes on with its session, or without one yet.
LEMMA CreateGoesOn ==
  ASSUME IInv, NEW s \in Sessions, ~Idle, call.s = s, call.op = "create",
         saved' = saved, withheld' = withheld, Elsewhere(s),
         adapter' \in [Sessions -> WeightStates \cup {None, Torn}],
         session' \in [Sessions -> SessionStates \cup {None}],
         NEW pc, GoTo(pc), adapter'[s] = Weights("fresh", 0),
         \/ pc = "allocated" /\ session'[s] = None
         \/ /\ pc \in {"built", "replaced"} /\ session'[s] \in SessionStates
            /\ session'[s].owns = session'[s].made /\ Whole(s)' /\ shared'.rng = Host,
         DOMAIN shared' = SharedFields, shared'.cache, ~shared'.training,
         ~shared'.disabled, shared'.grads = {}
  PROVE  IInv'
<1>1. /\ DOMAIN call' = CallFields /\ call'.pc = pc /\ call'.op = "create"
      /\ call'.s = s /\ call'.cache = call.cache
  BY Continues DEF IInv
<1>2. pc \in {"allocated", "built", "replaced"}
  OBVIOUS
<1>3. ~Idle' /\ call'.op \in DOMAIN Places /\ call'.pc \in Places[call'.op]
  BY <1>1, <1>2 DEF Idle, Places
<1>4. /\ saved \in [Sessions -> SUBSET Images] /\ call.cache /\ s \notin withheld
      /\ \A image \in saved[s] : Consistent(image)
  BY CreatePlaces
<1>5. TypeOK'
  BY <1>1, <1>3, <1>4 DEF TypeOK
<1>6. SharedInv'
  BY <1>1, <1>2, <1>4 DEF SharedInv, InTraining, Streaming
<1>7. CallInv'
  BY <1>1, <1>2, <1>4, StatesDiffer
     DEF CallInv, ServingInv, AskInv, LearnInv, RestoreInv, CreateInv
<1>8. SessionInv(s)'
  BY <1>1, <1>3, <1>4, StatesDiffer DEF SessionInv, Accounted, Served
<1>9. QED
  BY <1>1, <1>5, <1>6, <1>7, <1>8, Assembled

LEMMA CreateBuildSteps == ASSUME IInv, Allocate \/ Build \/ Replace PROVE IInv'
<1>1. ~Idle /\ call.op = "create"
  BY DEF Allocate, Build, Replace, At
<1>2. PICK s \in Sessions : call.s = s
  BY <1>1, CallTypes DEF IInv
<1>3. /\ session \in [Sessions -> SessionStates \cup {None}]
      /\ adapter \in [Sessions -> WeightStates \cup {None, Torn}]
      /\ DOMAIN shared = SharedFields
      /\ shared.cache /\ ~shared.training /\ ~shared.disabled /\ shared.grads = {}
  BY <1>1, <1>2, CreatePlaces
<1>4. CASE Allocate
  <2>1. session[s] = None /\ session' = session /\ withheld' = withheld /\ saved' = saved
    BY <1>1, <1>2, <1>4, CreatePlaces DEF Allocate, At
  <2>2. adapter' = [adapter EXCEPT ![s] = Weights("fresh", 0)] /\ shared' = Activate(shared, s)
    BY <1>2, <1>4 DEF Allocate
  <2>3. /\ adapter' \in [Sessions -> WeightStates \cup {None, Torn}]
        /\ adapter'[s] = Weights("fresh", 0)
        /\ \A r \in Sessions \ {s} : adapter'[r] = adapter[r]
    BY <1>3, <2>2, FreshType
  <2>4. /\ DOMAIN shared' = SharedFields /\ shared'.cache /\ ~shared'.training
        /\ ~shared'.disabled /\ shared'.grads = {}
    BY <1>3, <2>2 DEF Activate, SharedFields
  <2>5. GoTo("allocated") /\ Elsewhere(s)
    BY <1>4, <2>1, <2>3 DEF Allocate, Elsewhere
  <2>6. QED
    BY <1>1, <1>2, <1>3, <2>1, <2>3, <2>4, <2>5, CreateGoesOn
<1>5. CASE Build
  <2>1. /\ adapter[s] = Weights("fresh", 0) /\ adapter' = adapter
        /\ withheld' = withheld /\ saved' = saved
    BY <1>1, <1>2, <1>5, CreatePlaces DEF Build, At
  <2>2. session' = [session EXCEPT ![s] = Fresh] /\ shared' = Unwound
    BY <1>2, <1>5 DEF Build
  <2>3. /\ session' \in [Sessions -> SessionStates \cup {None}] /\ session'[s] = Fresh
        /\ \A r \in Sessions \ {s} : session'[r] = session[r]
    BY <1>3, <2>2, FreshType
  <2>4. /\ DOMAIN shared' = SharedFields /\ shared'.cache /\ ~shared'.training
        /\ ~shared'.disabled /\ shared'.grads = {} /\ shared'.rng = Host
    BY <1>3, <2>2 DEF Unwound, SharedFields
  <2>5. Fresh.owns = Fresh.made /\ Whole(s)'
    BY <2>1, <2>3, FreshType, StatesDiffer DEF Whole, Consistent, Image, Fresh, Weights
  <2>6. GoTo("built") /\ Elsewhere(s)
    BY <1>5, <2>1, <2>3 DEF Build, Elsewhere
  <2>7. QED
    BY <1>1, <1>2, <1>3, <2>1, <2>3, <2>4, <2>5, <2>6, FreshType, CreateGoesOn
<1>6. CASE Replace
  <2>1. /\ adapter[s] = Weights("fresh", 0) /\ session[s] \in SessionStates /\ Whole(s)
        /\ shared.rng = Host
    BY <1>1, <1>2, <1>6, CreatePlaces DEF Replace, At
  <2>2. /\ session' = [session EXCEPT ![s] = Replaced(session[s])]
        /\ adapter' = adapter /\ withheld' = withheld /\ saved' = saved /\ shared' = shared
    BY <1>2, <1>6 DEF Replace
  <2>3. PICK q \in SessionStates :
          /\ q = Replaced(session[s]) /\ q.owns = q.made /\ q.head = Weights("fresh", 0)
          /\ q.moments = 0 /\ q.steps = session[s].steps
    BY <2>1, ReplacedType
  <2>4. /\ session' \in [Sessions -> SessionStates \cup {None}] /\ session'[s] = q
        /\ \A r \in Sessions \ {s} : session'[r] = session[r]
    BY <1>3, <2>2, <2>3
  <2>5. session[s].steps = 0
    BY <2>1 DEF Whole, Consistent, Image, Weights
  <2>6. Whole(s)'
    BY <2>1, <2>2, <2>3, <2>4, <2>5, FreshType, StatesDiffer
       DEF Whole, Consistent, Image, Weights
  <2>7. GoTo("replaced") /\ Elsewhere(s)
    BY <1>6, <2>2, <2>4 DEF Replace, Elsewhere
  <2>8. QED
    BY <1>1, <1>2, <1>3, <2>1, <2>2, <2>3, <2>4, <2>6, <2>7, CreateGoesOn
<1>7. QED
  BY <1>4, <1>5, <1>6

\* A create that fails, or a delete, with and without the adapter.
LEMMA SessionGone ==
  ASSUME IInv, NEW s \in Sessions, Idle \/ (call.s = s /\ call.op = "create"), Ends,
         NEW gone \in BOOLEAN, AdapterDeleted(s, gone),
         session' = [session EXCEPT ![s] = None], saved' = saved,
         \A r \in Sessions \ {s} : r \in withheld' <=> r \in withheld,
         ~gone => s \in withheld'
  PROVE  IInv'
<1>1. /\ session \in [Sessions -> SessionStates \cup {None}]
      /\ adapter \in [Sessions -> WeightStates \cup {None, Torn}]
      /\ saved \in [Sessions -> SUBSET Images] /\ DOMAIN shared = SharedFields
      /\ \A image \in saved[s] : Consistent(image)
      /\ shared.cache /\ ~shared.training /\ ~shared.disabled /\ shared.grads = {}
  BY DEF IInv, TypeOK, SessionInv, SharedInv, InTraining, Idle
<1>2. /\ session' \in [Sessions -> SessionStates \cup {None}] /\ session'[s] = None
      /\ \A r \in Sessions \ {s} : session'[r] = session[r]
  BY <1>1
<1>3. /\ adapter' \in [Sessions -> WeightStates \cup {None, Torn}]
      /\ gone => adapter'[s] = None
      /\ \A r \in Sessions \ {s} : adapter'[r] = adapter[r]
  BY <1>1 DEF AdapterDeleted
<1>4. /\ DOMAIN shared' = SharedFields /\ AtRest(shared')
  BY <1>1 DEF AdapterDeleted, Unwound, AtRest, SharedFields
<1>5. SessionInv(s)'
  BY <1>1, <1>2, <1>3 DEF SessionInv, Served, Accounted
<1>6. Elsewhere(s)
  BY <1>2, <1>3 DEF Elsewhere
<1>7. QED
  BY <1>1, <1>2, <1>3, <1>4, <1>5, <1>6, CallEnds

LEMMA CreateFailSteps ==
  ASSUME IInv, BuildFails \/ ReplaceFails \/ InitializeFails PROVE IInv'
<1>1. ~Idle /\ call.op = "create"
  BY DEF BuildFails, ReplaceFails, InitializeFails, Built, At
<1>2. PICK s \in Sessions : call.s = s
  BY <1>1, CallTypes DEF IInv
<1>3. session \in [Sessions -> SessionStates \cup {None}]
  BY DEF IInv, TypeOK
<1>4. saved' = saved /\ session' = [session EXCEPT ![s] = None]
  <2>1. CASE BuildFails
    <3>1. session' = session /\ session[s] = None /\ saved' = saved
      BY <1>1, <1>2, <2>1, CreatePlaces DEF BuildFails, At
    <3>2. QED
      BY <1>3, <3>1
  <2>2. CASE ReplaceFails \/ InitializeFails
    BY <1>2, <2>2 DEF ReplaceFails, InitializeFails
  <2>3. QED
    BY <2>1, <2>2
<1>5. PICK gone \in BOOLEAN :
        /\ AdapterDeleted(s, gone) /\ Ends /\ (~gone => s \in withheld')
        /\ \A r \in Sessions \ {s} : r \in withheld' <=> r \in withheld
  <2>1. CASE BuildFails \/ ReplaceFails
    BY <1>2, <2>1 DEF BuildFails, ReplaceFails, EndsWithheld
  <2>2. CASE InitializeFails
    BY <1>2, <2>2 DEF InitializeFails, Cleanup
  <2>3. QED
    BY <2>1, <2>2
<1>6. QED
  BY <1>1, <1>2, <1>4, <1>5, SessionGone

LEMMA AllocateFailsStep == ASSUME IInv, AllocateFails PROVE IInv'
<1>1. ~Idle /\ call.op = "create" /\ call.pc = "begun"
  BY DEF AllocateFails, At
<1>2. PICK s \in Sessions : call.s = s
  BY <1>1, CallTypes DEF IInv
<1>3. /\ session \in [Sessions -> SessionStates \cup {None}] /\ session[s] = None
      /\ adapter \in [Sessions -> WeightStates \cup {None, Torn}]
      /\ saved \in [Sessions -> SUBSET Images] /\ DOMAIN shared = SharedFields
      /\ shared.cache /\ ~shared.training /\ ~shared.disabled /\ shared.grads = {}
      /\ \A image \in saved[s] : Consistent(image)
  BY <1>1, <1>2, CreatePlaces
<1>4. PICK rest \in {None, Torn} : adapter' = [adapter EXCEPT ![s] = rest]
  BY <1>2 DEF AllocateFails
<1>5. /\ session' = session /\ saved' = saved /\ shared' = Unwound
      /\ Ends /\ withheld' = withheld \cup {s}
  BY <1>2 DEF AllocateFails, EndsWithheld
<1>6. /\ adapter' \in [Sessions -> WeightStates \cup {None, Torn}]
      /\ \A r \in Sessions \ {s} : adapter'[r] = adapter[r]
  BY <1>3, <1>4
<1>7. DOMAIN shared' = SharedFields /\ AtRest(shared')
  BY <1>3, <1>5 DEF Unwound, AtRest, SharedFields
<1>8. SessionInv(s)'
  BY <1>3, <1>5 DEF SessionInv, Served, Accounted
<1>9. QED
  BY <1>2, <1>3, <1>5, <1>6, <1>7, <1>8, CallEnds DEF Elsewhere

LEMMA CreateEndSteps == ASSUME IInv, CreateReturns \/ Initialize PROVE IInv'
<1>1. ~Idle /\ call.op = "create" /\ call.pc \in {"built", "replaced"}
  BY DEF CreateReturns, Initialize, Built, At
<1>2. PICK s \in Sessions : call.s = s
  BY <1>1, CallTypes DEF IInv
<1>3. /\ session \in [Sessions -> SessionStates \cup {None}]
      /\ adapter \in [Sessions -> WeightStates \cup {None, Torn}]
      /\ saved \in [Sessions -> SUBSET Images] /\ DOMAIN shared = SharedFields
      /\ session[s] \in SessionStates /\ session[s].owns = session[s].made /\ Whole(s)
      /\ AtRest(shared) /\ \A image \in saved[s] : Consistent(image)
  BY <1>1, <1>2, CreatePlaces DEF AtRest
<1>4. withheld' = withheld /\ saved' = saved /\ Ends
  BY DEF CreateReturns, Initialize
<1>5. CASE CreateReturns
  <2>1. adapter' = adapter /\ session' = session /\ shared' = shared
    BY <1>5 DEF CreateReturns
  <2>2. SessionInv(s)'
    BY <1>3, <1>4, <2>1, Unchanged, StatesDiffer DEF SessionInv, Accounted
  <2>3. QED
    BY <1>2, <1>3, <1>4, <2>1, <2>2, CallEnds DEF Elsewhere
<1>6. CASE Initialize
  <2>1. PICK w \in WeightStates : w = Weights("published", 0) /\ w.updates = 0
    <3>1. Weights("published", 0) \in WeightStates /\ Weights("published", 0).updates = 0
      BY DEF WeightStates, Weights, Origins
    <3>2. QED
      BY <3>1
  <2>2. /\ session[s].steps = 0 /\ session[s].moments = 0
        /\ adapter' = [adapter EXCEPT ![s] = w] /\ shared' = Activate(shared, s)
        /\ session' = [session EXCEPT ![s] = [session[s] EXCEPT !.head = w]]
    BY <1>2, <1>6, <2>1 DEF Initialize
  <2>3. PICK q \in SessionStates :
          /\ q = [session[s] EXCEPT !.head = w] /\ q.owns = q.made /\ q.head = w
          /\ q.moments = 0 /\ q.steps = 0
    BY <1>3, <2>1, <2>2 DEF SessionStates
  <2>4. /\ session' \in [Sessions -> SessionStates \cup {None}] /\ session'[s] = q
        /\ \A r \in Sessions \ {s} : session'[r] = session[r]
    BY <1>3, <2>2, <2>3
  <2>5. /\ adapter' \in [Sessions -> WeightStates \cup {None, Torn}] /\ adapter'[s] = w
        /\ \A r \in Sessions \ {s} : adapter'[r] = adapter[r]
    BY <1>3, <2>1, <2>2
  <2>6. DOMAIN shared' = SharedFields /\ AtRest(shared')
    BY <1>3, <2>2 DEF Activate, AtRest, SharedFields
  <2>7. Whole(s)'
    BY <2>1, <2>3, <2>4, <2>5, StatesDiffer DEF Whole, Consistent, Image
  <2>8. SessionInv(s)'
    BY <1>3, <1>4, <2>3, <2>4, <2>7, StatesDiffer DEF SessionInv, Accounted
  <2>9. QED
    BY <1>2, <1>3, <1>4, <2>4, <2>5, <2>6, <2>8, CallEnds DEF Elsewhere
<1>7. QED
  BY <1>5, <1>6

LEMMA DeleteStep == ASSUME IInv, NEW s \in Sessions, Delete(s) PROVE IInv'
<1>1. /\ Idle /\ session' = [session EXCEPT ![s] = None]
      /\ saved' = saved /\ call' = call
  BY DEF Delete
<1>2. PICK gone \in BOOLEAN :
        /\ AdapterDeleted(s, gone)
        /\ withheld' = IF gone THEN withheld \ {s} ELSE withheld \cup {s}
  BY DEF Delete
<1>3. AtRest(shared) /\ DOMAIN shared = SharedFields
  BY <1>1, AtIdle
<1>4. /\ session \in [Sessions -> SessionStates \cup {None}]
      /\ adapter \in [Sessions -> WeightStates \cup {None, Torn}]
      /\ \A image \in saved[s] : Consistent(image)
  BY DEF IInv, TypeOK, SessionInv
<1>5. /\ session' \in [Sessions -> SessionStates \cup {None}] /\ session'[s] = None
      /\ \A r \in Sessions \ {s} : session'[r] = session[r]
  BY <1>1, <1>4
<1>6. /\ adapter' \in [Sessions -> WeightStates \cup {None, Torn}]
      /\ gone => adapter'[s] = None
      /\ \A r \in Sessions \ {s} : adapter'[r] = adapter[r]
  BY <1>2, <1>4 DEF AdapterDeleted
<1>7. /\ DOMAIN shared' = SharedFields /\ AtRest(shared')
  BY <1>2, <1>3 DEF AdapterDeleted, Unwound, AtRest, SharedFields
<1>8. TypeOK' /\ Idle'
  BY <1>1, <1>5, <1>6, <1>7 DEF IInv, TypeOK, Idle
<1>9. SharedInv'
  BY <1>1, <1>7 DEF IInv, SharedInv, InTraining, AtRest, Idle
<1>10. CallInv'
  BY <1>1 DEF CallInv, ServingInv, AskInv, LearnInv, RestoreInv, CreateInv, Idle
<1>11. SessionInv(s)'
  BY <1>1, <1>2, <1>4, <1>5, <1>6 DEF SessionInv, Served, Accounted
<1>12. Elsewhere(s)
  BY <1>1, <1>2, <1>5, <1>6 DEF Elsewhere
<1>13. QED
  BY <1>1, <1>8, <1>9, <1>10, <1>11, <1>12, Assembled

-----------------------------------------------------------------------------
(* The theorems.                                                           *)

LEMMA InitInv == Init => IInv
<1> SUFFICES ASSUME Init PROVE IInv
  OBVIOUS
<1>1. /\ adapter = [s \in Sessions |-> None] /\ session = [s \in Sessions |-> None]
      /\ saved = [s \in Sessions |-> {}] /\ withheld = {}
      /\ DOMAIN shared = SharedFields /\ AtRest(shared)
  BY DEF Init, AtRest, SharedFields
<1>2. DOMAIN call = CallFields /\ Idle /\ call.op = "none" /\ call.pc = "none" /\ call.cache
  BY DEF Init, NoCall, CallFields, Idle
<1>3. TypeOK
  BY <1>1, <1>2 DEF TypeOK
<1>4. \A s \in Sessions : SessionInv(s)
  BY <1>1, <1>2 DEF SessionInv, Served, Accounted
<1>5. SharedInv
  BY <1>1, <1>2 DEF SharedInv, InTraining, AtRest
<1>6. CallInv
  BY <1>2 DEF CallInv, ServingInv, AskInv, LearnInv, RestoreInv, CreateInv
<1>7. QED
  BY <1>3, <1>4, <1>5, <1>6 DEF IInv

LEMMA StepInv == IInv /\ [Next]_vars => IInv'
<1> SUFFICES ASSUME IInv, [Next]_vars PROVE IInv'
  OBVIOUS
<1>1. ASSUME NEW s \in Sessions,
             \/ Ask("policy", s) \/ Ask("value", s)
             \/ Learn(s) \/ Save(s) \/ Restore(s) \/ Delete(s)
      PROVE  IInv'
  BY <1>1, AskStep, LearnStep, SaveStep, RestoreStep, DeleteStep
<1>2. ASSUME NEW s \in Sessions, NEW o \in Origins, Create(s, o) PROVE IInv'
  BY <1>2, CreateStep
<1>3. CASE Generate \/ ScoreRows \/ Forward \/ ReadValue \/ Return \/ AskFails
  BY <1>3, AnswerSteps
<1>4. CASE \/ EnterTraining \/ EnterReference \/ LeaveReference \/ Step \/ Commit
           \/ LearnReturns \/ StepTears \/ LearnRaises
  BY <1>4, EnterTrainingStep, ReferenceSteps, StepStep, CommitStep, LearnReturnsStep,
     LearnFailSteps
<1>5. CASE Imported \/ ImportStops \/ Rollback \/ RollbackStops
  BY <1>5, ImportSteps
<1>6. CASE \/ Allocate \/ AllocateFails \/ Build \/ BuildFails \/ Replace \/ ReplaceFails
           \/ CreateReturns \/ Initialize \/ InitializeFails
  BY <1>6, CreateBuildSteps, AllocateFailsStep, CreateFailSteps, CreateEndSteps
<1>7. CASE UNCHANGED vars
  BY <1>7 DEF vars, IInv, TypeOK, SessionInv, Whole, Image, Served, Accounted, SharedInv,
     InTraining, Streaming, Owned, CallInv, ServingInv, AskInv, LearnInv, RestoreInv,
     CreateInv, Idle
<1>8. QED
  BY <1>1, <1>2, <1>3, <1>4, <1>5, <1>6, <1>7 DEF Next

LEMMA Inductive == Spec => []IInv
BY InitInv, StepInv, PTL DEF Spec

\* Whatever a call does to cache, mode, reference context, random stream and
\* gradients is undone by its end, however it ends (real_backend.py:210-227,
\* search_backend.py:376-380).
THEOREM RestSafe == Spec => []ModelAtRest
<1>1. IInv => ModelAtRest
  BY AtIdle DEF ModelAtRest
<1>2. QED
  BY <1>1, Inductive, PTL

\* An adapter is in the model only for a session or a counted slot
\* (runtime.py:200-234).
THEOREM LeaksNothing == Spec => []NothingLeaks
<1>1. IInv => NothingLeaks
  BY DEF NothingLeaks, IInv, SessionInv, Accounted, Idle
<1>2. QED
  BY <1>1, Inductive, PTL

\* Adapter, head, optimizer and counters of what is served or on disk tell one
\* history, and the optimizer trains the head that answers
\* (real_backend.py:569-708).
THEOREM AgreementSafe == Spec => []PartsAgree
<1>1. IInv => PartsAgree
  BY DEF PartsAgree, IInv, SessionInv, Served, Whole
<1>2. QED
  BY <1>1, Inductive, PTL

\* A step that ends a failed call is the end of a policy or value call, or a
\* rollback.
LEMMA FailedEnds ==
  ASSUME IInv, Next, Failed
  PROVE  AskFails \/ Rollback \/ RollbackStops
<1>1. ~Idle /\ call.op # "create" /\ call.op \in DOMAIN Places
  BY DEF Failed, IInv, TypeOK
<1>2. ASSUME NEW pc, GoTo(pc) PROVE FALSE
  BY <1>1, <1>2, Continues DEF Failed, Idle, IInv
<1>3. ~UNCHANGED call
  BY DEF Failed, Idle
<1>4. ~Return /\ ~LearnReturns /\ ~Imported
  BY DEF Failed, Return, LearnReturns, Imported, At
<1>5. ~Generate /\ ~ScoreRows /\ ~ReadValue
  BY DEF Failed, Generate, ScoreRows, ReadValue, IInv, TypeOK, CallFields, Idle
<1>6. ~(\/ BuildFails \/ ReplaceFails \/ InitializeFails \/ AllocateFails
        \/ CreateReturns \/ Initialize)
  BY <1>1 DEF BuildFails, ReplaceFails, InitializeFails, AllocateFails, CreateReturns,
     Initialize, Built, At
<1>7. ~(\/ Forward \/ EnterTraining \/ Step \/ Commit \/ StepTears \/ LearnRaises
        \/ ImportStops \/ Allocate \/ Build \/ Replace)
  BY <1>2 DEF Forward, EnterTraining, Step, Commit, StepTears, LearnRaises,
     ImportStops, Allocate, Build, Replace
<1>8. ~EnterReference /\ ~LeaveReference
  BY <1>3 DEF EnterReference, LeaveReference
<1>9. ~(\E s \in Sessions : \/ Ask("policy", s) \/ Ask("value", s)
                            \/ Learn(s) \/ Save(s) \/ Restore(s) \/ Delete(s))
  BY <1>1 DEF Ask, Learn, Save, Restore, Delete
<1>10. ~(\E s \in Sessions, o \in Origins : Create(s, o))
  BY <1>1 DEF Create
<1>11. QED
  BY <1>4, <1>5, <1>6, <1>7, <1>8, <1>9, <1>10 DEF Next

LEMMA FailedStep ==
  IInv /\ [Next]_vars =>
    [Failed => \A s \in Sessions :
        s = call.s /\ Served(s)' => Image(s)' = call.image]_vars
<1> SUFFICES ASSUME IInv, Next, Failed, NEW s \in Sessions, s = call.s, Served(s)'
             PROVE  Image(s)' = call.image
  OBVIOUS
<1>1. CASE AskFails
  BY <1>1, AskPlaces, Unchanged DEF AskFails
<1>2. CASE Rollback
  <2>1. ~Idle /\ call.op \in {"learn", "restore"}
    BY <1>2, CallTypes DEF Rollback, IInv
  <2>2. Holds(s) /\ AtRest(shared)
    BY <1>2, <2>1, Held DEF Rollback, IInv, SharedInv, Streaming, InTraining, AtRest
  <2>3. QED
    BY <1>2, <2>1, <2>2, ImportLeaves DEF Rollback, Holds
<1>3. CASE RollbackStops
  BY <1>3 DEF RollbackStops, EndsWithheld, Served
<1>4. QED
  BY <1>1, <1>2, <1>3, FailedEnds

\* A call that fails and leaves its session served leaves it exactly as it was
\* (real_backend.py:212, runtime.py:128-136).
THEOREM FailuresChangeNothing == Spec => FailedCallsChangeNothing
BY Inductive, FailedStep, PTL DEF Spec, FailedCallsChangeNothing


-----------------------------------------------------------------------------
(* Least and greatest elements, and what is computed with them.            *)

\* A nonempty set of naturals has a least element: the induction all of this rests on.
LEMMA LeastNat ==
  ASSUME NEW S \in SUBSET Nat, S # {}
  PROVE  \E k \in S : \A j \in S : k <= j
<1>1. PICK k \in S : \A j \in S : ~(<<j, k>> \in OpToRel(<, Nat))
  BY NatLessThanWellFounded, WFMin, Zenon
<1>2. \A j \in S : ~(j < k)
  BY <1>1 DEF OpToRel
<1>3. QED
  BY <1>2

\* A nonempty set bounded above has a greatest one.
LEMMA GreatestNat ==
  ASSUME NEW n \in Nat, NEW S \in SUBSET (0..n), S # {}
  PROVE  \E k \in S : \A j \in S : j <= k
<1> DEFINE T == {m \in Nat : n - m \in S}
<1>1. T # {}
  <2>1. PICK k \in S : TRUE
    OBVIOUS
  <2>2. n - k \in Nat /\ n - (n - k) = k
    OBVIOUS
  <2>3. QED
    BY <2>1, <2>2
<1>2. PICK m \in T : \A l \in T : m <= l
  BY <1>1, LeastNat
<1>3. n - m \in S
  OBVIOUS
<1>4. ASSUME NEW j \in S PROVE j <= n - m
  <2>1. j \in 0..n /\ n - j \in Nat /\ n - (n - j) = j
    OBVIOUS
  <2>2. n - j \in T
    BY <2>1
  <2>3. QED
    BY <1>2, <2>1, <2>2
<1>5. QED
  BY <1>3, <1>4

LEMMA MinOf ==
  ASSUME NEW S \in SUBSET Nat, S # {}
  PROVE  Min(S) \in S /\ \A x \in S : Min(S) <= x
<1>1. \E k \in S : \A j \in S : k <= j
  BY LeastNat
<1>2. QED
  BY <1>1 DEF Min

LEMMA MaxOf ==
  ASSUME NEW n \in Nat, NEW S \in SUBSET (0..n), S # {}
  PROVE  Max(S) \in S /\ \A x \in S : x <= Max(S)
<1>1. \E k \in S : \A j \in S : k >= j
  <2>1. PICK k \in S : \A j \in S : j <= k
    BY GreatestNat
  <2>2. QED
    BY <2>1
<1>2. Max(S) \in S /\ \A x \in S : Max(S) >= x
  BY <1>1 DEF Max
<1>3. QED
  BY <1>2

LEMMA MinTwo ==
  ASSUME NEW a \in Int, NEW b \in Int
  PROVE  Min({a, b}) = IF a <= b THEN a ELSE b
<1>1. \E x \in {a, b} : \A y \in {a, b} : x <= y
  OBVIOUS
<1>2. Min({a, b}) \in {a, b} /\ \A y \in {a, b} : Min({a, b}) <= y
  BY <1>1 DEF Min
<1>3. QED
  BY <1>2

-----------------------------------------------------------------------------
(* What the recursive functions compute.                                   *)

LEMMA ElementType == \A S : \A s \in Seq(S) : \A i \in DOMAIN s : s[i] \in S
OBVIOUS

\* g[i] is the concatenation of the first i elements of ss, up to m.
Joined(g, ss, m) ==
    \A i \in 1..m : g[i] = IF i = 1 THEN ss[i] ELSE g[i - 1] \o ss[i]

\* The partial concatenations exist: the first of them that did not would follow
\* from the one before it.
LEMMA JoinedExists ==
  ASSUME NEW S, NEW ss \in Seq(Seq(S)), NEW n \in 0..Len(ss)
  PROVE  \E g \in [1..n -> Seq(S)] : Joined(g, ss, n)
<1> DEFINE B == {m \in 0..Len(ss) : ~ \E g \in [1..m -> Seq(S)] : Joined(g, ss, m)}
<1>1. SUFFICES ASSUME B # {} PROVE FALSE
  OBVIOUS
<1>2. B \in SUBSET Nat
  OBVIOUS
<1>3. PICK m \in B : \A j \in B : m <= j
  BY <1>1, <1>2, LeastNat
<1>4. m # 0
  <2>1. [i \in 1..0 |-> << >>] \in [1..0 -> Seq(S)] /\ Joined([i \in 1..0 |-> << >>], ss, 0)
    BY DEF Joined
  <2>2. QED
    BY <2>1
<1>5. m - 1 \in 0..Len(ss) /\ m - 1 \notin B /\ m \in 1..Len(ss)
  <2>1. B \subseteq 0..Len(ss)
    OBVIOUS
  <2> HIDE DEF B
  <2>2. m \in 1..Len(ss) /\ m - 1 \in 0..Len(ss)
    BY <1>4, <2>1
  <2>3. ~(m <= m - 1)
    BY <2>2
  <2>4. QED
    BY <1>3, <2>2, <2>3
<1>6. PICK g \in [1..(m - 1) -> Seq(S)] : Joined(g, ss, m - 1)
  BY <1>5
<1>7. \A i \in 1..m : ss[i] \in Seq(S)
  BY <1>5, ElementType
<1>8. PICK last \in Seq(S) : last = IF m = 1 THEN ss[m] ELSE g[m - 1] \o ss[m]
  <2>1. CASE m = 1
    BY <1>5, <1>7, <2>1
  <2>2. CASE m # 1
    <3>1. g[m - 1] \in Seq(S) /\ ss[m] \in Seq(S)
      BY <1>5, <1>7, <2>2
    <3>2. g[m - 1] \o ss[m] \in Seq(S)
      BY <3>1
    <3>3. QED
      BY <2>2, <3>2
  <2>3. QED
    BY <2>1, <2>2
<1> DEFINE h == [i \in 1..m |-> IF i = m THEN last ELSE g[i]]
<1>9. h \in [1..m -> Seq(S)]
  BY <1>5
<1>10. \A i \in 1..m : h[i] = IF i = 1 THEN ss[i] ELSE h[i - 1] \o ss[i]
  <2>1. SUFFICES ASSUME NEW i \in 1..m PROVE h[i] = IF i = 1 THEN ss[i] ELSE h[i - 1] \o ss[i]
    OBVIOUS
  <2>2. CASE i = m
    <3>1. h[i] = last /\ (i # 1 => h[i - 1] = g[i - 1])
      BY <1>5, <2>2
    <3>2. QED
      BY <1>8, <2>2, <3>1
  <2>3. CASE i # m
    <3>1. i \in 1..(m - 1) /\ h[i] = g[i] /\ (i # 1 => h[i - 1] = g[i - 1])
      BY <1>5, <2>3
    <3>2. QED
      BY <1>6, <3>1 DEF Joined
  <2>4. QED
    BY <2>2, <2>3
<1>11. Joined(h, ss, m)
  BY <1>10 DEF Joined
<1>12. QED
  BY <1>9, <1>11

\* FlattenSeq is what the last partial concatenation is.
LEMMA Flattened ==
  ASSUME NEW S, NEW ss \in Seq(Seq(S)), ss # << >>
  PROVE  \E g \in [1..Len(ss) -> Seq(S)] :
            Joined(g, ss, Len(ss)) /\ FlattenSeq(ss) = g[Len(ss)]
<1> DEFINE n == Len(ss)
           Is(f) == f = [i \in 1..n |-> IF i = 1 THEN ss[i] ELSE f[i - 1] \o ss[i]]
<1>1. n \in Nat /\ n # 0 /\ n \in 0..Len(ss)
  OBVIOUS
<1>2. PICK g \in [1..n -> Seq(S)] : Joined(g, ss, n)
  BY <1>1, JoinedExists
<1>3. Is(g)
  BY <1>2 DEF Joined
<1>4. PICK f : f = CHOOSE h : Is(h)
  OBVIOUS
<1>5. Is(f)
  BY <1>3, <1>4, Zenon
<1>6. FlattenSeq(ss) = f[n]
  BY <1>1, <1>4 DEF FlattenSeq
<1>7. \A i \in 1..n : f[i] = IF i = 1 THEN ss[i] ELSE f[i - 1] \o ss[i]
  BY <1>5
<1> HIDE DEF Is
<1>8. \A i \in 1..n : f[i] = g[i]
  <2> DEFINE B == {i \in 1..n : f[i] # g[i]}
  <2>1. SUFFICES ASSUME B # {} PROVE FALSE
    OBVIOUS
  <2>2. PICK i \in B : \A j \in B : i <= j
    <3>1. B \in SUBSET Nat
      OBVIOUS
    <3>2. QED
      BY <2>1, <3>1, LeastNat
  <2>3. i # 1 => i - 1 \in 1..n /\ i - 1 \notin B
    BY <2>2
  <2>4. i # 1 => f[i - 1] = g[i - 1]
    BY <2>3
  <2>5. f[i] = g[i]
    BY <1>2, <1>7, <2>4 DEF Joined
  <2>6. QED
    BY <2>5
<1>9. FlattenSeq(ss) = g[n]
  BY <1>1, <1>6, <1>8
<1>10. QED
  BY <1>2, <1>9

LEMMA FlattenType ==
  ASSUME NEW S, NEW ss \in Seq(Seq(S))
  PROVE  FlattenSeq(ss) \in Seq(S)
<1>1. CASE ss = << >>
  BY <1>1 DEF FlattenSeq
<1>2. CASE ss # << >>
  <2>1. PICK g \in [1..Len(ss) -> Seq(S)] : FlattenSeq(ss) = g[Len(ss)]
    BY <1>2, Flattened
  <2>2. Len(ss) \in 1..Len(ss)
    BY <1>2
  <2>3. QED
    BY <2>1, <2>2
<1>3. QED
  BY <1>1, <1>2

-----------------------------------------------------------------------------
(* One forward pass per token, and one for all of them.                    *)

SequencesEqual(s, t) == Len(s) = Len(t) /\ \A i \in 1..Len(s) : s[i] = t[i]

LEMMA EqualSequences ==
  ASSUME NEW S, NEW s \in Seq(S), NEW t \in Seq(S), SequencesEqual(s, t)
  PROVE  s = t
BY DEF SequencesEqual

\* a is the prompt and then the first n tokens of the stream.
Reads(a, stream, n) ==
    /\ Len(a) = Len(Prompt) + n
    /\ \A i \in 1..Len(Prompt) : a[i] = Prompt[i]
    /\ \A i \in 1..n : a[Len(Prompt) + i] = stream[i]

LEMMA ReadsSame ==
  ASSUME NEW T, Prompt \in Seq(T), NEW stream, NEW n \in Nat,
         NEW a \in Seq(T), NEW b \in Seq(T), Reads(a, stream, n), Reads(b, stream, n)
  PROVE  a = b
<1>1. Len(Prompt) \in Nat /\ Len(a) = Len(Prompt) + n /\ Len(b) = Len(Prompt) + n
  BY DEF Reads
<1>2. ASSUME NEW i \in 1..Len(a) PROVE a[i] = b[i]
  <2>1. CASE i \in 1..Len(Prompt)
    BY <2>1 DEF Reads
  <2>2. CASE i \notin 1..Len(Prompt)
    <3>1. PICK k \in 1..n : i = Len(Prompt) + k
      <4>1. i - Len(Prompt) \in 1..n /\ i = Len(Prompt) + (i - Len(Prompt))
        BY <1>1, <1>2, <2>2
      <4>2. QED
        BY <4>1
    <3>2. a[Len(Prompt) + k] = stream[k] /\ b[Len(Prompt) + k] = stream[k]
      BY DEF Reads
    <3>3. QED
      BY <3>1, <3>2
  <2>3. QED
    BY <2>1, <2>2
<1>3. SequencesEqual(a, b)
  BY <1>1, <1>2 DEF SequencesEqual
<1>4. QED
  BY <1>3, EqualSequences

LEMMA PrefixType ==
  ASSUME NEW T, NEW tokens \in Seq(T), NEW n \in 0..Len(tokens)
  PROVE  /\ SubSeq(tokens, 1, n) \in Seq(T) /\ Len(SubSeq(tokens, 1, n)) = n
         /\ \A i \in 1..n : SubSeq(tokens, 1, n)[i] = tokens[i]
OBVIOUS

LEMMA JoinReads ==
  ASSUME NEW T, Prompt \in Seq(T), NEW stream, NEW n \in Nat, NEW b \in Seq(T),
         Len(b) = n, \A i \in 1..n : b[i] = stream[i]
  PROVE  Prompt \o b \in Seq(T) /\ Reads(Prompt \o b, stream, n)
<1>1. /\ Prompt \o b \in Seq(T) /\ Len(Prompt \o b) = Len(Prompt) + Len(b)
      /\ \A i \in 1..Len(Prompt) : (Prompt \o b)[i] = Prompt[i]
      /\ \A i \in 1..Len(b) : (Prompt \o b)[Len(Prompt) + i] = b[i]
  OBVIOUS
<1>2. QED
  BY <1>1 DEF Reads

\* What the score of token n + 1 depends on.
Given(tokens, n) == Prompt \o SubSeq(tokens, 1, n)

LEMMA GivenReads ==
  ASSUME NEW T, Prompt \in Seq(T), NEW tokens \in Seq(T), NEW n \in 0..Len(tokens)
  PROVE  Given(tokens, n) \in Seq(T) /\ Reads(Given(tokens, n), tokens, n)
<1>1. /\ SubSeq(tokens, 1, n) \in Seq(T) /\ Len(SubSeq(tokens, 1, n)) = n
      /\ \A i \in 1..n : SubSeq(tokens, 1, n)[i] = tokens[i]
  BY PrefixType
<1>2. PICK b \in Seq(T) : b = SubSeq(tokens, 1, n)
  BY <1>1
<1>3. Len(b) = n /\ (\A i \in 1..n : b[i] = tokens[i]) /\ n \in Nat
  BY <1>1, <1>2
<1>4. Prompt \o b \in Seq(T) /\ Reads(Prompt \o b, tokens, n)
  BY <1>3, JoinReads
<1>5. QED
  BY <1>2, <1>4 DEF Given

\* The first part of what reads the stream reads it too.
LEMMA CutReads ==
  ASSUME NEW T, Prompt \in Seq(T), NEW stream, NEW m \in Nat, NEW a \in Seq(T),
         Reads(a, stream, m), NEW n \in 0..m
  PROVE  /\ SubSeq(a, 1, Len(Prompt) + n) \in Seq(T)
         /\ Reads(SubSeq(a, 1, Len(Prompt) + n), stream, n)
<1>1. Len(Prompt) \in Nat /\ Len(a) = Len(Prompt) + m
  BY DEF Reads
<1>2. Len(Prompt) + n \in 0..Len(a)
  BY <1>1
<1>3. /\ SubSeq(a, 1, Len(Prompt) + n) \in Seq(T)
      /\ Len(SubSeq(a, 1, Len(Prompt) + n)) = Len(Prompt) + n
      /\ \A i \in 1..(Len(Prompt) + n) : SubSeq(a, 1, Len(Prompt) + n)[i] = a[i]
  BY <1>2, PrefixType
<1>4. \A i \in 1..Len(Prompt) : i \in 1..(Len(Prompt) + n)
  BY <1>1
<1>5. \A i \in 1..n : Len(Prompt) + i \in 1..(Len(Prompt) + n) /\ i \in 1..m
  BY <1>1
<1>6. QED
  BY <1>3, <1>4, <1>5 DEF Reads

LEMMA AppendReads ==
  ASSUME NEW T, Prompt \in Seq(T), NEW stream, NEW n \in Nat \ {0}, NEW a \in Seq(T),
         NEW x \in T, x = stream[n], Reads(a, stream, n - 1)
  PROVE  Append(a, x) \in Seq(T) /\ Reads(Append(a, x), stream, n)
<1>1. Len(Prompt) \in Nat /\ Len(a) = Len(Prompt) + (n - 1) /\ Len(a) + 1 = Len(Prompt) + n
  BY DEF Reads
<1>2. /\ Append(a, x) \in Seq(T) /\ Len(Append(a, x)) = Len(a) + 1
      /\ Append(a, x)[Len(a) + 1] = x /\ \A i \in 1..Len(a) : Append(a, x)[i] = a[i]
  OBVIOUS
<1>3. \A i \in 1..Len(Prompt) : i \in 1..Len(a)
  BY <1>1
<1>4. \A i \in 1..n : i = n \/ (i \in 1..(n - 1) /\ Len(Prompt) + i \in 1..Len(a))
  BY <1>1
<1>5. QED
  BY <1>1, <1>2, <1>3, <1>4 DEF Reads

LEMMA GivenGrows ==
  ASSUME NEW T, Prompt \in Seq(T), NEW tokens \in Seq(T), NEW n \in 1..Len(tokens)
  PROVE  Append(Given(tokens, n - 1), tokens[n]) = Given(tokens, n)
<1>1. n - 1 \in 0..Len(tokens) /\ n \in 0..Len(tokens) /\ tokens[n] \in T /\ n \in Nat \ {0}
  BY ElementType
<1>2. Given(tokens, n - 1) \in Seq(T) /\ Reads(Given(tokens, n - 1), tokens, n - 1)
  BY <1>1, GivenReads
<1>3. Given(tokens, n) \in Seq(T) /\ Reads(Given(tokens, n), tokens, n)
  BY <1>1, GivenReads
<1>4. /\ Append(Given(tokens, n - 1), tokens[n]) \in Seq(T)
      /\ Reads(Append(Given(tokens, n - 1), tokens[n]), tokens, n)
  BY <1>1, <1>2, AppendReads
<1>5. QED
  BY <1>1, <1>3, <1>4, ReadsSame

\* The cache of the tokenwise scorer holds the prompt and the tokens before each target.
LEMMA TokenwiseIsCausal ==
  ASSUME NEW T, Prompt \in Seq(T), NEW tokens \in Seq(T)
  PROVE  TokenwiseRow(tokens) = CausalRow(tokens)
<1> DEFINE N == DOMAIN tokens
           Is(f) == f = [i \in N |-> IF i = 1 THEN Prompt ELSE Append(f[i - 1], tokens[i - 1])]
           w == [i \in N |-> Given(tokens, i - 1)]
<1>1. N = 1..Len(tokens) /\ Len(tokens) \in Nat
  OBVIOUS
<1>2. \A i \in N : w[i] = IF i = 1 THEN Prompt ELSE Append(w[i - 1], tokens[i - 1])
  <2>1. SUFFICES ASSUME NEW i \in N
                 PROVE  w[i] = IF i = 1 THEN Prompt ELSE Append(w[i - 1], tokens[i - 1])
    OBVIOUS
  <2>2. CASE i = 1
    <3>1. Given(tokens, 0) = Prompt
      <4>1. 0 \in 0..Len(tokens)
        BY <1>1
      <4>2. Given(tokens, 0) \in Seq(T) /\ Reads(Given(tokens, 0), tokens, 0)
        BY <4>1, GivenReads
      <4>3. Reads(Prompt, tokens, 0)
        BY DEF Reads
      <4>4. QED
        BY <4>2, <4>3, ReadsSame
    <3>2. QED
      BY <2>2, <3>1
  <2>3. CASE i # 1
    <3>1. i - 1 \in 1..Len(tokens) /\ i - 1 \in N
      BY <1>1, <2>3
    <3>2. Append(Given(tokens, i - 1 - 1), tokens[i - 1]) = Given(tokens, i - 1)
      BY <3>1, GivenGrows
    <3>3. QED
      BY <2>3, <3>1, <3>2
  <2>4. QED
    BY <2>2, <2>3
<1>3. Is(w)
  <2>1. w = [i \in N |-> w[i]]
    OBVIOUS
  <2> HIDE DEF w, N
  <2>2. w = [i \in N |-> IF i = 1 THEN Prompt ELSE Append(w[i - 1], tokens[i - 1])]
    BY <1>2, <2>1, Zenon
  <2>3. QED
    BY <2>2
<1>4. PICK f : f = CHOOSE h : Is(h)
  OBVIOUS
<1>5. Is(f)
  BY <1>3, <1>4, Zenon
<1>6. TokenwiseRow(tokens) = [i \in N |-> Score(tokens[i], tokens[i], f[i])]
  BY <1>4 DEF TokenwiseRow
<1>7. \A i \in N : f[i] = IF i = 1 THEN Prompt ELSE Append(f[i - 1], tokens[i - 1])
  BY <1>5
<1> HIDE DEF Is
<1>8. \A i \in N : f[i] = w[i]
  <2> DEFINE B == {i \in N : f[i] # w[i]}
  <2>1. SUFFICES ASSUME B # {} PROVE FALSE
    OBVIOUS
  <2>2. B \in SUBSET Nat
    BY <1>1
  <2> HIDE DEF w, N
  <2>3. PICK i \in B : \A j \in B : i <= j
    BY <2>1, <2>2, LeastNat
  <2>4. i # 1 => i - 1 \in N /\ i - 1 \notin B
    BY <1>1, <2>3
  <2>5. f[i] = w[i]
    BY <1>2, <1>7, <2>4
  <2>6. QED
    BY <2>5
<1>9. \A i \in N : f[i] = Prompt \o SubSeq(tokens, 1, i - 1)
  BY <1>8 DEF Given
<1> HIDE DEF w
<1>10. QED
  BY <1>6, <1>9 DEF CausalRow

\* One pass over the whole text, read one position back, scores the same.
LEMMA FullPrefixIsCausal ==
  ASSUME NEW T, Prompt \in Seq(T), NEW tokens \in Seq(T)
  PROVE  FullPrefixRow(tokens) = CausalRow(tokens)
<1> DEFINE input == Prompt \o tokens
<1>1. input \in Seq(T) /\ Reads(input, tokens, Len(tokens))
  BY JoinReads
<1>2. ASSUME NEW i \in DOMAIN tokens
      PROVE  SubSeq(input, 1, Len(input) - Len(tokens) - 1 + i) = Given(tokens, i - 1)
  <2>1. Len(input) = Len(Prompt) + Len(tokens)
    BY <1>1 DEF Reads
  <2> HIDE DEF input
  <2>2. /\ Len(input) - Len(tokens) - 1 + i = Len(Prompt) + (i - 1)
        /\ i - 1 \in 0..Len(tokens) /\ i - 1 \in Nat /\ Len(tokens) \in Nat
    BY <2>1
  <2>3. /\ SubSeq(input, 1, Len(Prompt) + (i - 1)) \in Seq(T)
        /\ Reads(SubSeq(input, 1, Len(Prompt) + (i - 1)), tokens, i - 1)
    BY <1>1, <2>2, CutReads
  <2>4. Given(tokens, i - 1) \in Seq(T) /\ Reads(Given(tokens, i - 1), tokens, i - 1)
    BY <2>2, GivenReads
  <2>5. QED
    BY <2>2, <2>3, <2>4, ReadsSame
<1>3. FullPrefixRow(tokens) = [i \in DOMAIN tokens |->
          Score(tokens[i], tokens[i], SubSeq(input, 1, Len(input) - Len(tokens) - 1 + i))]
  BY DEF FullPrefixRow
<1> HIDE DEF input
<1>4. QED
  BY <1>2, <1>3 DEF CausalRow, Given

LEMMA JoinedParts ==
  ASSUME NEW S, NEW a \in Seq(S), NEW b \in Seq(S)
  PROVE  /\ a \o b \in Seq(S) /\ Len(a \o b) = Len(a) + Len(b)
         /\ \A i \in 1..Len(a) : (a \o b)[i] = a[i]
         /\ \A i \in 1..Len(b) : (a \o b)[Len(a) + i] = b[i]
OBVIOUS

LEMMA PieceType ==
  ASSUME NEW S, NEW ss \in Seq(Seq(S)), NEW i \in 1..Len(ss)
  PROVE  ss[i] \in Seq(S) /\ Len(ss[i]) \in Nat
<1>1. i \in DOMAIN ss
  OBVIOUS
<1>2. ss[i] \in Seq(S)
  BY <1>1, ElementType
<1>3. QED
  BY <1>2

\* Where the elements of ss begin in their concatenation.
CursorLaw(w, ss) == \A c \in 1..Len(ss) : w[c] = IF c = 1 THEN 0 ELSE w[c - 1] + Len(ss[c - 1])

\* The elements of ss up to c are in g at their places.
Placed(g, w, ss, c) == \A d \in 1..c : \A i \in 1..Len(ss[d]) :
    w[d] + i \in 1..Len(g[c]) /\ g[c][w[d] + i] = ss[d][i]

\* Each element stays at its place when the next is joined.
LEMMA JoinedPlaced ==
  ASSUME NEW S, NEW ss \in Seq(Seq(S)), NEW n \in Nat, n = Len(ss),
         NEW g \in [1..n -> Seq(S)], Joined(g, ss, n),
         NEW w \in [1..n -> Nat], CursorLaw(w, ss),
         NEW c \in 1..n
  PROVE  Len(g[c]) = w[c] + Len(ss[c]) /\ Placed(g, w, ss, c)
<1> DEFINE Good(k) == Len(g[k]) = w[k] + Len(ss[k]) /\ Placed(g, w, ss, k)
           B == {k \in 1..n : ~Good(k)}
<1>1. SUFFICES ASSUME B # {} PROVE FALSE
  OBVIOUS
<1>2. PICK k \in B : \A j \in B : k <= j
  <2>1. B \in SUBSET Nat
    OBVIOUS
  <2>2. QED
    BY <1>1, <2>1, LeastNat
<1>3. k \in 1..n /\ ~Good(k)
  OBVIOUS
<1>4. \A j \in 1..n : ss[j] \in Seq(S) /\ Len(ss[j]) \in Nat /\ g[j] \in Seq(S) /\ w[j] \in Nat
  <2>1. \A j \in 1..n : ss[j] \in Seq(S) /\ Len(ss[j]) \in Nat
    BY PieceType
  <2>2. QED
    BY <2>1
<1>5. CASE k = 1
  <2>1. g[1] = ss[1] /\ w[1] = 0
    BY <1>3, <1>5 DEF Joined, CursorLaw
  <2>2. Len(g[1]) = w[1] + Len(ss[1])
    BY <1>3, <1>4, <1>5, <2>1
  <2>3. Placed(g, w, ss, 1)
    BY <1>3, <1>4, <1>5, <2>1 DEF Placed
  <2>4. QED
    BY <1>3, <1>5, <2>2, <2>3
<1>6. CASE k # 1
  <2>1. k - 1 \in 1..n /\ k - 1 \notin B
    BY <1>2, <1>3, <1>6
  <2>2. Good(k - 1)
    BY <2>1
  <2>3. g[k] = g[k - 1] \o ss[k] /\ w[k] = w[k - 1] + Len(ss[k - 1])
    BY <1>3, <1>6 DEF Joined, CursorLaw
  <2>4. PICK a \in Seq(S) : a = g[k - 1]
    BY <1>4, <2>1
  <2>5. PICK b \in Seq(S) : b = ss[k]
    BY <1>3, <1>4
  <2>6. /\ Len(a \o b) = Len(a) + Len(b)
        /\ \A i \in 1..Len(a) : (a \o b)[i] = a[i]
        /\ \A i \in 1..Len(b) : (a \o b)[Len(a) + i] = b[i]
    BY JoinedParts
  <2>7. Len(a) = w[k] /\ Len(a) \in Nat /\ Len(b) \in Nat
    BY <2>2, <2>3, <2>4
  <2>8. Len(g[k]) = w[k] + Len(ss[k])
    BY <2>3, <2>4, <2>5, <2>6, <2>7
  <2>9. ASSUME NEW d \in 1..k, NEW i \in 1..Len(ss[d])
        PROVE  w[d] + i \in 1..Len(g[k]) /\ g[k][w[d] + i] = ss[d][i]
    <3>1. CASE d = k
      <4>1. i \in 1..Len(b) /\ w[d] = Len(a)
        BY <2>5, <2>7, <2>9, <3>1
      <4>2. Len(a) + i \in 1..(Len(a) + Len(b))
        BY <2>7, <4>1
      <4>3. QED
        BY <2>3, <2>4, <2>5, <2>6, <3>1, <4>1, <4>2
    <3>2. CASE d # k
      <4>1. d \in 1..(k - 1)
        BY <1>3, <3>2
      <4>2. w[d] + i \in 1..Len(a) /\ a[w[d] + i] = ss[d][i]
        BY <2>2, <2>4, <2>9, <4>1 DEF Placed
      <4>3. w[d] + i \in 1..(Len(a) + Len(b))
        BY <2>7, <4>2
      <4>4. QED
        BY <2>3, <2>4, <2>5, <2>6, <4>2, <4>3
    <3>3. QED
      BY <3>1, <3>2
  <2>10. Placed(g, w, ss, k)
    BY <2>9 DEF Placed
  <2>11. QED
    BY <1>3, <2>8, <2>10
<1>7. QED
  BY <1>5, <1>6

LEMMA FlattenPlaces ==
  ASSUME NEW S, NEW ss \in Seq(Seq(S)),
         NEW w \in [1..Len(ss) -> Nat], CursorLaw(w, ss)
  PROVE  \A c \in 1..Len(ss) : \A i \in 1..Len(ss[c]) : FlattenSeq(ss)[w[c] + i] = ss[c][i]
<1>1. CASE ss = << >>
  BY <1>1
<1>2. CASE ss # << >>
  <2>1. PICK g \in [1..Len(ss) -> Seq(S)] : Joined(g, ss, Len(ss)) /\ FlattenSeq(ss) = g[Len(ss)]
    BY <1>2, Flattened
  <2>2. Len(ss) \in Nat /\ Len(ss) \in 1..Len(ss)
    BY <1>2
  <2>3. Placed(g, w, ss, Len(ss))
    BY <2>1, <2>2, JoinedPlaced
  <2>4. QED
    BY <2>1, <2>3 DEF Placed
<1>3. QED
  BY <1>1, <1>2

\* The cursor over the lengths of ss exists.
LEMMA CursorExists ==
  ASSUME NEW S, NEW ss \in Seq(Seq(S))
  PROVE  \E w \in [1..Len(ss) -> Nat] : CursorLaw(w, ss)
<1>1. CASE ss = << >>
  <2>1. [c \in 1..0 |-> 0] \in [1..Len(ss) -> Nat] /\ CursorLaw([c \in 1..0 |-> 0], ss)
    BY <1>1 DEF CursorLaw
  <2>2. QED
    BY <2>1
<1>2. CASE ss # << >>
  <2>1. PICK g \in [1..Len(ss) -> Seq(S)] : Joined(g, ss, Len(ss))
    BY <1>2, Flattened
  <2> DEFINE w == [c \in 1..Len(ss) |-> IF c = 1 THEN 0 ELSE Len(g[c - 1])]
  <2>2. \A c \in 1..Len(ss) : c # 1 => c - 1 \in 1..Len(ss)
    OBVIOUS
  <2>3. \A c \in 1..Len(ss) : g[c] \in Seq(S) /\ ss[c] \in Seq(S) /\ Len(g[c]) \in Nat
    <3>1. \A c \in 1..Len(ss) : ss[c] \in Seq(S) /\ Len(ss[c]) \in Nat
      BY PieceType
    <3>2. \A c \in 1..Len(ss) : g[c] \in Seq(S) /\ Len(g[c]) \in Nat
      <4>1. \A c \in 1..Len(ss) : g[c] \in Seq(S)
        OBVIOUS
      <4>2. QED
        BY <4>1
    <3>3. QED
      BY <3>1, <3>2
  <2>4. w \in [1..Len(ss) -> Nat]
    BY <2>2, <2>3
  <2>5. ASSUME NEW c \in 1..Len(ss), c # 1
        PROVE  w[c] = w[c - 1] + Len(ss[c - 1])
    <3>1. PICK d \in 1..Len(ss) : d = c - 1
      BY <2>2, <2>5
    <3>2. g[d] = IF d = 1 THEN ss[d] ELSE g[d - 1] \o ss[d]
      BY <2>1 DEF Joined
    <3>3. w[c] = Len(g[d]) /\ w[d] = IF d = 1 THEN 0 ELSE Len(g[d - 1])
      BY <2>5, <3>1
    <3> HIDE DEF w
    <3>4. CASE d = 1
      <4>1. g[d] = ss[d] /\ w[d] = 0 /\ Len(ss[d]) \in Nat
        BY <2>3, <3>2, <3>3, <3>4
      <4>2. PICK l \in Nat : l = Len(ss[d])
        BY <4>1
      <4>3. w[c] = l
        BY <3>3, <4>1, <4>2
      <4>4. w[d] = 0
        BY <4>1
      <4>5. w[d] + l = l
        BY <4>2, <4>4
      <4>6. QED
        BY <3>1, <4>2, <4>3, <4>5
    <3>5. CASE d # 1
      <4>1. PICK a \in Seq(S) : a = g[d - 1]
        BY <2>2, <2>3, <3>5
      <4>2. PICK b \in Seq(S) : b = ss[d]
        BY <2>3
      <4>3. Len(a \o b) = Len(a) + Len(b)
        BY JoinedParts
      <4>4. QED
        BY <3>1, <3>2, <3>3, <3>5, <4>1, <4>2, <4>3
    <3>6. QED
      BY <3>4, <3>5
  <2>6. \A c \in 1..Len(ss) : c = 1 => w[c] = 0
    OBVIOUS
  <2> HIDE DEF w
  <2>7. CursorLaw(w, ss)
    BY <2>5, <2>6 DEF CursorLaw
  <2>8. QED
    BY <2>4, <2>7
<1>3. QED
  BY <1>1, <1>2

-----------------------------------------------------------------------------
(* The flat vector of scores, and slices of a row.                         *)

Scores(T) == [token : T, of : T, given : Seq(T)]

LEMMA WithoutType ==
  ASSUME NEW T, NEW s \in Seq(T), NEW x
  PROVE  Without(s, x) \in Seq(T)
<1> DEFINE ss == [i \in DOMAIN s |-> IF s[i] = x THEN << >> ELSE <<s[i]>>]
<1>1. \A i \in DOMAIN s : << >> \in Seq(T) /\ <<s[i]>> \in Seq(T)
  BY ElementType
<1>2. \A i \in DOMAIN s : ss[i] \in Seq(T)
  BY <1>1
<1>3. DOMAIN s = 1..Len(s) /\ Len(s) \in Nat
  OBVIOUS
<1>4. ss \in Seq(Seq(T))
  BY <1>2, <1>3
<1>5. Without(s, x) = FlattenSeq(ss)
  BY DEF Without
<1> HIDE DEF ss
<1>6. QED
  BY <1>4, <1>5, FlattenType

LEMMA CausalType ==
  ASSUME NEW T, Prompt \in Seq(T), NEW tokens \in Seq(T)
  PROVE  /\ CausalRow(tokens) \in Seq(Scores(T)) /\ Len(CausalRow(tokens)) = Len(tokens)
         /\ \A i \in DOMAIN tokens :
                /\ CausalRow(tokens)[i] = Score(tokens[i], tokens[i], Given(tokens, i - 1))
                /\ CausalRow(tokens)[i].token = tokens[i]
<1>1. DOMAIN tokens = 1..Len(tokens) /\ Len(tokens) \in Nat
  OBVIOUS
<1>2. ASSUME NEW i \in DOMAIN tokens
      PROVE  /\ Score(tokens[i], tokens[i], Given(tokens, i - 1)) \in Scores(T)
             /\ Score(tokens[i], tokens[i], Given(tokens, i - 1)).token = tokens[i]
  <2>1. i - 1 \in 0..Len(tokens) /\ tokens[i] \in T
    BY <1>1, ElementType
  <2>2. Given(tokens, i - 1) \in Seq(T)
    BY <2>1, GivenReads
  <2>3. Without(Given(tokens, i - 1), Pad) \in Seq(T)
    BY <2>2, WithoutType
  <2>4. QED
    BY <2>1, <2>3 DEF Score, Scores
<1>3. CausalRow(tokens) = [i \in 1..Len(tokens) |-> Score(tokens[i], tokens[i], Given(tokens, i - 1))]
  BY <1>1 DEF CausalRow, Given
<1>4. CausalRow(tokens) \in [1..Len(tokens) -> Scores(T)]
  BY <1>1, <1>2, <1>3
<1>5. CausalRow(tokens) \in Seq(Scores(T)) /\ Len(CausalRow(tokens)) = Len(tokens)
  BY <1>1, <1>3, <1>4
<1>6. QED
  BY <1>1, <1>2, <1>3, <1>5

\* The cursor finds every score of the flat vector again, in its own row.
LEMMA DeferredIsCausal ==
  ASSUME NEW T, Prompt \in Seq(T), NEW rows \in Seq(Seq(T))
  PROVE  DeferredRows(rows) = [c \in DOMAIN rows |-> CausalRow(rows[c])]
<1> DEFINE N == DOMAIN rows
           ss == [c \in N |-> CausalRow(rows[c])]
           scores == FlattenSeq([c \in N |-> TokenwiseRow(rows[c])])
           Is(f) == f = [c \in N |-> IF c = 1 THEN 0 ELSE f[c - 1] + Len(rows[c - 1])]
<1>1. N = 1..Len(rows) /\ Len(rows) \in Nat
  OBVIOUS
<1>2. \A c \in N : rows[c] \in Seq(T)
  BY ElementType
<1>3. \A c \in N : TokenwiseRow(rows[c]) = CausalRow(rows[c])
  BY <1>2, TokenwiseIsCausal
<1>4. \A c \in N : CausalRow(rows[c]) \in Seq(Scores(T)) /\ Len(CausalRow(rows[c])) = Len(rows[c])
  BY <1>2, CausalType
<1>5. ss \in Seq(Seq(Scores(T))) /\ Len(ss) = Len(rows)
  BY <1>1, <1>4
<1>6. scores = FlattenSeq(ss)
  <2>1. [c \in N |-> TokenwiseRow(rows[c])] = ss
    BY <1>3
  <2>2. QED
    BY <2>1
<1>7. PICK f : f = CHOOSE h : Is(h)
  OBVIOUS
<1>8. DeferredRows(rows) = [c \in N |->
          [i \in DOMAIN rows[c] |-> [scores[f[c] + i] EXCEPT !.token = rows[c][i]]]]
  BY <1>7 DEF DeferredRows
<1>9. \A c \in N : ss[c] = CausalRow(rows[c]) /\ Len(ss[c]) = Len(rows[c])
  BY <1>4
<1> HIDE DEF ss, scores
<1>10. PICK w \in [1..Len(ss) -> Nat] : CursorLaw(w, ss)
  BY <1>5, CursorExists
<1>11. \A c \in N : w[c] = IF c = 1 THEN 0 ELSE w[c - 1] + Len(rows[c - 1])
  <2>1. SUFFICES ASSUME NEW c \in N PROVE w[c] = IF c = 1 THEN 0 ELSE w[c - 1] + Len(rows[c - 1])
    OBVIOUS
  <2>2. c # 1 => c - 1 \in N
    BY <1>1
  <2>3. QED
    BY <1>1, <1>5, <1>9, <1>10, <2>2 DEF CursorLaw
<1>12. Is(w)
  <2>1. w = [c \in N |-> w[c]]
    BY <1>1, <1>5, <1>10
  <2> HIDE DEF N
  <2>2. w = [c \in N |-> IF c = 1 THEN 0 ELSE w[c - 1] + Len(rows[c - 1])]
    BY <1>11, <2>1, Zenon
  <2>3. QED
    BY <2>2
<1>13. Is(f)
  BY <1>7, <1>12, Zenon
<1>14. \A c \in N : f[c] = IF c = 1 THEN 0 ELSE f[c - 1] + Len(rows[c - 1])
  BY <1>13
<1> HIDE DEF Is
<1>15. \A c \in N : f[c] = w[c]
  <2> DEFINE B == {c \in N : f[c] # w[c]}
  <2>1. SUFFICES ASSUME B # {} PROVE FALSE
    OBVIOUS
  <2>2. B \in SUBSET Nat
    BY <1>1
  <2>3. PICK c \in B : \A j \in B : c <= j
    BY <2>1, <2>2, LeastNat
  <2>4. c \in N /\ c \in Nat /\ (c # 1 => c - 1 \in N /\ ~(c <= c - 1))
    BY <1>1
  <2>5. c # 1 => f[c - 1] = w[c - 1]
    BY <2>3, <2>4
  <2>6. f[c] = w[c]
    BY <1>11, <1>14, <2>4, <2>5
  <2>7. QED
    BY <2>6
<1>16. ASSUME NEW c \in N, NEW i \in DOMAIN rows[c]
       PROVE  [scores[f[c] + i] EXCEPT !.token = rows[c][i]] = CausalRow(rows[c])[i]
  <2>1. DOMAIN rows[c] = 1..Len(rows[c]) /\ c \in 1..Len(ss) /\ i \in 1..Len(ss[c])
    BY <1>1, <1>2, <1>5, <1>9, <1>16
  <2>2. scores[f[c] + i] = CausalRow(rows[c])[i]
    <3>1. \A d \in 1..Len(ss) : \A j \in 1..Len(ss[d]) : FlattenSeq(ss)[w[d] + j] = ss[d][j]
      BY <1>5, <1>10, FlattenPlaces
    <3>2. FlattenSeq(ss)[w[c] + i] = ss[c][i]
      BY <2>1, <3>1
    <3>3. f[c] = w[c] /\ ss[c] = CausalRow(rows[c])
      BY <1>9, <1>15
    <3>4. QED
      BY <1>6, <3>2, <3>3
  <2>3. CausalRow(rows[c])[i] \in Scores(T) /\ CausalRow(rows[c])[i].token = rows[c][i]
    <3>1. PICK tokens \in Seq(T) : tokens = rows[c]
      BY <1>2
    <3>2. CausalRow(tokens) \in Seq(Scores(T)) /\ Len(CausalRow(tokens)) = Len(tokens)
          /\ CausalRow(tokens)[i].token = tokens[i]
      BY <1>16, <3>1, CausalType
    <3>3. i \in DOMAIN CausalRow(tokens)
      BY <1>16, <3>1, <3>2
    <3>4. CausalRow(tokens)[i] \in Scores(T)
      BY <3>2, <3>3, ElementType
    <3>5. QED
      BY <3>1, <3>2, <3>4
  <2>4. PICK score \in Scores(T) : score = CausalRow(rows[c])[i]
    BY <2>3
  <2>5. [score EXCEPT !.token = rows[c][i]] = score
    BY <2>3, <2>4 DEF Scores
  <2>6. QED
    BY <2>2, <2>4, <2>5
<1>17. ASSUME NEW c \in N
       PROVE  [i \in DOMAIN rows[c] |-> [scores[f[c] + i] EXCEPT !.token = rows[c][i]]]
                = CausalRow(rows[c])
  <2>1. CausalRow(rows[c]) = [i \in DOMAIN rows[c] |-> CausalRow(rows[c])[i]]
    BY <1>2, <1>4, <1>17
  <2>2. QED
    BY <1>16, <2>1, Zenon
<1>18. QED
  BY <1>8, <1>17, Zenon

LEMMA SliceType ==
  ASSUME NEW S, NEW s \in Seq(S), NEW m \in Nat, NEW n \in 0..Len(s)
  PROVE  /\ SubSeq(s, m + 1, n) \in Seq(S)
         /\ Len(SubSeq(s, m + 1, n)) = IF m < n THEN n - m ELSE 0
         /\ \A i \in 1..Len(SubSeq(s, m + 1, n)) :
                SubSeq(s, m + 1, n)[i] = s[m + i] /\ m + i \in 1..n
<1>1. CASE m < n
  BY <1>1
<1>2. CASE ~(m < n)
  <2>1. SubSeq(s, m + 1, n) = << >>
    BY <1>2
  <2>2. QED
    BY <1>2, <2>1
<1>3. QED
  BY <1>1, <1>2

\* ss cuts row at the ends it is given.
CutAt(ss, row, ends) == \A k \in 1..Len(ss) :
    /\ ends[k] \in 0..Len(row)
    /\ (IF k = 1 THEN 0 ELSE ends[k - 1]) <= ends[k]
    /\ ss[k] = SubSeq(row, (IF k = 1 THEN 0 ELSE ends[k - 1]) + 1, ends[k])

\* A slice up to m and one from there on join to the longer slice.
LEMMA CutJoins ==
  ASSUME NEW S, NEW row \in Seq(S), NEW m \in 0..Len(row), NEW n \in 0..Len(row), m <= n
  PROVE  SubSeq(row, 1, m) \o SubSeq(row, m + 1, n) = SubSeq(row, 1, n)
<1>1. PICK a \in Seq(S) : a = SubSeq(row, 1, m) /\ Len(a) = m /\ \A i \in 1..m : a[i] = row[i]
  <2>1. /\ SubSeq(row, 1, m) \in Seq(S) /\ Len(SubSeq(row, 1, m)) = m
        /\ \A i \in 1..m : SubSeq(row, 1, m)[i] = row[i]
    BY PrefixType
  <2>2. PICK p \in Seq(S) : p = SubSeq(row, 1, m)
    BY <2>1
  <2>3. QED
    BY <2>1, <2>2
<1>2. PICK c \in Seq(S) : c = SubSeq(row, 1, n) /\ Len(c) = n /\ \A i \in 1..n : c[i] = row[i]
  <2>1. /\ SubSeq(row, 1, n) \in Seq(S) /\ Len(SubSeq(row, 1, n)) = n
        /\ \A i \in 1..n : SubSeq(row, 1, n)[i] = row[i]
    BY PrefixType
  <2>2. PICK p \in Seq(S) : p = SubSeq(row, 1, n)
    BY <2>1
  <2>3. QED
    BY <2>1, <2>2
<1>3. /\ SubSeq(row, m + 1, n) \in Seq(S)
      /\ Len(SubSeq(row, m + 1, n)) = IF m < n THEN n - m ELSE 0
      /\ \A i \in 1..Len(SubSeq(row, m + 1, n)) : SubSeq(row, m + 1, n)[i] = row[m + i]
  BY SliceType
<1>4. PICK b \in Seq(S) : b = SubSeq(row, m + 1, n)
  BY <1>3
<1>5. Len(b) = n - m /\ \A i \in 1..(n - m) : b[i] = row[m + i]
  BY <1>3, <1>4
<1>6. /\ a \o b \in Seq(S) /\ Len(a \o b) = Len(a) + Len(b)
      /\ \A i \in 1..Len(a) : (a \o b)[i] = a[i]
      /\ \A i \in 1..Len(b) : (a \o b)[Len(a) + i] = b[i]
  BY JoinedParts
<1>7. Len(a \o b) = n
  BY <1>1, <1>5, <1>6
<1>8. ASSUME NEW i \in 1..n PROVE (a \o b)[i] = row[i]
  <2>1. CASE i <= m
    <3>1. i \in 1..m
      BY <2>1
    <3>2. QED
      BY <1>1, <1>6, <3>1
  <2>2. CASE ~(i <= m)
    <3>1. PICK k \in 1..(n - m) : i = m + k
      <4>1. i - m \in 1..(n - m) /\ i = m + (i - m)
        BY <2>2
      <4>2. QED
        BY <4>1
    <3>2. (a \o b)[Len(a) + k] = b[k]
      BY <1>5, <1>6
    <3>3. QED
      BY <1>1, <1>5, <3>1, <3>2
  <2>3. QED
    BY <2>1, <2>2
<1>9. SequencesEqual(a \o b, c)
  BY <1>2, <1>7, <1>8 DEF SequencesEqual
<1>10. a \o b = c
  BY <1>6, <1>9, EqualSequences
<1>11. QED
  BY <1>1, <1>2, <1>4, <1>10

\* Pieces cut at rising ends, joined, are the row up to the last end.
LEMMA FlattenPieces ==
  ASSUME NEW S, NEW row \in Seq(S), NEW ss \in Seq(Seq(S)), ss # << >>, NEW ends,
         CutAt(ss, row, ends)
  PROVE  FlattenSeq(ss) = SubSeq(row, 1, ends[Len(ss)])
<1>1. PICK g \in [1..Len(ss) -> Seq(S)] : Joined(g, ss, Len(ss)) /\ FlattenSeq(ss) = g[Len(ss)]
  BY Flattened
<1>2. Len(ss) \in Nat /\ Len(ss) \in 1..Len(ss)
  OBVIOUS
<1> DEFINE B == {k \in 1..Len(ss) : g[k] # SubSeq(row, 1, ends[k])}
<1>3. SUFFICES ASSUME B # {} PROVE FALSE
  BY <1>1, <1>2
<1>4. PICK k \in B : \A j \in B : k <= j
  <2>1. B \in SUBSET Nat
    OBVIOUS
  <2>2. QED
    BY <1>3, <2>1, LeastNat
<1>5. k \in 1..Len(ss) /\ g[k] # SubSeq(row, 1, ends[k])
  OBVIOUS
<1>6. /\ ends[k] \in 0..Len(row)
      /\ k # 1 => k - 1 \in 1..Len(ss) /\ k - 1 \notin B
  <2>1. ends[k] \in 0..Len(row)
    BY <1>5 DEF CutAt
  <2>2. ~(k <= k - 1) /\ (k # 1 => k - 1 \in 1..Len(ss))
    BY <1>2, <1>5
  <2> HIDE DEF B
  <2>3. k - 1 \notin B
    BY <1>4, <2>2
  <2>4. QED
    BY <2>1, <2>2, <2>3
<1>7. CASE k = 1
  <2>1. g[1] = ss[1] /\ ss[1] = SubSeq(row, 0 + 1, ends[1])
    BY <1>1, <1>5, <1>7 DEF Joined, CutAt
  <2>2. QED
    BY <1>5, <1>7, <2>1
<1>8. CASE k # 1
  <2>1. g[k - 1] = SubSeq(row, 1, ends[k - 1]) /\ ends[k - 1] \in 0..Len(row)
    BY <1>6, <1>8 DEF CutAt
  <2>2. g[k] = g[k - 1] \o ss[k]
    BY <1>1, <1>5, <1>8 DEF Joined
  <2>3. ss[k] = SubSeq(row, ends[k - 1] + 1, ends[k]) /\ ends[k - 1] <= ends[k]
    BY <1>5, <1>8 DEF CutAt
  <2>4. SubSeq(row, 1, ends[k - 1]) \o SubSeq(row, ends[k - 1] + 1, ends[k]) = SubSeq(row, 1, ends[k])
    BY <1>6, <2>1, <2>3, CutJoins
  <2>5. QED
    BY <1>5, <2>1, <2>2, <2>3, <2>4
<1>9. QED
  BY <1>7, <1>8

-----------------------------------------------------------------------------
(* Chunks.                                                                 *)

\* The tokens that enter the cache, in order: all but the last, then masked positions.
Stream(tokens) == [i \in Nat |-> IF i < Len(tokens) THEN tokens[i] ELSE Pad]

\* s continues the stream after its first n tokens.
Resumes(s, stream, n) == \A i \in 1..Len(s) : s[i] = stream[n + i]

\* What a chunk feeds are the tokens that enter the cache after those of the
\* chunks before it, masked positions behind the end of the row.
LEMMA FedResumes ==
  ASSUME NEW T, Pad \in T, NEW tokens \in Seq(T), tokens # << >>,
         NEW start \in Nat, NEW width \in Nat \ {0}
  PROVE  /\ Fed(tokens, start, width) \in Seq(T)
         /\ start = 0 => /\ Len(Fed(tokens, start, width)) = width - 1
                        /\ Resumes(Fed(tokens, start, width), Stream(tokens), 0)
         /\ start # 0 => /\ Len(Fed(tokens, start, width)) = width
                        /\ Resumes(Fed(tokens, start, width), Stream(tokens), start - 1)
<1>1. PICK first \in Nat : first = IF start = 0 THEN 0 ELSE start - 1
  OBVIOUS
<1>2. PICK count \in Nat : count = IF start = 0 THEN width - 1 ELSE width
  OBVIOUS
<1>3. Len(tokens) \in Nat /\ Len(tokens) - 1 \in Nat
  OBVIOUS
<1>4. PICK last \in Nat : last = IF first + count <= Len(tokens) - 1 THEN first + count ELSE Len(tokens) - 1
  <2>1. first + count \in Nat
    OBVIOUS
  <2>2. CASE first + count <= Len(tokens) - 1
    BY <2>1, <2>2
  <2>3. CASE ~(first + count <= Len(tokens) - 1)
    BY <1>3, <2>3
  <2>4. QED
    BY <2>2, <2>3
<1>5. Min({first + count, Len(tokens) - 1}) = last
  BY <1>3, <1>4, MinTwo
<1> DEFINE actual == SubSeq(tokens, first + 1, last)
           fed == [i \in 1..count |-> IF i <= Len(actual) THEN actual[i] ELSE Pad]
<1>6. last <= Len(tokens) - 1 /\ last <= first + count
  BY <1>3, <1>4
<1>7. /\ actual \in Seq(T)
      /\ Len(actual) = IF first < last THEN last - first ELSE 0
      /\ \A i \in 1..Len(actual) : actual[i] = tokens[first + i] /\ first + i \in 1..last
  <2>1. last \in 0..Len(tokens)
    BY <1>3, <1>6
  <2>2. QED
    BY <2>1, SliceType
<1>8. Fed(tokens, start, width) = fed
  BY <1>1, <1>2, <1>5 DEF Fed
<1>9. ASSUME NEW i \in 1..count
      PROVE  fed[i] \in T /\ fed[i] = Stream(tokens)[first + i]
  <2>1. first + i \in Nat /\ first + i >= 1
    OBVIOUS
  <2>2. Stream(tokens)[first + i] = IF first + i < Len(tokens) THEN tokens[first + i] ELSE Pad
    BY <2>1 DEF Stream
  <2>3. fed[i] = IF i <= Len(actual) THEN actual[i] ELSE Pad
    OBVIOUS
  <2> HIDE DEF fed, actual
  <2>4. PICK l \in Nat : l = Len(actual)
    <3>1. Len(actual) \in Nat
      <4>1. actual \in Seq(T)
        BY <1>7
      <4>2. QED
        BY <4>1
    <3>2. QED
      BY <3>1
  <2>5. l = IF first < last THEN last - first ELSE 0
    BY <1>7, <2>4
  <2>6. CASE i <= l
    <3>1. i \in 1..l
      BY <2>6
    <3>2. actual[i] = tokens[first + i] /\ first + i \in 1..Len(tokens)
      BY <1>3, <1>6, <1>7, <2>4, <3>1
    <3>3. first + i < Len(tokens)
      BY <1>3, <1>6, <2>5, <2>6
    <3>4. tokens[first + i] \in T
      BY <3>2, ElementType
    <3>5. QED
      BY <2>2, <2>3, <2>4, <2>6, <3>2, <3>3, <3>4
  <2>7. CASE ~(i <= l)
    <3>1. ~(first + i < Len(tokens))
      BY <1>3, <1>4, <2>5, <2>7
    <3>2. QED
      BY <2>2, <2>3, <2>4, <2>7, <3>1
  <2>8. QED
    BY <2>6, <2>7
<1> HIDE DEF actual
<1>10. fed \in Seq(T) /\ Len(fed) = count
  BY <1>9
<1> HIDE DEF fed
<1>11. Resumes(fed, Stream(tokens), first)
  BY <1>9, <1>10 DEF Resumes
<1>12. CASE start = 0
  <2>1. first = 0 /\ count = width - 1
    BY <1>1, <1>2, <1>12
  <2>2. QED
    BY <1>8, <1>10, <1>11, <1>12, <2>1
<1>13. CASE start # 0
  <2>1. first = start - 1 /\ count = width
    BY <1>1, <1>2, <1>13
  <2>2. QED
    BY <1>8, <1>10, <1>11, <1>13, <2>1
<1>14. QED
  BY <1>12, <1>13

\* What reads the stream, and then what continues it.
LEMMA ResumesReads ==
  ASSUME NEW T, Prompt \in Seq(T), NEW stream, NEW n \in Nat, NEW a \in Seq(T), NEW b \in Seq(T),
         Reads(a, stream, n), Resumes(b, stream, n), NEW m \in 0..Len(b)
  PROVE  /\ a \o SubSeq(b, 1, m) \in Seq(T)
         /\ Reads(a \o SubSeq(b, 1, m), stream, n + m)
<1>1. PICK c \in Seq(T) : c = SubSeq(b, 1, m) /\ Len(c) = m /\ \A i \in 1..m : c[i] = b[i]
  <2>1. /\ SubSeq(b, 1, m) \in Seq(T) /\ Len(SubSeq(b, 1, m)) = m
        /\ \A i \in 1..m : SubSeq(b, 1, m)[i] = b[i]
    BY PrefixType
  <2>2. PICK p \in Seq(T) : p = SubSeq(b, 1, m)
    BY <2>1
  <2>3. QED
    BY <2>1, <2>2
<1>2. /\ a \o c \in Seq(T) /\ Len(a \o c) = Len(a) + Len(c)
      /\ \A i \in 1..Len(a) : (a \o c)[i] = a[i]
      /\ \A i \in 1..Len(c) : (a \o c)[Len(a) + i] = c[i]
  BY JoinedParts
<1>3. Len(Prompt) \in Nat /\ Len(a) = Len(Prompt) + n
  BY DEF Reads
<1>4. Len(a \o c) = Len(Prompt) + (n + m)
  <2>1. PICK p \in Nat : p = Len(Prompt)
    BY <1>3
  <2>2. Len(a \o c) = (p + n) + m
    BY <1>1, <1>2, <1>3, <2>1
  <2>3. QED
    BY <2>1, <2>2
<1>5. \A i \in 1..Len(Prompt) : (a \o c)[i] = Prompt[i]
  <2>1. \A i \in 1..Len(Prompt) : i \in 1..Len(a)
    BY <1>3
  <2>2. QED
    BY <1>2, <2>1 DEF Reads
<1>6. ASSUME NEW i \in 1..(n + m) PROVE (a \o c)[Len(Prompt) + i] = stream[i]
  <2>1. CASE i <= n
    <3>1. i \in 1..n /\ Len(Prompt) + i \in 1..Len(a)
      BY <1>3, <2>1
    <3>2. QED
      BY <1>2, <3>1 DEF Reads
  <2>2. CASE ~(i <= n)
    <3>1. PICK k \in 1..m : i = n + k
      <4>1. i - n \in 1..m /\ i = n + (i - n)
        BY <2>2
      <4>2. QED
        BY <4>1
    <3>2. Len(Prompt) + i = Len(a) + k /\ k \in 1..Len(b)
      BY <1>3, <3>1
    <3>3. (a \o c)[Len(a) + k] = b[k] /\ b[k] = stream[n + k]
      BY <1>1, <1>2, <3>2 DEF Resumes
    <3>4. QED
      BY <3>1, <3>2, <3>3
  <2>3. QED
    BY <2>1, <2>2
<1>7. Reads(a \o c, stream, n + m)
  BY <1>4, <1>5, <1>6 DEF Reads
<1>8. QED
  BY <1>1, <1>2, <1>7

\* As far as the stream is the row's own tokens, it gives what the causal row gives.
LEMMA StreamGives ==
  ASSUME NEW T, Prompt \in Seq(T), NEW tokens \in Seq(T), NEW n \in Nat, n < Len(tokens),
         NEW a \in Seq(T), Reads(a, Stream(tokens), n)
  PROVE  a = Given(tokens, n)
<1>1. n \in 0..Len(tokens) /\ Len(tokens) \in Nat
  OBVIOUS
<1>2. \A i \in 1..n : Stream(tokens)[i] = tokens[i]
  BY <1>1 DEF Stream
<1>3. Reads(a, tokens, n)
  BY <1>2 DEF Reads
<1>4. QED
  BY <1>1, <1>3, GivenReads, ReadsSame

\* Ceiling division.
LEMMA Ceiling ==
  ASSUME NEW longest \in Nat \ {0}, NEW chunk \in Nat \ {0}, NEW chunks, 
         chunks = (longest + chunk - 1) \div chunk
  PROVE  /\ chunks \in Nat \ {0}
         /\ (chunks - 1) * chunk < longest
         /\ longest <= (chunks - 1) * chunk + chunk
<1>1. /\ longest + chunk - 1 \in Nat
      /\ chunks \in Nat
      /\ chunks * chunk <= longest + chunk - 1
      /\ longest + chunk - 1 < chunks * chunk + chunk
  OBVIOUS
<1>2. chunks # 0
  BY <1>1
<1>3. (chunks - 1) * chunk = chunks * chunk - chunk
  BY <1>1
<1>4. chunks * chunk \in Nat
  BY <1>1
<1>5. QED
  BY <1>1, <1>2, <1>3, <1>4

\* Every chunk begins inside the longest row, one chunk after the one before it.
LEMMA Starts ==
  ASSUME NEW longest \in Nat \ {0}, NEW chunk \in Nat \ {0}, NEW chunks \in Nat \ {0},
         (chunks - 1) * chunk < longest, NEW k \in 1..chunks
  PROVE  /\ (k - 1) * chunk \in Nat /\ (k - 1) * chunk < longest
         /\ k # 1 => (k - 1) * chunk = (k - 1 - 1) * chunk + chunk
<1>1. (k - 1) * chunk \in Nat
  OBVIOUS
<1>2. (k - 1) * chunk <= (chunks - 1) * chunk
  <2>1. PICK d \in Nat : chunks - 1 = (k - 1) + d
    <3>1. chunks - k \in Nat /\ chunks - 1 = (k - 1) + (chunks - k)
      OBVIOUS
    <3>2. QED
      BY <3>1
  <2>2. (chunks - 1) * chunk = (k - 1) * chunk + d * chunk
    BY <2>1
  <2>3. d * chunk \in Nat
    OBVIOUS
  <2>4. QED
    BY <1>1, <2>2, <2>3
<1>3. (k - 1) * chunk = (k - 1 - 1) * chunk + chunk
  OBVIOUS
<1>4. (chunks - 1) * chunk \in Nat
  OBVIOUS
<1>5. QED
  BY <1>1, <1>2, <1>3, <1>4

\* The parts ChunkedRow is made of.
Chunks(longest, chunk) == (longest + chunk - 1) \div chunk
Begin(chunk, k) == (k - 1) * chunk
Width(longest, chunk, k) == Min({chunk, longest - (k - 1) * chunk})
End(tokens, longest, chunk, k) == Min({(k - 1) * chunk + Width(longest, chunk, k), Len(tokens)})
Input(tokens, longest, chunk, k) ==
    (IF k = 1 THEN Prompt ELSE << >>) \o Fed(tokens, (k - 1) * chunk, Width(longest, chunk, k))
Target(tokens, longest, chunk, k) ==
    SubSeq(tokens, (k - 1) * chunk + 1, End(tokens, longest, chunk, k))
Context(tokens, longest, chunk, before, k, j) ==
    before \o SubSeq(Input(tokens, longest, chunk, k), 1,
                     Len(Input(tokens, longest, chunk, k)) - Width(longest, chunk, k) + j)
Retained(tokens, longest, chunk, before, k) ==
    [j \in DOMAIN Target(tokens, longest, chunk, k) |->
        Score(Target(tokens, longest, chunk, k)[j], Target(tokens, longest, chunk, k)[j],
              Context(tokens, longest, chunk, before, k, j))]
IsCache(cache, tokens, longest, chunk) ==
    cache = [k \in 1..Chunks(longest, chunk) |->
                IF k = 1 THEN << >> ELSE cache[k - 1] \o Input(tokens, longest, chunk, k - 1)]

TheCache(tokens, longest, chunk) == CHOOSE cache : IsCache(cache, tokens, longest, chunk)
ChunkScores(tokens, longest, chunk, cache) ==
    FlattenSeq([k \in 1..Chunks(longest, chunk) |->
        Retained(tokens, longest, chunk, cache[k], k)])

LEMMA ChunkedParts == \A tokens, longest, chunk :
  ChunkedRow(tokens, longest, chunk) =
      ChunkScores(tokens, longest, chunk, TheCache(tokens, longest, chunk))
BY DEF ChunkedRow, ChunkScores, TheCache, IsCache, Retained, Context, Target, Input, End, Width, Chunks

Asked(T, tokens, longest, chunk) ==
    /\ Pad \in T /\ Prompt \in Seq(T) /\ tokens \in Seq(T) /\ tokens # << >>
    /\ longest \in Nat /\ Len(tokens) <= longest /\ chunk \in Nat \ {0}

\* Where chunk k begins and how wide it is.
ChunkLaw(longest, chunk, chunks, k) ==
    /\ Begin(chunk, k) \in Nat
    /\ Width(longest, chunk, k) \in Nat \ {0}
    /\ k = 1 <=> Begin(chunk, k) = 0
    /\ k = chunks => Begin(chunk, k) + Width(longest, chunk, k) = longest
    /\ k # chunks => Width(longest, chunk, k) = chunk
    /\ k # 1 => /\ Begin(chunk, k) = Begin(chunk, k - 1) + chunk
                /\ Width(longest, chunk, k - 1) = chunk

LEMMA Widths ==
  ASSUME NEW longest \in Nat \ {0}, NEW chunk \in Nat \ {0}
  PROVE  \E chunks \in Nat \ {0} :
            chunks = Chunks(longest, chunk) /\ \A k \in 1..chunks : ChunkLaw(longest, chunk, chunks, k)
<1>1. PICK chunks \in Nat \ {0} :
        /\ chunks = Chunks(longest, chunk)
        /\ (chunks - 1) * chunk < longest
        /\ longest <= (chunks - 1) * chunk + chunk
  BY Ceiling DEF Chunks
<1>2. ASSUME NEW k \in 1..chunks
      PROVE  /\ Begin(chunk, k) \in Nat /\ Begin(chunk, k) < longest
             /\ k # 1 => Begin(chunk, k) = Begin(chunk, k - 1) + chunk
             /\ k = 1 => Begin(chunk, k) = 0
  BY <1>1, <1>2, Starts DEF Begin
<1>3. ASSUME NEW k \in 1..chunks
      PROVE  Width(longest, chunk, k) =
                IF chunk <= longest - Begin(chunk, k) THEN chunk ELSE longest - Begin(chunk, k)
  <2>1. longest - Begin(chunk, k) \in Int
    BY <1>2
  <2>2. Width(longest, chunk, k) = Min({chunk, longest - Begin(chunk, k)})
    BY DEF Width, Begin
  <2>3. QED
    BY <2>1, <2>2, MinTwo
<1>4. ASSUME NEW k \in 1..chunks, k # chunks
      PROVE  Width(longest, chunk, k) = chunk
  <2>1. PICK m \in 1..chunks : m = k + 1
    <3>1. k + 1 \in 1..chunks
      BY <1>4
    <3>2. QED
      BY <3>1
  <2>2. Begin(chunk, m) = Begin(chunk, k) + chunk /\ Begin(chunk, m) < longest
    BY <1>2, <2>1
  <2>3. Begin(chunk, k) \in Nat
    BY <1>2
  <2>4. chunk <= longest - Begin(chunk, k)
    BY <2>2, <2>3
  <2>5. QED
    BY <1>3, <2>4
<1>5. ASSUME NEW k \in 1..chunks, k = chunks
      PROVE  Begin(chunk, k) + Width(longest, chunk, k) = longest
  <2>1. longest <= Begin(chunk, k) + chunk
    BY <1>1, <1>5 DEF Begin
  <2>2. Begin(chunk, k) \in Nat
    BY <1>2
  <2>3. QED
    BY <1>3, <2>1, <2>2
<1>6. ASSUME NEW k \in 1..chunks
      PROVE  Width(longest, chunk, k) \in Nat \ {0}
  <2>1. Begin(chunk, k) \in Nat /\ Begin(chunk, k) < longest
    BY <1>2
  <2>2. QED
    BY <1>3, <2>1
<1>7. ASSUME NEW k \in 1..chunks, k # 1
      PROVE  Begin(chunk, k) # 0 /\ Width(longest, chunk, k - 1) = chunk
  <2>1. PICK m \in 1..chunks : m = k - 1 /\ m # chunks
    BY <1>7
  <2>2. Begin(chunk, k) = Begin(chunk, m) + chunk /\ Begin(chunk, m) \in Nat
    BY <1>2, <1>7, <2>1
  <2>3. Width(longest, chunk, m) = chunk
    BY <1>4, <2>1
  <2>4. QED
    BY <2>1, <2>2, <2>3
<1>8. ASSUME NEW k \in 1..chunks PROVE ChunkLaw(longest, chunk, chunks, k)
  BY <1>2, <1>4, <1>5, <1>6, <1>7 DEF ChunkLaw
<1>9. QED
  BY <1>1, <1>8

LEMMA WholePrefix == \A S : \A s \in Seq(S) : SubSeq(s, 1, Len(s)) = s
<1>1. ASSUME NEW S, NEW s \in Seq(S) PROVE SubSeq(s, 1, Len(s)) = s
  <2>1. Len(s) \in 0..Len(s)
    OBVIOUS
  <2>2. PICK p \in Seq(S) : p = SubSeq(s, 1, Len(s)) /\ Len(p) = Len(s) /\ \A i \in 1..Len(s) : p[i] = s[i]
    BY <2>1, PrefixType
  <2>3. SequencesEqual(p, s)
    BY <2>2 DEF SequencesEqual
  <2>4. QED
    BY <2>2, <2>3, EqualSequences
<1>2. QED
  BY <1>1

\* What a chunk feeds, the prompt ahead of the first.
LEMMA InputResumes ==
  ASSUME NEW T, NEW tokens, NEW longest, NEW chunk, Asked(T, tokens, longest, chunk),
         NEW k \in 1..Chunks(longest, chunk)
  PROVE  /\ Input(tokens, longest, chunk, k) \in Seq(T)
         /\ IF k = 1
            THEN Reads(Input(tokens, longest, chunk, k), Stream(tokens), Width(longest, chunk, k) - 1)
            ELSE /\ Len(Input(tokens, longest, chunk, k)) = Width(longest, chunk, k)
                 /\ Resumes(Input(tokens, longest, chunk, k), Stream(tokens), Begin(chunk, k) - 1)
<1>1. /\ Pad \in T /\ Prompt \in Seq(T) /\ tokens \in Seq(T) /\ tokens # << >>
      /\ longest \in Nat \ {0} /\ chunk \in Nat \ {0}
  BY DEF Asked
<1>2. /\ Begin(chunk, k) \in Nat /\ Width(longest, chunk, k) \in Nat \ {0}
      /\ k = 1 <=> Begin(chunk, k) = 0
  <2>1. PICK chunks \in Nat \ {0} :
          chunks = Chunks(longest, chunk) /\ \A j \in 1..chunks : ChunkLaw(longest, chunk, chunks, j)
    BY <1>1, Widths
  <2>2. ChunkLaw(longest, chunk, chunks, k)
    BY <2>1
  <2>3. QED
    BY <2>2 DEF ChunkLaw
<1>3. PICK fed \in Seq(T) : fed = Fed(tokens, Begin(chunk, k), Width(longest, chunk, k))
  BY <1>1, <1>2, FedResumes
<1>4. /\ Len(fed) = IF k = 1 THEN Width(longest, chunk, k) - 1 ELSE Width(longest, chunk, k)
      /\ Resumes(fed, Stream(tokens), IF k = 1 THEN 0 ELSE Begin(chunk, k) - 1)
  <2>1. /\ Begin(chunk, k) = 0 =>
              Len(fed) = Width(longest, chunk, k) - 1 /\ Resumes(fed, Stream(tokens), 0)
        /\ Begin(chunk, k) # 0 =>
              Len(fed) = Width(longest, chunk, k) /\ Resumes(fed, Stream(tokens), Begin(chunk, k) - 1)
    <3>1. PICK start \in Nat : start = Begin(chunk, k)
      BY <1>2
    <3>2. PICK width \in Nat \ {0} : width = Width(longest, chunk, k)
      BY <1>2
    <3>3. fed = Fed(tokens, start, width)
      BY <1>3, <3>1, <3>2
    <3>4. /\ start = 0 => /\ Len(Fed(tokens, start, width)) = width - 1
                          /\ Resumes(Fed(tokens, start, width), Stream(tokens), 0)
          /\ start # 0 => /\ Len(Fed(tokens, start, width)) = width
                          /\ Resumes(Fed(tokens, start, width), Stream(tokens), start - 1)
      BY <1>1, FedResumes
    <3>5. QED
      BY <3>1, <3>2, <3>3, <3>4
  <2>2. CASE k = 1
    BY <1>2, <2>1, <2>2
  <2>3. CASE k # 1
    BY <1>2, <2>1, <2>3
  <2>4. QED
    BY <2>2, <2>3
<1>5. Input(tokens, longest, chunk, k) = (IF k = 1 THEN Prompt ELSE << >>) \o fed
  BY <1>3 DEF Input, Begin
<1>6. CASE k = 1
  <2>1. PICK n \in Nat : n = Len(fed) /\ n = Width(longest, chunk, k) - 1
    BY <1>2, <1>4, <1>6
  <2>2. SubSeq(fed, 1, n) = fed /\ n \in 0..Len(fed)
    <3>1. SubSeq(fed, 1, Len(fed)) = fed
      BY WholePrefix
    <3>2. QED
      BY <2>1, <3>1
  <2>3. Reads(Prompt, Stream(tokens), 0)
    BY <1>1 DEF Reads
  <2>4. Resumes(fed, Stream(tokens), 0)
    BY <1>4, <1>6
  <2>5. Prompt \o SubSeq(fed, 1, n) \in Seq(T) /\ Reads(Prompt \o SubSeq(fed, 1, n), Stream(tokens), 0 + n)
    BY <1>1, <2>2, <2>3, <2>4, ResumesReads
  <2>6. Input(tokens, longest, chunk, k) = Prompt \o fed /\ 0 + n = n
    BY <1>5, <1>6
  <2>7. Prompt \o fed \in Seq(T) /\ Reads(Prompt \o fed, Stream(tokens), n)
    BY <2>2, <2>5, <2>6
  <2>8. QED
    BY <1>6, <2>1, <2>6, <2>7
<1>7. CASE k # 1
  <2>1. << >> \o fed = fed
    OBVIOUS
  <2>2. QED
    BY <1>3, <1>4, <1>5, <1>7, <2>1
<1>8. QED
  BY <1>6, <1>7

LEMMA CacheExists ==
  ASSUME NEW T, NEW tokens, NEW longest, NEW chunk, Asked(T, tokens, longest, chunk)
  PROVE  \E cache : IsCache(cache, tokens, longest, chunk)
<1>1. PICK n \in Nat : n = Chunks(longest, chunk)
  <2>1. longest \in Nat \ {0} /\ chunk \in Nat \ {0}
    BY DEF Asked
  <2>2. \E n \in Nat \ {0} : n = Chunks(longest, chunk)
    BY <2>1, Widths
  <2>3. QED
    BY <2>2
<1>2. PICK ss \in Seq(Seq(T)) : Len(ss) = n /\ \A k \in 1..n : ss[k] = Input(tokens, longest, chunk, k)
  <2>1. \A k \in 1..n : Input(tokens, longest, chunk, k) \in Seq(T)
    BY <1>1, InputResumes
  <2>2. /\ [k \in 1..n |-> Input(tokens, longest, chunk, k)] \in Seq(Seq(T))
        /\ Len([k \in 1..n |-> Input(tokens, longest, chunk, k)]) = n
    BY <2>1
  <2>3. QED
    BY <2>2
<1>3. PICK g \in [1..n -> Seq(T)] : Joined(g, ss, n)
  BY <1>2, JoinedExists
<1> DEFINE h == [k \in 1..n |-> IF k = 1 THEN << >> ELSE g[k - 1]]
<1>4. ASSUME NEW k \in 1..n
      PROVE  h[k] = IF k = 1 THEN << >> ELSE h[k - 1] \o Input(tokens, longest, chunk, k - 1)
  <2>1. CASE k = 1
    BY <2>1
  <2>2. CASE k # 1
    <3>1. PICK m \in 1..n : m = k - 1
      BY <1>4, <2>2
    <3>2. h[k] = g[m] /\ (m = 1 => h[m] = << >>) /\ (m # 1 => h[m] = g[m - 1])
      BY <2>2, <3>1
    <3> HIDE DEF h
    <3>3. g[m] = IF m = 1 THEN ss[m] ELSE g[m - 1] \o ss[m]
      BY <1>3 DEF Joined
    <3>4. ss[m] = Input(tokens, longest, chunk, m) /\ ss[m] \in Seq(T)
      BY <1>2, PieceType
    <3>5. << >> \o ss[m] = ss[m]
      BY <3>4
    <3>6. h[k] = h[m] \o Input(tokens, longest, chunk, m)
      BY <3>2, <3>3, <3>4, <3>5
    <3>7. QED
      BY <2>2, <3>1, <3>6
  <2>3. QED
    BY <2>1, <2>2
<1>5. h = [k \in 1..n |-> h[k]]
  OBVIOUS
<1> HIDE DEF h
<1>6. h = [k \in 1..n |-> IF k = 1 THEN << >> ELSE h[k - 1] \o Input(tokens, longest, chunk, k - 1)]
  BY <1>4, <1>5, Zenon
<1>7. IsCache(h, tokens, longest, chunk)
  BY <1>1, <1>6 DEF IsCache
<1>8. QED
  BY <1>7

\* The cache ahead of chunk k holds the prompt and the stream up to the last
\* target before it.
CacheLaw(T, tokens, chunk, cache, k) ==
    /\ cache[k] \in Seq(T)
    /\ k = 1 => cache[k] = << >>
    /\ k # 1 => Reads(cache[k], Stream(tokens), Begin(chunk, k) - 1)

\* No chunk feeds a token twice or leaves one out: the first chunk whose cache were
\* wrong would follow from the one before it.
LEMMA CacheHolds ==
  ASSUME NEW T, NEW tokens, NEW longest, NEW chunk, Asked(T, tokens, longest, chunk),
         NEW n \in Nat, n = Chunks(longest, chunk),
         \A k \in 1..n : ChunkLaw(longest, chunk, n, k),
         NEW cache, IsCache(cache, tokens, longest, chunk),
         NEW k \in 1..n
  PROVE  CacheLaw(T, tokens, chunk, cache, k)
<1> DEFINE B == {j \in 1..n : ~CacheLaw(T, tokens, chunk, cache, j)}
<1>1. SUFFICES ASSUME B # {} PROVE FALSE
  OBVIOUS
<1>2. PICK j \in B : \A i \in B : j <= i
  <2>1. B \in SUBSET Nat
    OBVIOUS
  <2>2. QED
    BY <1>1, <2>1, LeastNat
<1>3. j \in 1..n /\ ~CacheLaw(T, tokens, chunk, cache, j)
  OBVIOUS
<1>4. cache[j] = IF j = 1 THEN << >> ELSE cache[j - 1] \o Input(tokens, longest, chunk, j - 1)
  BY <1>3 DEF IsCache
<1>5. CASE j = 1
  BY <1>3, <1>4, <1>5 DEF CacheLaw
<1>6. CASE j # 1
  <2>1. PICK m \in 1..n : m = j - 1 /\ m \notin B
    <3>1. j - 1 \in 1..n /\ j - 1 \notin B
      BY <1>2, <1>3, <1>6
    <3>2. QED
      BY <3>1
  <2>2. CacheLaw(T, tokens, chunk, cache, m)
    BY <2>1
  <2>3. PICK a \in Seq(T) : a = cache[m]
    BY <2>2 DEF CacheLaw
  <2>4. PICK b \in Seq(T) : b = Input(tokens, longest, chunk, m)
    BY InputResumes
  <2>5. cache[j] = a \o b
    BY <1>4, <1>6, <2>1, <2>3, <2>4
  <2>6. PICK width \in Nat \ {0} :
            width = Width(longest, chunk, m) /\ width = chunk
    BY <1>3, <1>6, <2>1 DEF ChunkLaw
  <2>7. PICK start \in Nat : start = Begin(chunk, m)
    BY DEF ChunkLaw
  <2>8. Begin(chunk, j) = start + width /\ (m = 1 <=> start = 0)
    BY <1>3, <1>6, <2>1, <2>6, <2>7 DEF ChunkLaw
  <2>9. Prompt \in Seq(T)
    BY DEF Asked
  <2>10. CASE m = 1
    <3>1. Reads(b, Stream(tokens), width - 1)
      <4>1. Reads(Input(tokens, longest, chunk, m), Stream(tokens), Width(longest, chunk, m) - 1)
        BY <2>10, InputResumes
      <4>2. QED
        BY <2>4, <2>6, <4>1
    <3>2. a = << >>
      BY <2>2, <2>3, <2>10 DEF CacheLaw
    <3>3. a \o b = b
      BY <3>2
    <3>4. Begin(chunk, j) - 1 = width - 1
      BY <2>8, <2>10
    <3>5. QED
      BY <1>3, <1>6, <2>4, <2>5, <3>1, <3>3, <3>4 DEF CacheLaw
  <2>11. CASE m # 1
    <3>1. PICK from \in Nat : from = start - 1
      BY <2>8, <2>11
    <3>2. Len(b) = width /\ Resumes(b, Stream(tokens), from)
      <4>1. /\ Len(Input(tokens, longest, chunk, m)) = Width(longest, chunk, m)
            /\ Resumes(Input(tokens, longest, chunk, m), Stream(tokens), Begin(chunk, m) - 1)
        BY <2>11, InputResumes
      <4>2. QED
        BY <2>4, <2>6, <2>7, <3>1, <4>1
    <3>3. Reads(a, Stream(tokens), from)
      BY <2>2, <2>3, <2>7, <2>11, <3>1 DEF CacheLaw
    <3>4. width \in 0..Len(b) /\ SubSeq(b, 1, width) = b
      <4>1. SubSeq(b, 1, Len(b)) = b
        BY WholePrefix
      <4>2. QED
        BY <3>2, <4>1
    <3>5. a \o b \in Seq(T) /\ Reads(a \o b, Stream(tokens), from + width)
      <4>1. /\ a \o SubSeq(b, 1, width) \in Seq(T)
            /\ Reads(a \o SubSeq(b, 1, width), Stream(tokens), from + width)
        BY <2>9, <3>2, <3>3, <3>4, ResumesReads
      <4>2. QED
        BY <3>4, <4>1
    <3>6. Begin(chunk, j) - 1 = from + width
      BY <2>8, <3>1
    <3>7. QED
      BY <1>3, <1>6, <2>5, <3>5, <3>6 DEF CacheLaw
  <2>12. QED
    BY <2>10, <2>11
<1>7. QED
  BY <1>5, <1>6

\* What the score of target i of chunk k depends on.
LEMMA TargetGiven ==
  ASSUME NEW T, NEW tokens, NEW longest, NEW chunk, Asked(T, tokens, longest, chunk),
         NEW n \in Nat, n = Chunks(longest, chunk), NEW k \in 1..n,
         ChunkLaw(longest, chunk, n, k),
         NEW cache, CacheLaw(T, tokens, chunk, cache, k),
         NEW i \in 1..Width(longest, chunk, k), Begin(chunk, k) + i <= Len(tokens)
  PROVE  Context(tokens, longest, chunk, cache[k], k, i) = Given(tokens, Begin(chunk, k) + i - 1)
<1>1. PICK a \in Seq(T) : a = cache[k]
  BY DEF CacheLaw
<1>2. PICK b \in Seq(T) : b = Input(tokens, longest, chunk, k)
  BY InputResumes
<1>3. PICK width \in Nat \ {0} : width = Width(longest, chunk, k)
  BY DEF ChunkLaw
<1>4. PICK start \in Nat : start = Begin(chunk, k) /\ (k = 1 <=> start = 0)
  BY DEF ChunkLaw
<1>5. tokens \in Seq(T) /\ Prompt \in Seq(T) /\ Len(tokens) \in Nat
  BY DEF Asked
<1>6. i \in 1..width /\ start + i <= Len(tokens)
  BY <1>3, <1>4
<1>7. PICK m \in Nat : m = start + i - 1 /\ m < Len(tokens)
  <2>1. start + i - 1 \in Nat /\ start + i - 1 < Len(tokens)
    BY <1>5, <1>6
  <2>2. QED
    BY <2>1
<1>8. /\ a \o SubSeq(b, 1, Len(b) - width + i) \in Seq(T)
      /\ Reads(a \o SubSeq(b, 1, Len(b) - width + i), Stream(tokens), m)
  <2>1. CASE k = 1
    <3>1. Reads(b, Stream(tokens), width - 1) /\ width - 1 \in Nat
      <4>1. Reads(Input(tokens, longest, chunk, k), Stream(tokens), Width(longest, chunk, k) - 1)
        BY <2>1, InputResumes
      <4>2. QED
        BY <1>2, <1>3, <4>1
    <3>2. m \in 0..(width - 1)
      BY <1>4, <1>6, <1>7, <2>1
    <3>3. Len(b) - width + i = Len(Prompt) + m
      <4>1. Len(Prompt) \in Nat /\ Len(b) = Len(Prompt) + (width - 1)
        BY <1>5, <3>1 DEF Reads
      <4>2. m = i - 1
        BY <1>4, <1>6, <1>7, <2>1
      <4>3. QED
        BY <1>6, <4>1, <4>2
    <3>4. /\ SubSeq(b, 1, Len(Prompt) + m) \in Seq(T)
          /\ Reads(SubSeq(b, 1, Len(Prompt) + m), Stream(tokens), m)
      BY <1>5, <3>1, <3>2, CutReads
    <3>5. a \o SubSeq(b, 1, Len(Prompt) + m) = SubSeq(b, 1, Len(Prompt) + m)
      <4>1. a = << >>
        BY <1>1, <2>1 DEF CacheLaw
      <4>2. QED
        BY <3>4, <4>1
    <3>6. QED
      BY <3>3, <3>4, <3>5
  <2>2. CASE k # 1
    <3>1. PICK from \in Nat : from = start - 1
      BY <1>4, <2>2
    <3>2. Len(b) = width /\ Resumes(b, Stream(tokens), from)
      <4>1. /\ Len(Input(tokens, longest, chunk, k)) = Width(longest, chunk, k)
            /\ Resumes(Input(tokens, longest, chunk, k), Stream(tokens), Begin(chunk, k) - 1)
        BY <2>2, InputResumes
      <4>2. QED
        BY <1>2, <1>3, <1>4, <3>1, <4>1
    <3>3. Reads(a, Stream(tokens), from)
      BY <1>1, <1>4, <2>2, <3>1 DEF CacheLaw
    <3>4. i \in 0..Len(b) /\ Len(b) - width + i = i /\ from + i = m
      BY <1>6, <1>7, <3>1, <3>2
    <3>5. /\ a \o SubSeq(b, 1, i) \in Seq(T)
          /\ Reads(a \o SubSeq(b, 1, i), Stream(tokens), from + i)
      BY <1>5, <3>2, <3>3, <3>4, ResumesReads
    <3>6. QED
      BY <3>4, <3>5
  <2>3. QED
    BY <2>1, <2>2
<1>9. a \o SubSeq(b, 1, Len(b) - width + i) = Given(tokens, m)
  BY <1>5, <1>7, <1>8, StreamGives
<1>10. QED
  BY <1>1, <1>2, <1>3, <1>4, <1>7, <1>9 DEF Context

\* Where the targets of a chunk end.
LEMMA EndOf ==
  ASSUME NEW T, NEW tokens, NEW longest, NEW chunk, Asked(T, tokens, longest, chunk),
         NEW n, NEW k, ChunkLaw(longest, chunk, n, k)
  PROVE  /\ End(tokens, longest, chunk, k) \in 0..Len(tokens)
         /\ End(tokens, longest, chunk, k) =
              IF Begin(chunk, k) + Width(longest, chunk, k) <= Len(tokens)
              THEN Begin(chunk, k) + Width(longest, chunk, k) ELSE Len(tokens)
<1>1. Begin(chunk, k) \in Nat /\ Width(longest, chunk, k) \in Nat
  BY DEF ChunkLaw
<1>2. Len(tokens) \in Nat
  BY DEF Asked
<1>3. PICK last \in Nat : last = Begin(chunk, k) + Width(longest, chunk, k)
  BY <1>1
<1>4. End(tokens, longest, chunk, k) = Min({last, Len(tokens)})
  BY <1>3 DEF End, Begin
<1>5. End(tokens, longest, chunk, k) = IF last <= Len(tokens) THEN last ELSE Len(tokens)
  BY <1>2, <1>4, MinTwo
<1>6. QED
  BY <1>2, <1>3, <1>5

LEMMA SequenceIsFunction == \A S : \A s \in Seq(S) : s = [i \in 1..Len(s) |-> s[i]]
OBVIOUS

\* The logits a chunk retains are the causal scores of its own targets.
LEMMA RetainedIsSlice ==
  ASSUME NEW T, NEW tokens, NEW longest, NEW chunk, Asked(T, tokens, longest, chunk),
         NEW n \in Nat, n = Chunks(longest, chunk), NEW k \in 1..n,
         ChunkLaw(longest, chunk, n, k),
         NEW cache, CacheLaw(T, tokens, chunk, cache, k)
  PROVE  Retained(tokens, longest, chunk, cache[k], k) =
            SubSeq(CausalRow(tokens), Begin(chunk, k) + 1, End(tokens, longest, chunk, k))
<1>1. tokens \in Seq(T) /\ Prompt \in Seq(T) /\ Len(tokens) \in Nat
  BY DEF Asked
<1>2. PICK start \in Nat : start = Begin(chunk, k)
  BY DEF ChunkLaw
<1>3. PICK width \in Nat \ {0} : width = Width(longest, chunk, k)
  BY DEF ChunkLaw
<1>4. PICK end \in 0..Len(tokens) :
        /\ end = End(tokens, longest, chunk, k)
        /\ end <= start + width
  <2>1. /\ End(tokens, longest, chunk, k) \in 0..Len(tokens)
        /\ End(tokens, longest, chunk, k) <= Begin(chunk, k) + Width(longest, chunk, k)
    BY <1>1, <1>2, <1>3, EndOf
  <2>2. QED
    BY <1>2, <1>3, <2>1
<1>5. PICK target \in Seq(T) : target = Target(tokens, longest, chunk, k)
  <2>1. SubSeq(tokens, start + 1, end) \in Seq(T)
    BY <1>1, SliceType
  <2>2. QED
    BY <1>2, <1>4, <2>1 DEF Target, Begin
<1>6. /\ Len(target) = IF start < end THEN end - start ELSE 0
      /\ \A i \in 1..Len(target) : target[i] = tokens[start + i] /\ start + i \in 1..end
  <2>1. target = SubSeq(tokens, start + 1, end)
    BY <1>2, <1>4, <1>5 DEF Target, Begin
  <2>2. QED
    BY <1>1, <2>1, SliceType
<1>7. PICK row \in Seq(Scores(T)) : row = CausalRow(tokens)
  BY <1>1, CausalType
<1>8. /\ Len(row) = Len(tokens)
      /\ \A i \in 1..Len(tokens) : row[i] = Score(tokens[i], tokens[i], Given(tokens, i - 1))
  BY <1>1, <1>7, CausalType
<1>9. PICK slice \in Seq(Scores(T)) : slice = SubSeq(row, start + 1, end)
  <2>1. SubSeq(row, start + 1, end) \in Seq(Scores(T))
    BY <1>4, <1>8, SliceType
  <2>2. QED
    BY <2>1
<1>10. /\ Len(slice) = Len(target)
       /\ \A i \in 1..Len(slice) : slice[i] = row[start + i]
  <2>1. end \in 0..Len(row)
    BY <1>4, <1>8
  <2>2. /\ Len(SubSeq(row, start + 1, end)) = IF start < end THEN end - start ELSE 0
        /\ \A i \in 1..Len(SubSeq(row, start + 1, end)) :
              SubSeq(row, start + 1, end)[i] = row[start + i]
    BY <2>1, SliceType
  <2>3. QED
    BY <1>6, <1>9, <2>2
<1>11. PICK l \in Nat : l = Len(target)
  OBVIOUS
<1>12. ASSUME NEW i \in 1..l
       PROVE  Score(target[i], target[i],
                Context(tokens, longest, chunk, cache[k], k, i))
              = slice[i]
  <2>1. target[i] = tokens[start + i] /\ start + i \in 1..end
    BY <1>6, <1>11
  <2>2. PICK p \in 1..Len(tokens) : p = start + i
    BY <1>1, <2>1
  <2>3. i \in 1..width
    BY <1>4, <2>1
  <2>4. i \in 1..Width(longest, chunk, k) /\ Begin(chunk, k) + i <= Len(tokens)
    BY <1>1, <1>2, <1>3, <2>2, <2>3
  <2>5. Context(tokens, longest, chunk, cache[k], k, i)
          = Given(tokens, Begin(chunk, k) + i - 1)
    BY <2>4, TargetGiven
  <2>6. Begin(chunk, k) + i - 1 = p - 1
    BY <1>2, <2>2
  <2>7. slice[i] = row[p]
    BY <1>10, <1>11, <2>2
  <2>8. row[p] = Score(tokens[p], tokens[p], Given(tokens, p - 1))
    BY <1>8
  <2>9. QED
    BY <2>1, <2>2, <2>5, <2>6, <2>7, <2>8
<1>13. Retained(tokens, longest, chunk, cache[k], k) = [i \in 1..l |-> slice[i]]
  <2>1. DOMAIN target = 1..l
    BY <1>11
  <2>2. Retained(tokens, longest, chunk, cache[k], k) = [i \in 1..l |->
           Score(target[i], target[i],
                Context(tokens, longest, chunk, cache[k], k, i))]
    BY <1>5, <2>1 DEF Retained
  <2>3. QED
    BY <1>12, <2>2, Zenon
<1>14. slice = [i \in 1..l |-> slice[i]]
  <2>1. slice = [i \in 1..Len(slice) |-> slice[i]]
    BY SequenceIsFunction
  <2>2. Len(slice) = l
    BY <1>10, <1>11
  <2>3. QED
    BY <2>1, <2>2
<1>15. QED
  BY <1>2, <1>4, <1>7, <1>9, <1>13, <1>14

\* Where there is nothing to slice it does not matter where the slice begins.
LEMMA SliceBeyond ==
  ASSUME NEW S, NEW s \in Seq(S), NEW a \in Nat, NEW b \in Nat, NEW n \in 0..Len(s),
         a = b \/ (n <= a /\ n <= b)
  PROVE  SubSeq(s, a + 1, n) = SubSeq(s, b + 1, n)
<1>1. CASE a = b
  BY <1>1
<1>2. CASE n <= a /\ n <= b
  <2>1. SubSeq(s, a + 1, n) = << >> /\ SubSeq(s, b + 1, n) = << >>
    BY <1>2
  <2>2. QED
    BY <2>1
<1>3. QED
  BY <1>1, <1>2

\* The chunks of a row, joined, are its causal scores, whatever longer row shares
\* the batch.
LEMMA ChunkedIsCausal ==
  ASSUME NEW T, NEW tokens, NEW longest, NEW chunk, Asked(T, tokens, longest, chunk)
  PROVE  ChunkedRow(tokens, longest, chunk) = CausalRow(tokens)
<1>1. /\ tokens \in Seq(T) /\ Prompt \in Seq(T) /\ Len(tokens) \in Nat \ {0}
      /\ longest \in Nat \ {0} /\ chunk \in Nat \ {0} /\ Len(tokens) <= longest
  BY DEF Asked
<1>2. PICK n \in Nat \ {0} :
        n = Chunks(longest, chunk) /\ \A k \in 1..n : ChunkLaw(longest, chunk, n, k)
  BY <1>1, Widths
<1>3. PICK cache : cache = TheCache(tokens, longest, chunk)
  OBVIOUS
<1>4. IsCache(cache, tokens, longest, chunk)
  <2>1. \E c : IsCache(c, tokens, longest, chunk)
    BY CacheExists
  <2>2. QED
    BY <1>3, <2>1, Zenon DEF TheCache
<1>5. PICK row \in Seq(Scores(T)) : row = CausalRow(tokens) /\ Len(row) = Len(tokens)
  BY <1>1, CausalType
<1> DEFINE ends == [k \in 1..n |-> End(tokens, longest, chunk, k)]
           ss == [k \in 1..n |-> Retained(tokens, longest, chunk, cache[k], k)]
<1>6. ASSUME NEW k \in 1..n
      PROVE  /\ ss[k] = SubSeq(row, Begin(chunk, k) + 1, ends[k])
             /\ ends[k] \in 0..Len(row) /\ ss[k] \in Seq(Scores(T))
  <2>1. ChunkLaw(longest, chunk, n, k) /\ CacheLaw(T, tokens, chunk, cache, k)
    BY <1>2, <1>4, CacheHolds
  <2>2. /\ Retained(tokens, longest, chunk, cache[k], k) =
              SubSeq(row, Begin(chunk, k) + 1, End(tokens, longest, chunk, k))
        /\ End(tokens, longest, chunk, k) \in 0..Len(row)
    BY <1>2, <1>5, <2>1, RetainedIsSlice, EndOf
  <2>3. Begin(chunk, k) \in Nat
    BY <2>1 DEF ChunkLaw
  <2>4. SubSeq(row, Begin(chunk, k) + 1, End(tokens, longest, chunk, k)) \in Seq(Scores(T))
    BY <2>2, <2>3, SliceType
  <2>5. QED
    BY <2>2, <2>4
<1>7. ss \in Seq(Seq(Scores(T))) /\ Len(ss) = n /\ ss # << >>
  <2>1. ss \in [1..n -> Seq(Scores(T))]
    BY <1>6
  <2>2. QED
    BY <2>1
<1>8. ASSUME NEW k \in 1..n
      PROVE  ends[k] = IF Begin(chunk, k) + Width(longest, chunk, k) <= Len(row)
                       THEN Begin(chunk, k) + Width(longest, chunk, k) ELSE Len(row)
  BY <1>2, <1>5, EndOf
<1>9. ChunkedRow(tokens, longest, chunk) = FlattenSeq(ss)
  BY <1>2, <1>3, ChunkedParts DEF ChunkScores
<1> HIDE DEF ends, ss
<1>10. ASSUME NEW k \in 1..n
       PROVE  /\ (IF k = 1 THEN 0 ELSE ends[k - 1]) <= ends[k]
              /\ ss[k] = SubSeq(row, (IF k = 1 THEN 0 ELSE ends[k - 1]) + 1, ends[k])
  <2>1. PICK start \in Nat : start = Begin(chunk, k) /\ (k = 1 <=> start = 0)
    BY <1>2 DEF ChunkLaw
  <2>2. PICK width \in Nat : width = Width(longest, chunk, k)
    BY <1>2 DEF ChunkLaw
  <2>3. PICK end \in 0..Len(row) :
          end = ends[k] /\ end = IF start + width <= Len(row) THEN start + width ELSE Len(row)
    BY <1>6, <1>8, <2>1, <2>2
  <2>4. PICK before \in 0..Len(row) :
          /\ before = IF k = 1 THEN 0 ELSE ends[k - 1]
          /\ before = IF start <= Len(row) THEN start ELSE Len(row)
    <3>1. CASE k = 1
      <4>1. start = 0 /\ 0 \in 0..Len(row)
        BY <2>1, <3>1
      <4>2. QED
        BY <3>1, <4>1
    <3>2. CASE k # 1
      <4>1. PICK m \in 1..n : m = k - 1
        <5>1. k - 1 \in 1..n
          BY <1>10, <3>2
        <5>2. QED
          BY <5>1
      <4>2. start = Begin(chunk, m) + Width(longest, chunk, m)
        BY <1>2, <2>1, <3>2, <4>1 DEF ChunkLaw
      <4>3. ends[m] = IF start <= Len(row) THEN start ELSE Len(row)
        BY <1>8, <4>2
      <4>4. ends[m] \in 0..Len(row)
        BY <1>6
      <4>5. QED
        BY <3>2, <4>1, <4>3, <4>4
    <3>3. QED
      BY <3>1, <3>2
  <2>5. before <= end
    BY <2>3, <2>4
  <2>6. before = start \/ (end <= before /\ end <= start)
    BY <2>3, <2>4
  <2>7. SubSeq(row, start + 1, end) = SubSeq(row, before + 1, end)
    BY <2>6, SliceBeyond
  <2>8. ss[k] = SubSeq(row, start + 1, end)
    BY <1>6, <2>1, <2>3
  <2>9. QED
    BY <2>3, <2>4, <2>5, <2>7, <2>8
<1>11. CutAt(ss, row, ends)
  BY <1>6, <1>7, <1>10 DEF CutAt
<1>12. ends[n] = Len(row)
  <2>1. Begin(chunk, n) + Width(longest, chunk, n) = longest
    BY <1>2 DEF ChunkLaw
  <2>2. QED
    BY <1>1, <1>5, <1>8, <2>1
<1>13. FlattenSeq(ss) = SubSeq(row, 1, Len(row))
  BY <1>7, <1>11, <1>12, FlattenPieces
<1>14. QED
  BY <1>5, <1>9, <1>13, WholePrefix

\* No row is longer than all of them together.
LEMMA LengthsBounded ==
  ASSUME NEW S, NEW rows \in Seq(Seq(S))
  PROVE  \E n \in Nat : \A c \in DOMAIN rows : Len(rows[c]) \in 0..n
<1>1. CASE rows = << >>
  BY <1>1
<1>2. CASE rows # << >>
  <2>1. PICK g \in [1..Len(rows) -> Seq(S)] : Joined(g, rows, Len(rows))
    BY <1>2, Flattened
  <2>2. PICK w \in [1..Len(rows) -> Nat] : CursorLaw(w, rows)
    BY CursorExists
  <2>3. Len(rows) \in Nat /\ Len(rows) \in 1..Len(rows)
    BY <1>2
  <2>4. Placed(g, w, rows, Len(rows))
    BY <2>1, <2>2, <2>3, JoinedPlaced
  <2>5. PICK n \in Nat : n = Len(g[Len(rows)])
    <3>1. g[Len(rows)] \in Seq(S)
      BY <2>3
    <3>2. QED
      BY <3>1
  <2>6. ASSUME NEW c \in 1..Len(rows) PROVE Len(rows[c]) \in 0..n
    <3>1. PICK l \in Nat : l = Len(rows[c])
      BY PieceType
    <3>2. CASE l = 0
      BY <3>1, <3>2
    <3>3. CASE l # 0
      <4>1. l \in 1..Len(rows[c])
        BY <3>1, <3>3
      <4>2. w[c] + l \in 1..n
        BY <2>4, <2>5, <4>1 DEF Placed
      <4>3. PICK at \in Nat : at = w[c]
        OBVIOUS
      <4>4. at + l \in 1..n
        BY <4>2, <4>3
      <4>5. l \in 0..n
        BY <4>4
      <4>6. QED
        BY <3>1, <4>5
    <3>4. QED
      BY <3>2, <3>3
  <2>7. DOMAIN rows = 1..Len(rows)
    OBVIOUS
  <2>8. QED
    BY <2>6, <2>7
<1>3. QED
  BY <1>1, <1>2

\* The longest row of a batch is no shorter than any row in it.
LEMMA LongestBounds ==
  ASSUME NEW S, NEW rows \in Seq(Seq(S)), NEW batch, NEW c \in DOMAIN rows, rows[c] # << >>
  PROVE  Longest(rows, batch, c) \in Nat /\ Len(rows[c]) <= Longest(rows, batch, c)
<1> DEFINE place(d) == Cardinality({e \in 1..(d - 1) : rows[e] # << >>})
           mates == {d \in DOMAIN rows : rows[d] # << >> /\ place(d) \div batch = place(c) \div batch}
           lengths == {Len(rows[d]) : d \in mates}
<1>1. Longest(rows, batch, c) = Max(lengths)
  BY DEF Longest
<1>2. c \in mates
  OBVIOUS
<1>3. mates \subseteq DOMAIN rows
  OBVIOUS
<1> HIDE DEF mates
<1>4. PICK n \in Nat : \A d \in DOMAIN rows : Len(rows[d]) \in 0..n
  BY LengthsBounded
<1>5. lengths \in SUBSET (0..n) /\ Len(rows[c]) \in lengths
  BY <1>2, <1>3, <1>4
<1> HIDE DEF lengths
<1>6. PICK most \in lengths : most = Max(lengths) /\ \A x \in lengths : x <= most
  BY <1>5, MaxOf
<1>7. most \in Nat /\ Len(rows[c]) <= most
  BY <1>5, <1>6
<1>8. QED
  BY <1>1, <1>6, <1>7

-----------------------------------------------------------------------------
(* All rows, in every mode.                                                *)

LEMMA ChunkedRowsAreCausal ==
  ASSUME NEW T, Pad \in T, Prompt \in Seq(T), NEW rows \in Seq(Seq(T)),
         NEW batch, NEW chunk \in Nat \ {0}
  PROVE  ChunkedRows(rows, batch, chunk) = [c \in DOMAIN rows |-> CausalRow(rows[c])]
<1>1. ASSUME NEW c \in DOMAIN rows
      PROVE  (IF rows[c] = << >> THEN << >>
              ELSE ChunkedRow(rows[c], Longest(rows, batch, c), chunk)) = CausalRow(rows[c])
  <2>1. rows[c] \in Seq(T)
    BY ElementType
  <2>2. CASE rows[c] = << >>
    <3>1. CausalRow(<< >>) = << >>
      BY DEF CausalRow
    <3>2. QED
      BY <2>2, <3>1
  <2>3. CASE rows[c] # << >>
    <3>1. Asked(T, rows[c], Longest(rows, batch, c), chunk)
      BY <2>1, <2>3, LongestBounds DEF Asked
    <3>2. QED
      BY <2>3, <3>1, ChunkedIsCausal
  <2>4. QED
    BY <2>2, <2>3
<1>2. QED
  BY <1>1, Zenon DEF ChunkedRows

\* Every scoring mode reports the causal scores.
LEMMA RowsAreCausal ==
  ASSUME NEW T, Pad \in T, Prompt \in Seq(T), NEW rows \in Seq(Seq(T)),
         NEW setting, setting.mode \in Modes, setting.chunk \in Nat \ {0}
  PROVE  Rows(setting, rows) = [c \in DOMAIN rows |-> CausalRow(rows[c])]
<1>1. \A c \in DOMAIN rows : rows[c] \in Seq(T)
  BY ElementType
<1>2. CASE setting.mode = "tokenwise"
  <2>1. Rows(setting, rows) = [c \in DOMAIN rows |-> TokenwiseRow(rows[c])]
    BY <1>2 DEF Rows
  <2>2. \A c \in DOMAIN rows : TokenwiseRow(rows[c]) = CausalRow(rows[c])
    BY <1>1, TokenwiseIsCausal
  <2>3. QED
    BY <2>1, <2>2, Zenon
<1>3. CASE setting.mode = "tokenwise_deferred"
  <2>1. Rows(setting, rows) = DeferredRows(rows)
    BY <1>3 DEF Rows
  <2>2. QED
    BY <2>1, DeferredIsCausal
<1>4. CASE setting.mode = "candidate_chunks"
  <2>1. Rows(setting, rows) = ChunkedRows(rows, setting.batch, setting.chunk)
    BY <1>4 DEF Rows
  <2>2. QED
    BY <2>1, ChunkedRowsAreCausal
<1>5. CASE setting.mode = "full_prefix"
  <2>1. Rows(setting, rows) = [c \in DOMAIN rows |-> FullPrefixRow(rows[c])]
    BY <1>5 DEF Rows
  <2>2. \A c \in DOMAIN rows : FullPrefixRow(rows[c]) = CausalRow(rows[c])
    BY <1>1, FullPrefixIsCausal
  <2>3. QED
    BY <2>1, <2>2, Zenon
<1>6. QED
  BY <1>2, <1>3, <1>4, <1>5 DEF Modes

-----------------------------------------------------------------------------
(* What of a generated row is scored.                                      *)

\* FirstEos is the first EOS, or the end of a row without one.
LEMMA FirstEosPlace ==
  ASSUME NEW T, NEW row \in Seq(T)
  PROVE  /\ FirstEos(row) \in 0..Len(row)
         /\ \A i \in 1..Len(row) : row[i] = Eos => FirstEos(row) <= i
         /\ FirstEos(row) # Len(row) => FirstEos(row) \in 1..Len(row) /\ row[FirstEos(row)] = Eos
<1> DEFINE stops == {i \in DOMAIN row : row[i] = Eos} \cup {Len(row)}
<1>1. DOMAIN row = 1..Len(row) /\ Len(row) \in Nat
  OBVIOUS
<1>2. stops \in SUBSET Nat /\ stops # {} /\ Len(row) \in stops
  BY <1>1
<1>3. \A i \in 1..Len(row) : row[i] = Eos => i \in stops
  BY <1>1
<1>4. \A i \in stops : i # Len(row) => i \in 1..Len(row) /\ row[i] = Eos
  BY <1>1
<1>5. FirstEos(row) = Min(stops)
  BY DEF FirstEos
<1> HIDE DEF stops
<1>6. PICK first \in stops : first = Min(stops) /\ \A x \in stops : first <= x
  BY <1>2, MinOf
<1>7. first \in 0..Len(row)
  BY <1>1, <1>2, <1>6
<1>8. \A i \in 1..Len(row) : row[i] = Eos => first <= i
  BY <1>3, <1>6
<1>9. first # Len(row) => first \in 1..Len(row) /\ row[first] = Eos
  BY <1>4
<1>10. QED
  BY <1>5, <1>6, <1>7, <1>8, <1>9

\* Cutting at the first EOS keeps every decision and nothing after it.
LEMMA TrimmedIsUpto ==
  ASSUME NEW T, NEW row \in Seq(T)
  PROVE  Trimmed(row) = Upto(row) /\ Trimmed(row) \in Seq(T)
<1> DEFINE clear == {k \in 0..Len(row) : \A i \in 1..(k - 1) : row[i] # Eos}
<1>1. PICK first \in 0..Len(row) :
        /\ first = FirstEos(row)
        /\ \A i \in 1..Len(row) : row[i] = Eos => first <= i
        /\ first # Len(row) => first \in 1..Len(row) /\ row[first] = Eos
  BY FirstEosPlace
<1>2. Len(row) \in Nat
  OBVIOUS
<1>3. first \in clear
  BY <1>1, <1>2
<1>4. \A k \in clear : k <= first
  <2>1. SUFFICES ASSUME NEW k \in clear, ~(k <= first) PROVE FALSE
    OBVIOUS
  <2>2. k \in 0..Len(row) /\ first # Len(row)
    BY <1>2, <2>1
  <2>3. first \in 1..(k - 1) /\ row[first] = Eos
    BY <1>1, <1>2, <2>1, <2>2
  <2>4. QED
    BY <2>3
<1>5. clear \in SUBSET (0..Len(row))
  OBVIOUS
<1>6. Upto(row) = SubSeq(row, 1, Max(clear))
  BY DEF Upto
<1> HIDE DEF clear
<1>7. PICK most \in clear : most = Max(clear) /\ \A x \in clear : x <= most
  BY <1>2, <1>3, <1>5, MaxOf
<1>8. Max(clear) = first
  <2>1. most \in 0..Len(row) /\ most <= first /\ first <= most
    BY <1>3, <1>4, <1>5, <1>7
  <2>2. most = first
    BY <1>2, <2>1
  <2>3. QED
    BY <1>7, <2>2
<1>9. SubSeq(row, 1, first) \in Seq(T)
  BY PrefixType
<1>10. QED
  BY <1>1, <1>6, <1>8, <1>9 DEF Trimmed

LEMMA StrippedType ==
  ASSUME NEW T, NEW row \in Seq(T)
  PROVE  Stripped(row) \in Seq(T)
<1> DEFINE text == {i \in DOMAIN row : row[i] # Space}
<1>1. DOMAIN row = 1..Len(row) /\ Len(row) \in Nat
  OBVIOUS
<1>2. text \in SUBSET (1..Len(row)) /\ text \in SUBSET (0..Len(row)) /\ text \in SUBSET Nat
  BY <1>1
<1>3. Stripped(row) = IF text = {} THEN << >> ELSE SubSeq(row, Min(text), Max(text))
  BY DEF Stripped
<1> HIDE DEF text
<1>4. CASE text = {}
  BY <1>3, <1>4
<1>5. CASE text # {}
  <2>1. Min(text) \in text /\ Max(text) \in text
    BY <1>1, <1>2, <1>5, MinOf, MaxOf
  <2>2. PICK m \in Nat : Min(text) = m + 1
    <3>1. PICK least \in 1..Len(row) : least = Min(text)
      BY <1>2, <2>1
    <3>2. least - 1 \in Nat /\ least = (least - 1) + 1
      BY <1>1
    <3>3. QED
      BY <3>1, <3>2
  <2>3. PICK n \in 0..Len(row) : n = Max(text)
    BY <1>2, <2>1
  <2>4. SubSeq(row, m + 1, n) \in Seq(T)
    BY SliceType
  <2>5. QED
    BY <1>3, <1>5, <2>2, <2>3, <2>4
<1>6. QED
  BY <1>4, <1>5

LEMMA KeptType ==
  ASSUME NEW T, NEW setting, NEW row \in Seq(T)
  PROVE  /\ Kept(setting, row) \in Seq(T)
         /\ Kept(setting, row) = IF setting.mode = "full_prefix"
                                THEN Stripped(Without(Upto(row), Eos)) ELSE Upto(row)
<1>1. PICK kept \in Seq(T) : kept = Trimmed(row) /\ kept = Upto(row)
  BY TrimmedIsUpto
<1>2. Without(kept, Eos) \in Seq(T)
  BY WithoutType
<1>3. Stripped(Without(kept, Eos)) \in Seq(T)
  BY <1>2, StrippedType
<1>4. QED
  BY <1>1, <1>3 DEF Kept

\* The tokens of a causal row are the row it scores.
LEMMA CausalTokens ==
  ASSUME NEW T, Prompt \in Seq(T), NEW tokens \in Seq(T)
  PROVE  [i \in DOMAIN CausalRow(tokens) |-> CausalRow(tokens)[i].token] = tokens
<1>1. PICK row \in Seq(Scores(T)) :
        /\ row = CausalRow(tokens) /\ Len(row) = Len(tokens)
        /\ \A i \in DOMAIN tokens : row[i].token = tokens[i]
  BY CausalType
<1>2. DOMAIN row = 1..Len(tokens) /\ DOMAIN tokens = 1..Len(tokens)
  BY <1>1
<1>3. tokens = [i \in 1..Len(tokens) |-> tokens[i]]
  BY SequenceIsFunction
<1>4. [i \in 1..Len(tokens) |-> row[i].token] = [i \in 1..Len(tokens) |-> tokens[i]]
  BY <1>1, <1>2, Zenon
<1>5. QED
  BY <1>1, <1>2, <1>3, <1>4

-----------------------------------------------------------------------------
(* The answers of a call.                                                  *)

\* What a policy call has to answer when generate returns these rows.
Scored(rows) == [c \in DOMAIN rows |-> CausalRow(Kept(config, rows[c]))]

\* A policy or value call keeps its session's adapter active, and answers from
\* the rows it generated.
Asking == call.op \in {"policy", "value"}
AnswerInv ==
    /\ config \in Configs
    /\ Asking => shared.active = call.s
    /\ Asking /\ call.pc = "generated" => call.rows \in Answers
    /\ Asking /\ call.pc = "answered" => call.origin = call.s
    /\ call.op = "policy" /\ call.pc = "answered" =>
        \E rows \in Answers : call.rows = Scored(rows)

\* Decoding and trimming give rows of tokens, and every mode scores them causally.
LEMMA RowsScored ==
  ASSUME config \in Configs, NEW rows \in Answers
  PROVE  Rows(config, [c \in DOMAIN rows |-> Kept(config, rows[c])]) = Scored(rows)
<1>1. rows \in Seq(Seq(Tokens))
  BY RequestAssumption
<1>2. PICK kept \in Seq(Seq(Tokens)) :
        /\ kept = [c \in DOMAIN rows |-> Kept(config, rows[c])]
        /\ DOMAIN kept = DOMAIN rows
        /\ \A c \in DOMAIN rows : kept[c] = Kept(config, rows[c])
  <2>1. DOMAIN rows = 1..Len(rows) /\ Len(rows) \in Nat
    BY <1>1
  <2>2. \A c \in DOMAIN rows : Kept(config, rows[c]) \in Seq(Tokens)
    BY <1>1, ElementType, KeptType
  <2>3. [c \in DOMAIN rows |-> Kept(config, rows[c])] \in Seq(Seq(Tokens))
    BY <2>1, <2>2
  <2>4. QED
    BY <2>3
<1>3. config.mode \in Modes /\ config.chunk \in Nat \ {0}
  BY RequestAssumption
<1>4. Rows(config, kept) = [c \in DOMAIN kept |-> CausalRow(kept[c])]
  BY <1>3, ScoringAssumption, RowsAreCausal
<1>5. [c \in DOMAIN kept |-> CausalRow(kept[c])] = Scored(rows)
  BY <1>2, Zenon DEF Scored
<1>6. QED
  BY <1>2, <1>4, <1>5

\* No other call answers.
LEMMA QuietCall == ASSUME AnswerInv, config' = config, ~Asking' PROVE AnswerInv'
BY DEF AnswerInv, Asking

LEMMA QuietEnds == ASSUME Ends PROVE ~Asking'
BY Ended DEF Asking

LEMMA QuietGoes == ASSUME IInv, ~Asking, NEW pc, GoTo(pc) PROVE ~Asking'
BY Continues DEF Asking, IInv

LEMMA QuietStays == ASSUME ~Asking, UNCHANGED call PROVE ~Asking'
BY DEF Asking

LEMMA QuietIdle == Idle => ~Asking
BY DEF Idle, Asking

LEMMA AskingStep ==
  ASSUME IInv, AnswerInv, NEW s \in Sessions, Ask("policy", s) \/ Ask("value", s)
  PROVE  AnswerInv'
<1>1. PICK op \in {"policy", "value"} : Ask(op, s)
  OBVIOUS
<1>2. Idle /\ DOMAIN shared = SharedFields /\ op \in DOMAIN Places
  BY <1>1, AtIdle DEF Ask, Places
<1>3. call'.op = op /\ call'.s = s /\ call'.pc = "begun"
  BY <1>1, <1>2, Started DEF Ask
<1>4. shared'.active = s /\ config' = config
  BY <1>1, <1>2 DEF Ask, Activate, SharedFields
<1>5. QED
  BY <1>3, <1>4 DEF AnswerInv, Asking

\* The steps of policy and value.
LEMMA AnsweringSteps ==
  ASSUME IInv, AnswerInv, Generate \/ ScoreRows \/ Forward \/ ReadValue
  PROVE  AnswerInv'
<1>1. Asking /\ DOMAIN call = CallFields /\ DOMAIN shared = SharedFields /\ config' = config
  BY DEF Generate, ScoreRows, Forward, ReadValue, At, IInv, TypeOK, Asking
<1>2. shared.active = call.s /\ config \in Configs
  BY <1>1 DEF AnswerInv
<1>3. shared'.active = shared.active
  BY <1>1 DEF Generate, ScoreRows, Forward, ReadValue, Unwound, SharedFields
<1>4. CASE Generate
  <2>1. PICK rows \in Answers : call' = [call EXCEPT !.pc = "generated", !.rows = rows]
    BY <1>4 DEF Generate
  <2>2. call'.op = call.op /\ call'.s = call.s /\ call'.pc = "generated" /\ call'.rows = rows
    BY <1>1, <2>1 DEF CallFields
  <2>3. QED
    BY <1>1, <1>2, <1>3, <2>2 DEF AnswerInv, Asking
<1>5. CASE ScoreRows
  <2>1. call.op = "policy" /\ call.pc = "generated"
    BY <1>5 DEF ScoreRows, At
  <2>2. PICK rows \in Answers : rows = call.rows
    BY <1>1, <2>1 DEF AnswerInv
  <2>3. call' = [call EXCEPT !.pc = "answered", !.origin = shared.active,
                             !.rows = Rows(config, [c \in DOMAIN rows |-> Kept(config, rows[c])])]
    BY <1>5, <2>2 DEF ScoreRows
  <2>4. call' = [call EXCEPT !.pc = "answered", !.origin = shared.active, !.rows = Scored(rows)]
    BY <1>2, <2>3, RowsScored
  <2>5. /\ call'.op = call.op /\ call'.s = call.s /\ call'.pc = "answered"
        /\ call'.origin = shared.active /\ call'.rows = Scored(rows)
    BY <1>1, <2>4 DEF CallFields
  <2>6. Scored(rows)' = Scored(rows)
    BY <1>1 DEF Scored
  <2>7. QED
    BY <1>1, <1>2, <1>3, <2>5, <2>6 DEF AnswerInv, Asking
<1>6. CASE Forward
  <2>1. call'.op = "value" /\ call'.s = call.s /\ call'.pc = "valued"
    BY <1>6, Continues DEF Forward, At, IInv
  <2>2. QED
    BY <1>1, <1>2, <1>3, <2>1 DEF AnswerInv, Asking
<1>7. CASE ReadValue
  <2>1. /\ call'.op = "value" /\ call'.s = call.s /\ call'.pc = "answered"
        /\ call'.origin = shared.active
    BY <1>1, <1>7 DEF ReadValue, At, CallFields
  <2>2. QED
    BY <1>1, <1>2, <1>3, <2>1 DEF AnswerInv, Asking
<1>8. QED
  BY <1>4, <1>5, <1>6, <1>7

\* Every other step leaves no answer behind.
LEMMA QuietSteps ==
  ASSUME IInv, Next,
         ~ \E s \in Sessions : Ask("policy", s) \/ Ask("value", s),
         ~(Generate \/ ScoreRows \/ Forward \/ ReadValue)
  PROVE  ~Asking' /\ config' = config
<1>1. ASSUME NEW s \in Sessions, Learn(s) \/ Restore(s) PROVE ~Asking' /\ config' = config
  BY <1>1 DEF Learn, Restore, Start, Asking
<1>2. ASSUME NEW s \in Sessions, Save(s) \/ Delete(s) PROVE ~Asking' /\ config' = config
  BY <1>2, QuietIdle, QuietStays DEF Save, Delete
<1>3. ASSUME NEW s \in Sessions, NEW o \in Origins, Create(s, o) PROVE ~Asking' /\ config' = config
  BY <1>3 DEF Create, Start, Asking
<1>4. CASE Return \/ AskFails \/ LearnReturns \/ Imported \/ Rollback \/ CreateReturns \/ Initialize
  BY <1>4, QuietEnds DEF Return, AskFails, LearnReturns, Imported, Rollback, CreateReturns, Initialize
<1>5. CASE RollbackStops \/ AllocateFails \/ BuildFails \/ ReplaceFails \/ InitializeFails
  BY <1>5, QuietEnds DEF RollbackStops, AllocateFails, BuildFails, ReplaceFails, InitializeFails,
     EndsWithheld, Cleanup
<1>6. CASE EnterTraining \/ Step \/ Commit \/ StepTears \/ LearnRaises
  <2>1. ~Asking /\ config' = config
    BY <1>6 DEF EnterTraining, Step, Commit, StepTears, LearnRaises, At, Asking
  <2>2. QED
    BY <1>6, <2>1, QuietGoes DEF EnterTraining, Step, Commit, StepTears, LearnRaises
<1>7. CASE ImportStops \/ Allocate \/ Build \/ Replace
  <2>1. ~Asking /\ config' = config
    BY <1>7 DEF ImportStops, Allocate, Build, Replace, At, Asking
  <2>2. QED
    BY <1>7, <2>1, QuietGoes DEF ImportStops, Allocate, Build, Replace
<1>8. CASE EnterReference \/ LeaveReference
  <2>1. ~Asking
    BY <1>8 DEF EnterReference, LeaveReference, At, IInv, SharedInv, InTraining, Asking
  <2>2. QED
    BY <1>8, <2>1, QuietStays DEF EnterReference, LeaveReference
<1>9. QED
  BY <1>1, <1>2, <1>3, <1>4, <1>5, <1>6, <1>7, <1>8 DEF Next

LEMMA AnswerInvInit == Init => AnswerInv
BY DEF Init, NoCall, AnswerInv, Asking

LEMMA AnswerInvStep == IInv /\ AnswerInv /\ [Next]_vars => AnswerInv'
<1> SUFFICES ASSUME IInv, AnswerInv, [Next]_vars PROVE AnswerInv'
  OBVIOUS
<1>1. CASE UNCHANGED vars
  BY <1>1 DEF vars, AnswerInv, Asking, Scored
<1>2. CASE Next
  BY <1>2, AskingStep, AnsweringSteps, QuietSteps, QuietCall
<1>3. QED
  BY <1>1, <1>2

LEMMA AnswersOwn == IInv /\ AnswerInv => AnswersAreOwn
<1> SUFFICES ASSUME IInv, AnswerInv, ~Idle, call.pc = "answered"
             PROVE  /\ call.origin = call.s
                    /\ call.op = "policy" => \A c \in DOMAIN call.rows :
                        LET tokens == [i \in DOMAIN call.rows[c] |-> call.rows[c][i].token]
                        IN  /\ call.rows[c] = CausalRow(tokens)
                            /\ \E rows \in Answers : c \in DOMAIN rows /\ tokens = Decided(rows[c])
  BY DEF AnswersAreOwn
<1>1. call.origin = call.s
  BY CallTypes DEF IInv, AnswerInv, Asking
<1>2. ASSUME call.op = "policy", NEW c \in DOMAIN call.rows
      PROVE  LET tokens == [i \in DOMAIN call.rows[c] |-> call.rows[c][i].token]
             IN  /\ call.rows[c] = CausalRow(tokens)
                 /\ \E rows \in Answers : c \in DOMAIN rows /\ tokens = Decided(rows[c])
  <2>1. PICK rows \in Answers : call.rows = Scored(rows)
    BY <1>2 DEF AnswerInv
  <2>2. c \in DOMAIN rows /\ call.rows[c] = CausalRow(Kept(config, rows[c]))
    BY <1>2, <2>1 DEF Scored
  <2>3. rows[c] \in Seq(Tokens)
    BY <2>2, RequestAssumption, ElementType
  <2>4. PICK tokens \in Seq(Tokens) : tokens = Kept(config, rows[c]) /\ tokens = Decided(rows[c])
    BY <2>3, KeptType DEF Decided
  <2>5. [i \in DOMAIN CausalRow(tokens) |-> CausalRow(tokens)[i].token] = tokens
    BY ScoringAssumption, CausalTokens
  <2>6. [i \in DOMAIN call.rows[c] |-> call.rows[c][i].token] = tokens
    BY <2>2, <2>4, <2>5
  <2>7. QED
    BY <2>2, <2>4, <2>6
<1>3. QED
  BY <1>1, <1>2

\* In every scoring mode, for any batch of generated rows and any chunk width,
\* every score is that of its own token after the prompt and the tokens before
\* it, and an answer is computed with the adapter of the session that asked
\* (real_backend.py:279-541, qwen35_backend.py:308-371).
THEOREM AnswersSafe == Spec => []AnswersAreOwn
<1>1. Spec => []AnswerInv
  BY Inductive, AnswerInvInit, AnswerInvStep, PTL DEF Spec
<1>2. QED
  BY <1>1, Inductive, AnswersOwn, PTL
=============================================================================
