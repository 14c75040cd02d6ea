-------------------------------- MODULE Device --------------------------------
(***************************************************************************)
(* The calls of one work item inside the tensor backends, step by step     *)
(* (gpu/gpu_runtime/real_backend.py, search_backend.py,                    *)
(* success_finalize_backend.py, verified_backend.py,                       *)
(* categorical_search_backend.py and the calls runtime.py makes).          *)
(*                                                                         *)
(* All sessions share one PEFT model: its active adapter, its cache and    *)
(* training switches, the disable_adapter context, the process-wide random *)
(* stream and the gradients of its parameters.  A call changes them one    *)
(* after the other and may raise after each.  Module Runtime takes every   *)
(* call as one action with a few outcomes; this module shows that the      *)
(* calls have no other outcome.                                            *)
(*                                                                         *)
(* Tensors are abstracted to where they came from and the optimizer steps  *)
(* they have absorbed.  PEFT and torch are external.                       *)
(***************************************************************************)
EXTENDS Scoring, FiniteSets

CONSTANTS
    Sessions,
    Configs,      \* profile, scoring mode, candidate batch and token chunk
    Answers,      \* the rows generate may return for one request
    None, Torn,   \* absent, partly overwritten
    MaxUpdates,   \* bound on optimizer steps
    MaxDraws,     \* bound on the transactions after those of create
    MaxSaved      \* bound on the images of a session on disk

Profiles == {"real", "search", "verified", "categorical"}
Origins  == {"fresh", "published"}
Host     == "host"

WeightStates  == [from : Origins, updates : Nat]
SessionStates == [made : Nat, owns : Nat, head : WeightStates,
                  moments : Nat, steps : Nat, draws : Nat]

\* Absent and torn are told from each other and from every real value.
ASSUME DeviceAssumption == /\ None \notin SessionStates \cup WeightStates
                           /\ Torn \notin WeightStates \cup {None}

\* PolicyScoringConfig refuses any other mode and a chunk of no tokens, full_prefix
\* is the Qwen backend; generate returns rows of tokens.
Modes == {"tokenwise", "tokenwise_deferred", "candidate_chunks", "full_prefix"}
ASSUME RequestAssumption == /\ \A c \in Configs : c.mode \in Modes /\ c.chunk \in Nat \ {0}
                            /\ Answers \subseteq Seq(Seq(Tokens))

Weights(o, n) == [from |-> o, updates |-> n]

VARIABLES
    config,       \* the backend's class and policy_scoring
    adapter,      \* LoRA parameters in the model, by adapter name
    session,      \* RealProverBackend.sessions
    withheld,     \* slots the runtime counts but serves no more
    saved,        \* exported images on disk
    shared,       \* what all sessions share in the model and the process
    call          \* the work item in progress

vars == <<config, adapter, session, withheld, saved, shared, call>>

Served(s) == session[s] # None /\ s \notin withheld
Idle == call.op = "none"
NoCall == [op |-> "none", s |-> None, pc |-> "none", origin |-> None, rows |-> << >>,
           cache |-> TRUE, image |-> None]

\* export_session: the payload; value head and optimizer objects stay behind.
Image(s) == [adapter |-> adapter[s], head |-> session[s].head,
             moments |-> session[s].moments, steps |-> session[s].steps,
             draws |-> session[s].draws]

\* A session after its first transaction on the private stream.
Fresh == [made |-> 1, owns |-> 1, head |-> Weights("fresh", 0),
          moments |-> 0, steps |-> 0, draws |-> 1]

AdapterOf(s) == [kind |-> "adapter", of |-> s, made |-> 0]
HeadOf(s, k) == [kind |-> "head", of |-> s, made |-> k]
Owned(s) == {AdapterOf(s), HeadOf(s, session[s].owns)}

AtRest(m) == m.cache /\ ~m.training /\ ~m.disabled /\ m.rng = Host /\ m.grads = {}

Init ==
    /\ config \in Configs
    /\ adapter = [s \in Sessions |-> None]
    /\ session = [s \in Sessions |-> None]
    /\ withheld = {}
    /\ saved = [s \in Sessions |-> {}]
    /\ shared = [active |-> None, cache |-> TRUE, training |-> FALSE,
                 disabled |-> FALSE, rng |-> Host, grads |-> {}]
    /\ call = NoCall

-----------------------------------------------------------------------------
(* Steps the calls share.                                                  *)

Activate(m, s) == [m EXCEPT !.active = s]

Start(op, s, origin) ==
    call' = [op |-> op, s |-> s, pc |-> "begun", origin |-> origin, rows |-> << >>,
             cache |-> shared.cache, image |-> IF session[s] = None THEN None ELSE Image(s)]

At(op, pc) == ~Idle /\ call.op = op /\ call.pc = pc
GoTo(pc) == call' = [call EXCEPT !.pc = pc]
Ends == call' = NoCall
EndsWithheld == Ends /\ withheld' = withheld \cup {call.s}

\* Leaving _session_rng: the outside stream comes back either way, the private
\* one is committed only when nothing was raised.
Committed(r) == [r EXCEPT !.draws = @ + 1]
Unwound == [shared EXCEPT !.rng = Host]

\* load_state_dict part after part; the objects themselves stay.
ImportedParts(r, image, k) ==
    [r EXCEPT !.head = IF k >= 2 THEN image.head ELSE @,
              !.moments = IF k >= 3 THEN image.moments ELSE @,
              !.steps = IF k >= 4 THEN image.steps ELSE @,
              !.draws = IF k >= 4 THEN image.draws ELSE @]

Import(image, k) ==
    /\ adapter' = [adapter EXCEPT ![call.s] = IF k >= 1 THEN image.adapter ELSE @]
    /\ session' = [session EXCEPT ![call.s] = ImportedParts(@, image, k)]
    /\ shared' = Activate(shared, call.s)

-----------------------------------------------------------------------------
(* Policy and value.                                                       *)

MayDraw(s) == session[s].draws < session[s].made + MaxDraws

Ask(op, s) ==
    /\ Idle /\ Served(s) /\ MayDraw(s)
    /\ Start(op, s, None)
    /\ shared' = [Activate(shared, s) EXCEPT !.training = FALSE]
    /\ UNCHANGED <<config, adapter, session, withheld, saved>>

Generate ==
    /\ At("policy", "begun")
    /\ \E rows \in Answers : call' = [call EXCEPT !.pc = "generated", !.rows = rows]
    /\ shared' = [shared EXCEPT !.rng = call.s]
    /\ UNCHANGED <<config, adapter, session, withheld, saved>>

\* The scores of a row name the adapter they were computed with.
ScoreRows ==
    /\ At("policy", "generated")
    /\ \A c \in DOMAIN call.rows : WellEnded(call.rows[c])
    /\ LET kept == [c \in DOMAIN call.rows |-> Kept(config, call.rows[c])]
       IN  call' = [call EXCEPT !.pc = "answered", !.origin = shared.active,
                                !.rows = Rows(config, kept)]
    /\ session' = [session EXCEPT ![call.s] = Committed(@)]
    /\ shared' = Unwound
    /\ UNCHANGED <<config, adapter, withheld, saved>>

\* Only the verified profile draws for a value.
Forward ==
    /\ At("value", "begun")
    /\ GoTo("valued")
    /\ shared' = [shared EXCEPT !.rng = IF config.profile = "verified" THEN call.s ELSE @]
    /\ UNCHANGED <<config, adapter, session, withheld, saved>>

ReadValue ==
    /\ At("value", "valued")
    /\ call' = [call EXCEPT !.pc = "answered", !.origin = shared.active]
    /\ session' = IF config.profile = "verified"
                  THEN [session EXCEPT ![call.s] = Committed(@)] ELSE session
    /\ shared' = Unwound
    /\ UNCHANGED <<config, adapter, withheld, saved>>

Return ==
    /\ At("policy", "answered") \/ At("value", "answered")
    /\ Ends
    /\ UNCHANGED <<config, adapter, session, withheld, saved, shared>>

AskFailsCommitted ==
    /\ ~Idle /\ call.op \in {"policy", "value"} /\ call.pc # "answered"
    /\ Ends
    /\ session' = [session EXCEPT ![call.s] = Committed(@)]
    /\ shared' = Unwound
    /\ UNCHANGED <<config, adapter, withheld, saved>>
AskFails ==
    /\ ~Idle /\ call.op \in {"policy", "value"} /\ call.pc # "answered"
    /\ Ends
    /\ shared' = Unwound
    /\ UNCHANGED <<config, adapter, session, withheld, saved>>

-----------------------------------------------------------------------------
(* Learn: the four loops differ in what they check and draw, not in order. *)

Legacy == config.profile = "real"

Learn(s) ==
    /\ Idle /\ Served(s) /\ session[s].steps < MaxUpdates /\ MayDraw(s)
    /\ Start("learn", s, None)
    /\ shared' = Activate(shared, s)
    /\ UNCHANGED <<config, adapter, session, withheld, saved>>

ScopeAsserted(s) == session[s].owns = session[s].made

EnterTraining ==
    /\ At("learn", "begun") /\ (Legacy \/ ScopeAsserted(call.s))
    /\ GoTo("losses")
    /\ shared' = [shared EXCEPT !.grads = @ \ Owned(call.s), !.cache = FALSE, !.training = TRUE,
                                !.rng = IF Legacy THEN @ ELSE call.s]
    /\ UNCHANGED <<config, adapter, session, withheld, saved>>

\* The frozen reference is the same model with its adapters disabled, for the
\* loss and, in the newer profiles, for the divergence guard after the step.
EnterReference ==
    /\ At("learn", "losses") \/ (At("learn", "stepped") /\ ~Legacy)
    /\ ~shared.disabled
    /\ shared' = [shared EXCEPT !.disabled = TRUE]
    /\ UNCHANGED <<config, adapter, session, withheld, saved, call>>

LeaveReference ==
    /\ shared.disabled
    /\ shared' = [shared EXCEPT !.disabled = FALSE,
           !.grads = IF call.pc = "stepped" THEN @
                     ELSE @ \cup {AdapterOf(shared.active), HeadOf(call.s, session[call.s].made)}]
    /\ UNCHANGED <<config, adapter, session, withheld, saved, call>>

\* AdamW moves the parameters it owns that have a gradient.
Moves(p) == p \in Owned(call.s) \cap shared.grads
Stepped(r) == [r EXCEPT !.moments = @ + 1,
    !.head.updates = IF Moves(HeadOf(call.s, r.made)) THEN @ + 1 ELSE @]

Step ==
    /\ At("learn", "losses") /\ ~shared.disabled /\ shared.grads # {}
    /\ GoTo("stepped")
    /\ adapter' = [adapter EXCEPT ![call.s].updates = IF Moves(AdapterOf(call.s)) THEN @ + 1 ELSE @]
    /\ session' = [session EXCEPT ![call.s] = Stepped(@)]
    /\ UNCHANGED <<config, withheld, saved, shared>>

\* The finally block, after the random and the reference context are left.
LeftWithGradients(s) ==
    [shared EXCEPT !.cache = call.cache, !.training = FALSE, !.disabled = FALSE, !.rng = Host]
Left(s) ==
    [shared EXCEPT !.cache = call.cache, !.training = FALSE, !.disabled = FALSE, !.rng = Host,
                   !.grads = @ \ Owned(s)]

Counted(r) == [r EXCEPT !.steps = @ + 1, !.draws = IF Legacy THEN @ ELSE @ + 1]

Commit ==
    /\ At("learn", "stepped") /\ ~shared.disabled
    /\ GoTo("counted")
    /\ session' = [session EXCEPT ![call.s] = Counted(@)]
    /\ shared' = Left(call.s)
    /\ UNCHANGED <<config, adapter, withheld, saved>>

LearnReturns ==
    /\ At("learn", "counted")
    /\ Ends
    /\ UNCHANGED <<config, adapter, session, withheld, saved, shared>>

\* The optimizer raises with some of its tensors written.
StepTears ==
    /\ At("learn", "losses") /\ ~shared.disabled /\ shared.grads # {}
    /\ GoTo("failed")
    /\ adapter' = [adapter EXCEPT ![call.s] = Torn]
    /\ shared' = Left(call.s)
    /\ UNCHANGED <<config, session, withheld, saved>>

\* A refused event, a non-finite number, the divergence guard, a bad receipt.
LearnRaises ==
    /\ ~Idle /\ call.op = "learn" /\ call.pc # "failed"
    /\ GoTo("failed")
    /\ shared' = IF call.pc \in {"losses", "stepped"} THEN Left(call.s) ELSE shared
    /\ UNCHANGED <<config, adapter, session, withheld, saved>>

-----------------------------------------------------------------------------
(* Restore, and the rollback of learn and restore.                         *)

Save(s) ==
    /\ Idle /\ Served(s) /\ Cardinality(saved[s]) < MaxSaved
    /\ saved' = [saved EXCEPT ![s] = @ \cup {Image(s)}]
    /\ shared' = Activate(shared, s)
    /\ UNCHANGED <<config, adapter, session, withheld, call>>

\* The runtime lets only a snapshot of the same lineage through.
Restore(s) ==
    /\ Idle /\ Served(s)
    /\ \E image \in saved[s] :
        /\ image.adapter.from = adapter[s].from
        /\ Start("restore", s, image)
    /\ shared' = Activate(shared, s)
    /\ UNCHANGED <<config, adapter, session, withheld, saved>>

Imported ==
    /\ At("restore", "begun")
    /\ Import(call.origin, 4)
    /\ Ends
    /\ UNCHANGED <<config, withheld, saved>>

ImportStops ==
    /\ At("restore", "begun")
    /\ \E k \in 0..3 : Import(call.origin, k)
    /\ GoTo("failed")
    /\ UNCHANGED <<config, withheld, saved>>

Rollback ==
    /\ ~Idle /\ call.pc = "failed"
    /\ Import(call.image, 4)
    /\ Ends
    /\ UNCHANGED <<config, withheld, saved>>

RollbackStops ==
    /\ ~Idle /\ call.pc = "failed"
    /\ \E k \in 0..3 : Import(call.image, k)
    /\ EndsWithheld
    /\ UNCHANGED <<config, saved>>

-----------------------------------------------------------------------------
(* Create, with the cleanups of the backend and of the runtime.            *)

Create(s, origin) ==
    /\ Idle /\ session[s] = None /\ s \notin withheld
    /\ Start("create", s, origin)
    /\ shared' = [shared EXCEPT !.rng = s]
    /\ UNCHANGED <<config, adapter, session, withheld, saved>>

Allocate ==
    /\ At("create", "begun")
    /\ adapter' = [adapter EXCEPT ![call.s] = Weights("fresh", 0)]
    /\ shared' = Activate(shared, call.s)
    /\ GoTo("allocated")
    /\ UNCHANGED <<config, session, withheld, saved>>

\* add_adapter may raise with some layers injected; nobody removes them.
AllocateFails ==
    /\ At("create", "begun")
    /\ \E rest \in {None, Torn} : adapter' = [adapter EXCEPT ![call.s] = rest]
    /\ shared' = Unwound
    /\ EndsWithheld
    /\ UNCHANGED <<config, session, saved>>

Build ==
    /\ At("create", "allocated")
    /\ session' = [session EXCEPT ![call.s] = Fresh]
    /\ shared' = Unwound
    /\ GoTo("built")
    /\ UNCHANGED <<config, adapter, withheld, saved>>

\* delete_adapter, whose own failure leaves the adapter behind.
AdapterDeleted(s, gone) ==
    /\ adapter' = IF gone THEN [adapter EXCEPT ![s] = None] ELSE adapter
    /\ shared' = [Unwound EXCEPT !.active = IF gone /\ @ = s THEN None ELSE @]

\* The runtime's own cleanup finds no backend session, so the slot is withheld.
BuildFails ==
    /\ At("create", "allocated")
    /\ \E gone \in BOOLEAN : AdapterDeleted(call.s, gone)
    /\ EndsWithheld
    /\ UNCHANGED <<config, session, saved>>

\* The categorical profiles replace head and optimizer in a second transaction.
Replaces == config.profile \in {"verified", "categorical"}
HeadReplaced(r) == [Committed(r) EXCEPT !.made = @ + 1, !.head = Weights("fresh", 0)]
Replaced(r) == [HeadReplaced(r) EXCEPT !.owns = r.made + 1, !.moments = 0]

Replace ==
    /\ At("create", "built") /\ Replaces
    /\ session' = [session EXCEPT ![call.s] = Replaced(@)]
    /\ GoTo("replaced")
    /\ UNCHANGED <<config, adapter, withheld, saved, shared>>

ReplaceFails ==
    /\ At("create", "built") /\ Replaces
    /\ session' = [session EXCEPT ![call.s] = None]
    /\ \E gone \in BOOLEAN : AdapterDeleted(call.s, gone)
    /\ EndsWithheld
    /\ UNCHANGED <<config, saved>>

Built == At("create", "replaced") \/ (At("create", "built") /\ ~Replaces)

CreateReturns ==
    /\ Built /\ call.origin = "fresh"
    /\ Ends
    /\ UNCHANGED <<config, adapter, session, withheld, saved, shared>>

Initialize ==
    /\ Built /\ call.origin = "published"
    /\ session[call.s].steps = 0 /\ session[call.s].moments = 0
    /\ adapter' = [adapter EXCEPT ![call.s] = Weights("published", 0)]
    /\ session' = [session EXCEPT ![call.s].head = Weights("published", 0)]
    /\ shared' = Activate(shared, call.s)
    /\ Ends
    /\ UNCHANGED <<config, withheld, saved>>

\* However far it got, the runtime deletes the session; only a failing delete
\* keeps the slot.
CleanupForgets(gone) == Ends /\ UNCHANGED withheld
Cleanup(gone) == Ends /\ withheld' = IF gone THEN withheld ELSE withheld \cup {call.s}

InitializeFails ==
    /\ Built /\ call.origin = "published"
    /\ session' = [session EXCEPT ![call.s] = None]
    /\ \E gone \in BOOLEAN : AdapterDeleted(call.s, gone) /\ Cleanup(gone)
    /\ UNCHANGED <<config, saved>>

Delete(s) ==
    /\ Idle /\ session[s] # None
    /\ session' = [session EXCEPT ![s] = None]
    /\ \E gone \in BOOLEAN :
        /\ AdapterDeleted(s, gone)
        /\ withheld' = IF gone THEN withheld \ {s} ELSE withheld \cup {s}
    /\ UNCHANGED <<config, saved, call>>

-----------------------------------------------------------------------------

Next ==
    \/ \E s \in Sessions : \/ Ask("policy", s) \/ Ask("value", s)
                           \/ Learn(s) \/ Save(s) \/ Restore(s) \/ Delete(s)
    \/ \E s \in Sessions, o \in Origins : Create(s, o)
    \/ Generate \/ ScoreRows \/ Forward \/ ReadValue \/ Return \/ AskFails
    \/ EnterTraining \/ EnterReference \/ LeaveReference \/ Step \/ Commit
    \/ LearnReturns \/ StepTears \/ LearnRaises
    \/ Imported \/ ImportStops \/ Rollback \/ RollbackStops
    \/ Allocate \/ AllocateFails \/ Build \/ BuildFails \/ Replace \/ ReplaceFails
    \/ CreateReturns \/ Initialize \/ InitializeFails

Spec == Init /\ [][Next]_vars

-----------------------------------------------------------------------------
(* Properties.                                                             *)

\* Adapter, value head, optimizer and counters of an image tell one history:
\* nothing is half-written, the same start, the same number of updates.
Consistent(image) ==
    /\ image.adapter # Torn
    /\ image.adapter = image.head
    /\ image.head.updates = image.moments
    /\ image.moments = image.steps

\* What a session serves between its calls, and what is on disk, is consistent,
\* and its optimizer trains the head that answers (real_backend.py:569-708).
PartsAgree ==
    /\ \A s \in Sessions : Served(s) /\ (Idle \/ call.s # s) =>
        /\ Consistent(Image(s))
        /\ session[s].owns = session[s].made
    /\ \A s \in Sessions : \A image \in saved[s] : Consistent(image)

\* Between two calls the shared model is as the first call found it: whatever a
\* call does to cache, mode, reference context, random stream and gradients is
\* undone however it ends (real_backend.py:210-227, search_backend.py:376-380).
ModelAtRest == Idle => AtRest(shared)

\* An adapter stays in the model only for a session that still exists or for a
\* slot the runtime goes on counting (runtime.py:200-234).
NothingLeaks == Idle => \A s \in Sessions :
    adapter[s] # None => session[s] # None \/ s \in withheld

\* Every score is the raw log-probability of its own token after the prompt and
\* the tokens before it, up to the first EOS, in every scoring mode (the Qwen
\* backend scores the text in between), and policy and value are computed with
\* the adapter of the session they answer for (real_backend.py:279-541,
\* qwen35_backend.py:308-371).
Decided(row) == IF config.mode = "full_prefix"
                THEN Stripped(Without(Upto(row), Eos)) ELSE Upto(row)
AnswersAreOwn == ~Idle /\ call.pc = "answered" =>
    /\ call.origin = call.s
    /\ call.op = "policy" => \A c \in DOMAIN call.rows :
        LET tokens == [i \in DOMAIN call.rows[c] |-> call.rows[c][i].token]
        IN  /\ call.rows[c] = CausalRow(tokens)
            /\ \E rows \in Answers : c \in DOMAIN rows /\ tokens = Decided(rows[c])

\* A call that fails and leaves its session served leaves it exactly as it was:
\* parameters, optimizer, counters and private stream (real_backend.py:212,
\* runtime.py:128-136).
Failed == ~Idle /\ Idle' /\ call.op # "create"
            /\ (call.pc = "failed" \/ (call.op \in {"policy", "value"} /\ call.pc # "answered"))
FailedCallsChangeNothing ==
    [][Failed => \A s \in Sessions :
        s = call.s /\ Served(s)' => Image(s)' = call.image]_vars

=============================================================================
