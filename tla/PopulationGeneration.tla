------------------------- MODULE PopulationGeneration -------------------------
(***************************************************************************)
(* The generator of bidder populations:                                    *)
(* scripts/generate_pc_build_population.py.                                *)
(*                                                                         *)
(* The bidders are asked for in batches, one provider call each, with      *)
(* repair calls while a response does not validate.  The canonical         *)
(* response of every batch stays on disk, so that an invocation with       *)
(* --resume pays only for what is missing.  An invocation may be killed at *)
(* any step, also while it writes a file.                                  *)
(***************************************************************************)
EXTENDS Naturals, Sequences, Files

CONSTANTS
    Batches,        \* how many batches the design makes
    Invocations,    \* the arguments the generator may be run with
    PromptTokens,   \* a prompt's tokens, as estimated from its bytes
    MaxTokens,      \* how many tokens a reply is asked to keep to
    Replies         \* what a provider may send back

\* What matters of the arguments; a ceiling of 0 is none.
Arguments ==
    [resume : BOOLEAN, regenerate : SUBSET (1..Batches), retries : Nat, ceiling : Nat]

\* A reply: its length in bytes, and whether the provider reports its tokens; a token
\* costs one unit.
Reply == [bytes : Nat, metered : BOOLEAN, input : Nat, output : Nat]

ASSUME GenerationAssumption ==
    /\ Batches \in Nat \ {0}
    /\ PromptTokens \in Nat \ {0} /\ MaxTokens \in Nat
    /\ Replies \subseteq Reply
    /\ Invocations \subseteq Arguments
    /\ \A a \in Invocations : a.regenerate = {} \/ a.resume

VARIABLES
    responses,  \* batch_NN_response.txt of every batch
    manifest,   \* the status in the manifest
    population, \* the written population: the accepted responses, in order
    gen,        \* the running invocation
    calls,      \* how many responses were paid for, ever
    redone,     \* whether a valid response on disk was ever replaced
    cut         \* whether the last invocation was killed

disk == <<responses, manifest, population>>
generation == <<responses, manifest, population, gen, calls, redone, cut>>

\* A response: the call it answers, whether it validates, and the earlier
\* responses that its prompt quotes.
Answers == [id : Nat, valid : BOOLEAN, quotes : Seq(Nat)]

\* It can be read and validates.
IsValid(r) == Readable(r) /\ r.valid

\* No invocation is running.
GenOff == [stage |-> "off", args |-> NoFile, batch |-> 1, text |-> NoFile,
           repairs |-> 0, accepted |-> <<>>, spent |-> 0]

GenInit ==
    /\ responses = [b \in 1..Batches |-> NoFile]
    /\ manifest = "none"
    /\ population = NoFile
    /\ gen = GenOff
    /\ calls = 0
    /\ redone = FALSE
    /\ cut = FALSE

\* An invocation begins with the first batch.
Generate(a) ==
    /\ gen = GenOff
    /\ gen' = [GenOff EXCEPT !.stage = "fetch", !.args = a]
    /\ UNCHANGED <<disk, calls, redone, cut>>

-----------------------------------------------------------------------------
\* Mutated: to regenerate one batch is to regenerate them all.
ReusableUnlessAny ==
    gen.args.resume /\ responses[gen.batch] # NoFile /\ gen.args.regenerate = {}

\* reused_response.
Reusable ==
    /\ gen.args.resume
    /\ responses[gen.batch] # NoFile
    /\ gen.batch \notin gen.args.regenerate

\* The response on disk is read instead of asking.
Reuse ==
    /\ gen.stage = "fetch" /\ Reusable
    /\ gen' = [gen EXCEPT !.stage = "check", !.text = responses[gen.batch]]
    /\ UNCHANGED <<disk, calls, redone, cut>>

\* A call is due: the first of the batch, or a repair of what did not validate.
Asking ==
    \/ gen.stage = "fetch" /\ ~Reusable
    \/ gen.stage = "check" /\ ~IsValid(gen.text) /\ gen.repairs < gen.args.retries

\* conservative_request_cost: what a call is taken to cost before it is made.
ProjectedCost == PromptTokens + MaxTokens

\* What is booked for a call: its reported tokens, or a token for every three bytes.
Booked(reply) ==
    IF reply.metered THEN reply.input + reply.output
    ELSE PromptTokens + (IF reply.bytes = 0 THEN 1 ELSE (reply.bytes + 2) \div 3)

\* Mutated: a repair is asked for whatever is left.
WithinCeilingOrRepair ==
    \/ gen.stage = "check" \/ gen.args.ceiling = 0
    \/ gen.spent + ProjectedCost <= gen.args.ceiling

\* enforce_budget.
WithinCeiling == gen.args.ceiling = 0 \/ gen.spent + ProjectedCost <= gen.args.ceiling

\* An invocation that ends leaves a status in the manifest.
EndsWith(status) ==
    /\ gen' = GenOff
    /\ manifest' = status
    /\ cut' = FALSE
    /\ UNCHANGED <<responses, calls, redone>>

\* The next call might cost more than is left.
StopOverBudget ==
    /\ Asking /\ ~WithinCeiling
    /\ EndsWith("budget_stopped")
    /\ UNCHANGED population

\* The provider fails; the exception ends the invocation.
ApiError ==
    /\ Asking /\ WithinCeiling
    /\ EndsWith("api_error")
    /\ UNCHANGED population

\* Mutated: a repair prompt does not quote the batches before.
CallRepairAlone(valid, reply) ==
    /\ Asking /\ WithinCeiling
    /\ gen' = [gen EXCEPT
           !.stage = "store",
           !.text = [id     |-> calls + 1,
                     valid  |-> valid,
                     quotes |-> IF gen.stage = "check" THEN <<>>
                                ELSE [k \in DOMAIN gen.accepted |-> gen.accepted[k].id]],
           !.repairs = IF gen.stage = "fetch" THEN 0 ELSE @ + 1,
           !.spent = @ + Booked(reply)]
    /\ calls' = calls + 1
    /\ UNCHANGED <<disk, redone, cut>>

\* The provider answers; what that cost is known only now.
Call(valid, reply) ==
    /\ Asking /\ WithinCeiling
    /\ gen' = [gen EXCEPT
           !.stage = "store",
           !.text = [id     |-> calls + 1,
                     valid  |-> valid,
                     quotes |-> [k \in DOMAIN gen.accepted |-> gen.accepted[k].id]],
           !.repairs = IF gen.stage = "fetch" THEN 0 ELSE @ + 1,
           !.spent = @ + Booked(reply)]
    /\ calls' = calls + 1
    /\ UNCHANGED <<disk, redone, cut>>

\* A first response is stored under the canonical name, a repair beside it.
Store ==
    /\ gen.stage = "store"
    /\ gen' = [gen EXCEPT !.stage = "check"]
    /\ IF gen.repairs = 0
       THEN /\ responses' = [responses EXCEPT ![gen.batch] = gen.text]
            /\ redone' = (redone \/ IsValid(responses[gen.batch]))
       ELSE UNCHANGED <<responses, redone>>
    /\ UNCHANGED <<manifest, population, calls, cut>>

\* The repairs are used up.
Exhausted ==
    /\ gen.stage = "check" /\ ~IsValid(gen.text) /\ gen.repairs >= gen.args.retries
    /\ EndsWith("batch_validation_failed")
    /\ UNCHANGED population

\* Mutated: an accepted repair stays beside the canonical response.
AcceptUncopied ==
    /\ gen.stage = "check" /\ IsValid(gen.text)
    /\ manifest' = "generating"
    /\ gen' = [gen EXCEPT
           !.stage = IF gen.batch = Batches THEN "finish" ELSE "fetch",
           !.batch = IF gen.batch = Batches THEN @ ELSE @ + 1,
           !.accepted = Append(@, gen.text),
           !.text = NoFile,
           !.repairs = 0]
    /\ UNCHANGED <<responses, population, calls, redone, cut>>

\* A valid response is accepted; one that came as a repair replaces the canonical
\* response.
Accept ==
    /\ gen.stage = "check" /\ IsValid(gen.text)
    /\ responses' = [responses EXCEPT ![gen.batch] = gen.text]
    /\ manifest' = "generating"
    /\ gen' = [gen EXCEPT
           !.stage = IF gen.batch = Batches THEN "finish" ELSE "fetch",
           !.batch = IF gen.batch = Batches THEN @ ELSE @ + 1,
           !.accepted = Append(@, gen.text),
           !.text = NoFile,
           !.repairs = 0]
    /\ UNCHANGED <<population, calls, redone, cut>>

\* The population is validated as a whole and written, or kept aside as a candidate.
Finish(passed) ==
    /\ gen.stage = "finish"
    /\ population' = IF passed THEN gen.accepted ELSE population
    /\ EndsWith(IF passed THEN "complete" ELSE "population_validation_failed")

\* The invocation is killed, perhaps while it writes a response or the population.
KillGeneration ==
    /\ gen.stage # "off"
    /\ gen' = GenOff
    /\ cut' = TRUE
    /\ \/ UNCHANGED <<responses, population, redone>>
       \/ /\ \/ gen.stage = "store" /\ gen.repairs = 0
             \/ gen.stage = "check" /\ IsValid(gen.text) /\ gen.repairs > 0
          /\ \E left \in {gen.text, Torn} :
                 responses' = [responses EXCEPT ![gen.batch] = left]
          /\ redone' = (redone \/ IsValid(responses[gen.batch]))
          /\ UNCHANGED population
       \/ /\ gen.stage = "finish"
          /\ population' \in {gen.accepted, Torn}
          /\ UNCHANGED <<responses, redone>>
    /\ UNCHANGED <<manifest, calls>>

\* What the invocation may do, the provider allowing.
GenStep ==
    \/ Reuse \/ StopOverBudget \/ Store \/ Exhausted \/ Accept
    \/ \E valid \in BOOLEAN, reply \in Replies : Call(valid, reply)
    \/ \E passed \in BOOLEAN : Finish(passed)

GenNext ==
    \/ \E a \in Invocations : Generate(a)
    \/ GenStep \/ ApiError \/ KillGeneration

GenSpec == GenInit /\ [][GenNext]_generation

-----------------------------------------------------------------------------
\* generate_pc_build_population.py:1230-1231: the canonical response is the accepted
\* one, whichever attempt it came from and whatever was on disk before: of every batch
\* an invocation has accepted, and of a whole population declared complete, unless a
\* later invocation was killed.
AcceptedAreCanonical ==
    /\ \A b \in DOMAIN gen.accepted : responses[b] = gen.accepted[b]
    /\ gen.stage = "off" /\ manifest = "complete" /\ ~cut => population = responses

\* A resumed invocation neither pays again for a batch whose valid response is on disk
\* nor replaces that response, unless it was told to regenerate it.
ResumePaysOnce ==
    [][LET b == gen.batch
       IN  gen.stage # "off" /\ gen.args.resume /\ b \notin gen.args.regenerate /\ IsValid(responses[b])
           => calls' = calls /\ responses' = responses]_generation

\* generate_pc_build_population.py:937-940: first calls and repairs share one ceiling, and
\* what a call costs may be more than the guard had projected for it.  The ceiling is
\* passed by one call at most: without it, the projection of that call still fits.
CeilingPassedByOneCall ==
    gen.stage # "off" /\ gen.args.ceiling # 0 /\ gen.spent > gen.args.ceiling =>
        \E reply \in Replies :
            gen.spent - Booked(reply) + ProjectedCost <= gen.args.ceiling

\* Every batch of a population was asked for in view of the batches before it as they
\* stand in that population, over any number of resumed invocations; only replacing a
\* valid response mixes generations.
BatchesQuoteEachOther ==
    ~redone /\ Readable(population) =>
        \A b \in DOMAIN population :
            population[b].quotes = [k \in 1..b - 1 |-> population[k].id]
=============================================================================
