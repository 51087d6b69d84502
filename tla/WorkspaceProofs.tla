--------------------------- MODULE WorkspaceProofs ---------------------------
(***************************************************************************)
(* Proofs about the study on disk.  First PopulationGeneration, for any    *)
(* number of batches, any set of command lines and whatever a call costs;  *)
(* then ExperimentWorkspace, for any grid of sizes, any session of scripts *)
(* and any number of kills and failed calls.                               *)
(***************************************************************************)
EXTENDS ExperimentWorkspace, AuctionLemmas

-----------------------------------------------------------------------------
(* Generation of the populations.                                          *)

\* What may stand in a response file.
Texts == Answers \cup {NoFile, Torn}

Stages == {"off", "fetch", "store", "check", "finish"}

\* What an invocation keeps.
Running ==
    [stage : Stages, args : Invocations \cup {NoFile}, batch : 1..Batches, text : Texts,
     repairs : Nat, accepted : Seq(Answers), spent : Nat]

\* The types of an invocation and of the files.
GenTypeOK ==
    /\ responses \in [1..Batches -> Texts]
    /\ calls \in Nat
    /\ redone \in BOOLEAN
    /\ gen \in Running
    /\ gen.stage # "off" => gen.args \in Invocations

\* The batches before the current one are accepted, and are the canonical ones on disk.
AcceptedSoFar ==
    /\ gen.stage = "off" => gen.accepted = <<>>
    /\ gen.stage \in {"fetch", "store", "check"} => Len(gen.accepted) = gen.batch - 1
    /\ gen.stage = "finish" => Len(gen.accepted) = Batches
    /\ gen.stage = "fetch" => gen.repairs = 0
    /\ \A b \in 1..Len(gen.accepted) :
           responses[b] = gen.accepted[b] /\ IsValid(responses[b])

\* What the file of the current batch holds while its attempts go on: a first answer is
\* asked for over a valid file only by an invocation that does not reuse it, and a
\* repair is asked for only while the file does not hold a valid response.
AttemptsSoFar ==
    /\ gen.stage = "store" /\ gen.repairs = 0 =>
           \/ ~gen.args.resume \/ gen.batch \in gen.args.regenerate
           \/ responses[gen.batch] = NoFile
    /\ gen.stage \in {"store", "check"} /\ gen.repairs > 0 => ~IsValid(responses[gen.batch])
    /\ gen.stage = "check" /\ gen.repairs = 0 => gen.text = responses[gen.batch]

\* The ids of the responses before batch b.
Before(files, b) == [k \in 1..b - 1 |-> files[k].id]

\* Until a valid response is replaced, the valid responses on disk quote each other;
\* and the answer an invocation holds quotes those it accepted.
QuotesSoFar ==
    /\ redone \/ \A b \in 1..Batches : IsValid(responses[b]) =>
           /\ \A k \in 1..b - 1 : IsValid(responses[k])
           /\ responses[b].quotes = Before(responses, b)
    /\ gen.stage = "store" \/ (gen.stage = "check" /\ gen.repairs > 0) =>
           gen.text \in Answers /\ gen.text.quotes = Before(responses, gen.batch)

\* The population that was written, and the manifest that describes it.
Written ==
    /\ gen.stage = "off" /\ manifest = "complete" /\ ~cut => population = responses
    /\ BatchesQuoteEachOther

GenIInv ==
    /\ GenTypeOK
    /\ AcceptedSoFar
    /\ AttemptsSoFar
    /\ CeilingPassedByOneCall

\* What the assumptions say of a command line.
LEMMA InvocationTypes ==
    /\ Batches \in Nat \ {0}
    /\ \A a \in Invocations :
           /\ a.resume \in BOOLEAN /\ a.regenerate \subseteq 1..Batches
           /\ a.retries \in Nat /\ a.ceiling \in Nat
BY GenerationAssumption DEF Arguments

-----------------------------------------------------------------------------
\* No invocation is one of them.
LEMMA OffIsTyped == GenOff \in Running
<1>1. 1 \in 1..Batches /\ <<>> \in Seq(Answers) /\ NoFile \in Texts
    BY InvocationTypes DEF Texts
<1> QED
    BY <1>1 DEF GenOff, Running, Stages

\* The first state satisfies the invariant.
LEMMA GenInitInvariant == GenInit => GenIInv
<1> SUFFICES ASSUME GenInit PROVE GenIInv
    OBVIOUS
<1>1. GenTypeOK
  <2>1. gen \in Running /\ gen.stage = "off"
    BY OffIsTyped DEF GenInit, GenOff
  <2>2. responses \in [1..Batches -> Texts] /\ calls \in Nat /\ redone \in BOOLEAN
    BY DEF GenInit, Texts
  <2> QED
    BY <2>1, <2>2 DEF GenTypeOK
<1>2. AcceptedSoFar /\ AttemptsSoFar /\ CeilingPassedByOneCall
    BY DEF GenInit, GenOff, AcceptedSoFar, AttemptsSoFar, CeilingPassedByOneCall
<1> QED
    BY <1>1, <1>2 DEF GenIInv

\* The record a provider call makes.
LEMMA AnswerType ==
    ASSUME NEW id \in Nat, NEW valid \in BOOLEAN, NEW quotes \in Seq(Nat)
    PROVE  [id |-> id, valid |-> valid, quotes |-> quotes] \in Answers
BY DEF Answers

\* What a prompt quotes is a sequence of ids.
LEMMA IdsType ==
    ASSUME NEW accepted \in Seq(Answers)
    PROVE  [k \in DOMAIN accepted |-> accepted[k].id] \in Seq(Nat)
<1>1. \A k \in 1..Len(accepted) : accepted[k].id \in Nat
  <2>1. \A k \in 1..Len(accepted) : accepted[k] \in Answers
    OBVIOUS
  <2> QED
    BY <2>1 DEF Answers
<1>2. DOMAIN accepted = 1..Len(accepted) /\ Len(accepted) \in Nat
    OBVIOUS
<1> QED
    BY <1>1, <1>2

\* What is booked for a call is a number.
LEMMA BookedType == ASSUME NEW reply \in Replies PROVE Booked(reply) \in Nat
<1>1. reply \in Reply /\ PromptTokens \in Nat
    BY GenerationAssumption
<1>2. reply.bytes \in Nat /\ reply.input \in Nat /\ reply.output \in Nat
    BY <1>1 DEF Reply
<1>3. (reply.bytes + 2) \div 3 \in Nat
    BY <1>2
<1> QED
    BY <1>1, <1>2, <1>3 DEF Booked

\* A readable text is an answer.
LEMMA ReadableIsAnswer ==
    ASSUME NEW text \in Texts, IsValid(text) PROVE text \in Answers
BY DEF Texts, IsValid, Readable

\* The next state is described by one of these actions.
LEMMA GenCases ==
    ASSUME GenNext
    PROVE  \/ \E a \in Invocations : Generate(a)
           \/ Reuse \/ StopOverBudget \/ Store \/ Exhausted \/ Accept
           \/ \E valid \in BOOLEAN, reply \in Replies : Call(valid, reply)
           \/ \E passed \in BOOLEAN : Finish(passed)
           \/ ApiError \/ KillGeneration
BY DEF GenNext, GenStep

\* Types are kept.
LEMMA GenTypeStep == GenIInv /\ [GenNext]_generation => GenTypeOK'
<1> SUFFICES ASSUME GenIInv, [GenNext]_generation PROVE GenTypeOK'
    OBVIOUS
<1>1. CASE \E a \in Invocations : Generate(a)
  <2>1. PICK a \in Invocations : Generate(a)
    BY <1>1
  <2>2. gen' \in Running /\ gen'.args \in Invocations
    BY <2>1, OffIsTyped DEF Generate, Running, Stages
  <2> QED
    BY <2>1, <2>2 DEF Generate, disk, GenIInv, GenTypeOK
<1>2. CASE Reuse
    BY <1>2, InvocationTypes, ReadableIsAnswer DEF Reuse, Reusable, disk, GenIInv, GenTypeOK, Running, Stages, Texts
<1>3. CASE StopOverBudget
    BY <1>3, InvocationTypes, ReadableIsAnswer DEF StopOverBudget, EndsWith, GenOff, disk, GenIInv, GenTypeOK, Running, Stages, Texts
<1>4. CASE Store
    BY <1>4, InvocationTypes, ReadableIsAnswer DEF Store, disk, GenIInv, GenTypeOK, Running, Stages, Texts
<1>5. CASE Exhausted
    BY <1>5, InvocationTypes, ReadableIsAnswer DEF Exhausted, EndsWith, GenOff, disk, GenIInv, GenTypeOK, Running, Stages, Texts
<1>6. CASE Accept
  <2>1. gen.text \in Answers
    BY <1>6, ReadableIsAnswer DEF Accept, GenIInv, GenTypeOK, Running
  <2>2. Append(gen.accepted, gen.text) \in Seq(Answers)
    BY <2>1 DEF GenIInv, GenTypeOK, Running
  <2>3. gen' \in Running /\ gen'.args = gen.args /\ gen.stage # "off"
    <3>1. gen \in Running /\ NoFile \in Texts /\ gen.stage = "check"
        BY <1>6 DEF Accept, GenIInv, GenTypeOK, Texts
    <3>2. gen.batch # Batches => gen.batch + 1 \in 1..Batches
        BY <3>1, InvocationTypes DEF Running
    <3> QED
        BY <1>6, <2>2, <3>1, <3>2 DEF Accept, Running, Stages
  <2> QED
    BY <1>6, <2>1, <2>3 DEF Accept, GenIInv, GenTypeOK, Texts
<1>7. CASE \E valid \in BOOLEAN, reply \in Replies : Call(valid, reply)
  <2>1. PICK valid \in BOOLEAN, reply \in Replies : Call(valid, reply)
    BY <1>7
  <2>2. [k \in DOMAIN gen.accepted |-> gen.accepted[k].id] \in Seq(Nat)
    BY IdsType DEF GenIInv, GenTypeOK, Running
  <2> DEFINE answer == [id |-> calls + 1, valid |-> valid,
                        quotes |-> [k \in DOMAIN gen.accepted |-> gen.accepted[k].id]]
  <2>3. answer \in Answers
    <3>1. calls + 1 \in Nat
        BY DEF GenIInv, GenTypeOK
    <3> QED
        BY <2>1, <2>2, <3>1, AnswerType, Zenon
  <2>4. gen' \in Running /\ gen'.args = gen.args /\ gen.stage # "off"
    <3>1. gen \in Running /\ answer \in Texts /\ gen.stage # "off" /\ Booked(reply) \in Nat
        BY <2>1, <2>3, InvocationTypes, BookedType DEF Call, Asking, GenIInv, GenTypeOK, Texts
    <3>2. gen' = [gen EXCEPT !.stage = "store", !.text = answer,
                      !.repairs = IF gen.stage = "fetch" THEN 0 ELSE @ + 1, !.spent = @ + Booked(reply)]
        BY <2>1 DEF Call
    <3>3. (IF gen.stage = "fetch" THEN 0 ELSE gen.repairs + 1) \in Nat /\ gen.spent + Booked(reply) \in Nat
        BY <3>1 DEF Running
    <3> HIDE DEF answer
    <3> QED
        BY <3>1, <3>2, <3>3 DEF Running, Stages
  <2> QED
    BY <2>1, <2>4 DEF Call, disk, GenIInv, GenTypeOK
<1>8. CASE \E passed \in BOOLEAN : Finish(passed)
    BY <1>8, InvocationTypes, ReadableIsAnswer DEF Finish, EndsWith, GenOff, disk, GenIInv, GenTypeOK, Running, Stages, Texts
<1>9. CASE ApiError
    BY <1>9, InvocationTypes, ReadableIsAnswer DEF ApiError, EndsWith, GenOff, disk, GenIInv, GenTypeOK, Running, Stages, Texts
<1>10. CASE KillGeneration
  <2>1. gen' \in Running /\ gen'.stage = "off"
    BY <1>10, OffIsTyped DEF KillGeneration, GenOff
  <2>2. gen.text \in Texts /\ Torn \in Texts /\ redone' \in BOOLEAN
    BY <1>10 DEF KillGeneration, GenIInv, GenTypeOK, Running, Texts
  <2>3. responses' \in [1..Batches -> Texts]
    BY <1>10, <2>2 DEF KillGeneration, GenIInv, GenTypeOK, Running
  <2> QED
    BY <1>10, <2>1, <2>2, <2>3 DEF KillGeneration, GenIInv, GenTypeOK
<1>11. CASE UNCHANGED generation
    BY <1>11 DEF generation, disk, GenIInv, GenTypeOK, Running, Stages, Texts
<1> QED
    BY <1>1, <1>2, <1>3, <1>4, <1>5, <1>6, <1>7, <1>8, <1>9, <1>10, <1>11, GenCases


\* What is accepted stays canonical.
LEMMA AcceptedStep == GenIInv /\ [GenNext]_generation => AcceptedSoFar'
<1> SUFFICES ASSUME GenIInv, [GenNext]_generation PROVE AcceptedSoFar'
    OBVIOUS
<1>1. CASE \E a \in Invocations : Generate(a)
    BY <1>1, InvocationTypes DEF Generate, GenOff, disk, GenIInv, GenTypeOK, Running, AcceptedSoFar, AttemptsSoFar, Stages
<1>2. CASE Reuse
    BY <1>2, InvocationTypes DEF Reuse, Reusable, disk, GenIInv, GenTypeOK, Running, AcceptedSoFar, AttemptsSoFar, Stages
<1>3. CASE StopOverBudget
    BY <1>3, InvocationTypes DEF StopOverBudget, EndsWith, GenOff, disk, GenIInv, GenTypeOK, Running, AcceptedSoFar, AttemptsSoFar, Stages
<1>4. CASE Store
    BY <1>4, InvocationTypes DEF Store, disk, GenIInv, GenTypeOK, Running, AcceptedSoFar, AttemptsSoFar, Stages
<1>5. CASE Exhausted
    BY <1>5, InvocationTypes DEF Exhausted, EndsWith, GenOff, disk, GenIInv, GenTypeOK, Running, AcceptedSoFar, AttemptsSoFar, Stages
<1>6. CASE Accept
    BY <1>6, InvocationTypes DEF Accept, disk, GenIInv, GenTypeOK, Running, AcceptedSoFar, AttemptsSoFar, Stages
<1>7. CASE \E valid \in BOOLEAN, reply \in Replies : Call(valid, reply)
    BY <1>7, InvocationTypes DEF Call, Asking, WithinCeiling, disk, GenIInv, GenTypeOK, Running, AcceptedSoFar, AttemptsSoFar, Stages
<1>8. CASE \E passed \in BOOLEAN : Finish(passed)
    BY <1>8, InvocationTypes DEF Finish, EndsWith, GenOff, disk, GenIInv, GenTypeOK, Running, AcceptedSoFar, AttemptsSoFar, Stages
<1>9. CASE ApiError
    BY <1>9, InvocationTypes DEF ApiError, EndsWith, GenOff, disk, GenIInv, GenTypeOK, Running, AcceptedSoFar, AttemptsSoFar, Stages
<1>10. CASE KillGeneration
    BY <1>10, InvocationTypes DEF KillGeneration, GenOff, disk, GenIInv, GenTypeOK, Running, AcceptedSoFar, AttemptsSoFar, Stages
<1>11. CASE UNCHANGED generation
    BY <1>11 DEF generation, disk, GenIInv, GenTypeOK, Running, AcceptedSoFar, AttemptsSoFar, Stages
<1> QED
    BY <1>1, <1>2, <1>3, <1>4, <1>5, <1>6, <1>7, <1>8, <1>9, <1>10, <1>11, GenCases


\* Attempts.
LEMMA AttemptsStep == GenIInv /\ [GenNext]_generation => AttemptsSoFar'
<1> SUFFICES ASSUME GenIInv, [GenNext]_generation PROVE AttemptsSoFar'
    OBVIOUS
<1>1. CASE \E a \in Invocations : Generate(a)
    BY <1>1, InvocationTypes DEF Generate, GenOff, disk, GenIInv, GenTypeOK, Running, AcceptedSoFar, AttemptsSoFar, IsValid, Readable
<1>2. CASE Reuse
    BY <1>2, InvocationTypes DEF Reuse, Reusable, disk, GenIInv, GenTypeOK, Running, AcceptedSoFar, AttemptsSoFar, IsValid, Readable
<1>3. CASE StopOverBudget
    BY <1>3, InvocationTypes DEF StopOverBudget, EndsWith, GenOff, disk, GenIInv, GenTypeOK, Running, AcceptedSoFar, AttemptsSoFar, IsValid, Readable
<1>4. CASE Store
    BY <1>4, InvocationTypes DEF Store, disk, GenIInv, GenTypeOK, Running, AcceptedSoFar, AttemptsSoFar, IsValid, Readable
<1>5. CASE Exhausted
    BY <1>5, InvocationTypes DEF Exhausted, EndsWith, GenOff, disk, GenIInv, GenTypeOK, Running, AcceptedSoFar, AttemptsSoFar, IsValid, Readable
<1>6. CASE Accept
    BY <1>6, InvocationTypes DEF Accept, disk, GenIInv, GenTypeOK, Running, AcceptedSoFar, AttemptsSoFar, IsValid, Readable
<1>7. CASE \E valid \in BOOLEAN, reply \in Replies : Call(valid, reply)
  <2>1. PICK valid \in BOOLEAN, reply \in Replies : Call(valid, reply)
    BY <1>7
  <2>2. /\ gen'.stage = "store" /\ gen'.batch = gen.batch /\ gen'.args = gen.args
        /\ gen'.repairs = IF gen.stage = "fetch" THEN 0 ELSE gen.repairs + 1
        /\ responses' = responses
    BY <2>1 DEF Call, disk, GenIInv, GenTypeOK, Running
  <2>3. CASE gen.stage = "fetch"
    BY <2>1, <2>2, <2>3 DEF Call, Asking, Reusable, AttemptsSoFar
  <2>4. CASE gen.stage = "check"
    <3>1. ~IsValid(gen.text) /\ gen.repairs \in Nat
        BY <2>1, <2>4 DEF Call, Asking, GenIInv, GenTypeOK, Running
    <3>2. ~IsValid(responses[gen.batch])
        BY <2>4, <3>1 DEF GenIInv, AttemptsSoFar
    <3> QED
        BY <2>2, <2>4, <3>1, <3>2 DEF AttemptsSoFar
  <2> QED
    BY <2>1, <2>3, <2>4 DEF Call, Asking
<1>8. CASE \E passed \in BOOLEAN : Finish(passed)
    BY <1>8, InvocationTypes DEF Finish, EndsWith, GenOff, disk, GenIInv, GenTypeOK, Running, AcceptedSoFar, AttemptsSoFar, IsValid, Readable
<1>9. CASE ApiError
    BY <1>9, InvocationTypes DEF ApiError, EndsWith, GenOff, disk, GenIInv, GenTypeOK, Running, AcceptedSoFar, AttemptsSoFar, IsValid, Readable
<1>10. CASE KillGeneration
    BY <1>10, InvocationTypes DEF KillGeneration, GenOff, disk, GenIInv, GenTypeOK, Running, AcceptedSoFar, AttemptsSoFar, IsValid, Readable
<1>11. CASE UNCHANGED generation
    BY <1>11 DEF generation, disk, GenIInv, GenTypeOK, Running, AcceptedSoFar, AttemptsSoFar, IsValid, Readable
<1> QED
    BY <1>1, <1>2, <1>3, <1>4, <1>5, <1>6, <1>7, <1>8, <1>9, <1>10, <1>11, GenCases


\* Spending: only a call spends, and the guard looks at every call.
LEMMA CeilingStep == GenIInv /\ [GenNext]_generation => CeilingPassedByOneCall'
<1> SUFFICES ASSUME GenIInv, [GenNext]_generation PROVE CeilingPassedByOneCall'
    OBVIOUS
<1>1. CASE \E a \in Invocations : Generate(a)
  <2>1. PICK a \in Invocations : Generate(a)
    BY <1>1
  <2>2. gen'.spent = 0 /\ gen'.args.ceiling \in Nat
    BY <2>1, InvocationTypes DEF Generate, GenOff
  <2> QED
    BY <2>2 DEF CeilingPassedByOneCall
<1>2. CASE Reuse \/ Store \/ Accept
  <2>1. gen'.spent = gen.spent /\ gen'.args = gen.args /\ gen.stage # "off"
    BY <1>2 DEF Reuse, Store, Accept, GenIInv, GenTypeOK, Running
  <2> QED
    BY <2>1 DEF GenIInv, CeilingPassedByOneCall, Booked, ProjectedCost
<1>3. CASE StopOverBudget \/ Exhausted \/ ApiError \/ KillGeneration
           \/ \E passed \in BOOLEAN : Finish(passed)
  <2>1. gen'.stage = "off"
    BY <1>3 DEF StopOverBudget, Exhausted, ApiError, KillGeneration, Finish, EndsWith, GenOff
  <2> QED
    BY <2>1 DEF CeilingPassedByOneCall
<1>4. CASE \E valid \in BOOLEAN, reply \in Replies : Call(valid, reply)
  <2>1. PICK valid \in BOOLEAN, reply \in Replies : Call(valid, reply)
    BY <1>4
  <2>2. gen'.spent = gen.spent + Booked(reply) /\ gen'.args = gen.args
    BY <2>1 DEF Call, GenIInv, GenTypeOK, Running
  <2>3. gen.spent \in Nat /\ Booked(reply) \in Nat
    BY BookedType DEF GenIInv, GenTypeOK, Running
  <2>4. gen'.args.ceiling # 0 => gen'.spent - Booked(reply) + ProjectedCost <= gen'.args.ceiling
    BY <2>1, <2>2, <2>3, GenerationAssumption DEF Call, WithinCeiling, ProjectedCost
  <2> QED
    BY <2>4 DEF CeilingPassedByOneCall, Booked, ProjectedCost
<1>5. CASE UNCHANGED generation
    BY <1>5 DEF generation, GenIInv, CeilingPassedByOneCall, Booked, ProjectedCost
<1> QED
    BY <1>1, <1>2, <1>3, <1>4, <1>5, GenCases

\* The invariant is inductive.
LEMMA GenStepInvariant == GenIInv /\ [GenNext]_generation => GenIInv'
BY GenTypeStep, AcceptedStep, AttemptsStep, CeilingStep DEF GenIInv

-----------------------------------------------------------------------------
\* The quotations: replacing the file of the current batch, which was not valid before or
\* marks the generations as mixed, keeps the files that quote each other.
LEMMA QuotesStep == GenIInv /\ QuotesSoFar /\ [GenNext]_generation => QuotesSoFar'
<1> SUFFICES ASSUME GenIInv, QuotesSoFar, [GenNext]_generation PROVE QuotesSoFar'
    OBVIOUS
<1> DEFINE b0 == gen.batch
           Consistent(files) ==
               \A b \in 1..Batches : IsValid(files[b]) =>
                   /\ \A k \in 1..b - 1 : IsValid(files[k])
                   /\ files[b].quotes = Before(files, b)
<1>0. gen.batch \in 1..Batches /\ responses \in [1..Batches -> Texts] /\ Batches \in Nat
    BY InvocationTypes DEF GenIInv, GenTypeOK, Running
\* One file is written, over one that was not valid.
<1>a. ASSUME NEW text, Consistent(responses), ~IsValid(responses[b0]),
             \A k \in 1..b0 - 1 : IsValid(responses[k]),
             IsValid(text) => text.quotes = Before(responses, b0)
      PROVE  Consistent([responses EXCEPT ![b0] = text])
  <2> DEFINE files == [responses EXCEPT ![b0] = text]
  <2>1. \A k \in 1..Batches : k # b0 => files[k] = responses[k]
    BY <1>0
  <2>2. files[b0] = text
    BY <1>0
  <2> SUFFICES ASSUME NEW b \in 1..Batches, IsValid(files[b])
               PROVE  /\ \A k \in 1..b - 1 : IsValid(files[k])
                      /\ files[b].quotes = Before(files, b)
    OBVIOUS
  <2>3. CASE b = b0
    <3>1. \A k \in 1..b0 - 1 : k \in 1..Batches /\ k # b0
        BY <1>0
    <3>2. Before(files, b0) = Before(responses, b0)
        BY <2>1, <3>1 DEF Before
    <3> HIDE DEF files
    <3> QED
        BY <1>a, <2>1, <2>2, <2>3, <3>1, <3>2
  <2>4. CASE b # b0
    <3>1. IsValid(responses[b]) /\ files[b] = responses[b]
        BY <2>1, <2>4
    <3>2. /\ \A k \in 1..b - 1 : IsValid(responses[k])
          /\ responses[b].quotes = Before(responses, b)
        BY <1>a, <3>1
    <3>3. \A k \in 1..b - 1 : k \in 1..Batches /\ k # b0
        BY <1>0, <1>a, <3>2
    <3>4. Before(files, b) = Before(responses, b)
        BY <2>1, <3>3 DEF Before
    <3> HIDE DEF files
    <3> QED
        BY <2>1, <3>1, <3>2, <3>3, <3>4
  <2> QED
    BY <2>3, <2>4
\* The batches before the current one are valid on disk.
<1>b. gen.stage \in {"fetch", "store", "check"} =>
          /\ DOMAIN gen.accepted = 1..b0 - 1
          /\ \A k \in 1..b0 - 1 : responses[k] = gen.accepted[k] /\ IsValid(responses[k])
    BY <1>0 DEF GenIInv, GenTypeOK, Running, AcceptedSoFar
<1>c. QuotesSoFar <=>
          /\ redone \/ Consistent(responses)
          /\ gen.stage = "store" \/ (gen.stage = "check" /\ gen.repairs > 0) =>
                 gen.text \in Answers /\ gen.text.quotes = Before(responses, gen.batch)
    BY DEF QuotesSoFar
<1>e. gen.stage = "store" \/ (gen.stage = "check" /\ gen.repairs > 0) =>
          gen.text \in Answers /\ gen.text.quotes = Before(responses, b0)
    BY DEF QuotesSoFar
<1>d. QuotesSoFar' <=>
          /\ redone' \/ Consistent(responses')
          /\ gen'.stage = "store" \/ (gen'.stage = "check" /\ gen'.repairs > 0) =>
                 gen'.text \in Answers /\ gen'.text.quotes = Before(responses', gen'.batch)
    BY DEF QuotesSoFar, Before
<1> HIDE DEF Consistent
<1>1. CASE \E a \in Invocations : Generate(a)
    BY <1>1, <1>c, <1>d DEF Generate, GenOff, disk
<1>2. CASE Reuse
    BY <1>2, <1>c, <1>d DEF Reuse, disk, GenIInv, GenTypeOK, Running, AcceptedSoFar
<1>3. CASE StopOverBudget \/ Exhausted \/ ApiError
    BY <1>3, <1>c, <1>d DEF StopOverBudget, Exhausted, ApiError, EndsWith, GenOff
<1>4. CASE Store
  <2>1. gen.stage = "store" /\ gen.text.quotes = Before(responses, b0) /\ gen.text \in Answers
    BY <1>4, <1>e DEF Store
  <2>2. CASE gen.repairs = 0
    <3>1. /\ responses' = [responses EXCEPT ![b0] = gen.text]
          /\ redone' = (redone \/ IsValid(responses[b0]))
          /\ gen'.stage = "check" /\ gen'.repairs = 0
        BY <1>4, <2>2 DEF Store, GenIInv, GenTypeOK, Running
    <3>2. ASSUME ~redone' PROVE Consistent(responses')
        BY <1>a, <1>b, <1>c, <2>1, <3>1, <3>2
    <3> QED
        BY <1>d, <3>1, <3>2
  <2>3. CASE gen.repairs # 0
    BY <1>4, <1>c, <1>d, <2>1, <2>3 DEF Store, GenIInv, GenTypeOK, Running
  <2> QED
    BY <2>2, <2>3
<1>5. CASE Accept
  <2>1. /\ gen.stage = "check" /\ responses' = [responses EXCEPT ![b0] = gen.text]
        /\ redone' = redone /\ gen'.stage \in {"fetch", "finish"}
    BY <1>5 DEF Accept, GenIInv, GenTypeOK, Running
  <2>2. CASE gen.repairs = 0
    <3>1. responses' = responses
        BY <1>0, <2>1, <2>2 DEF GenIInv, AttemptsSoFar
    <3> QED
        BY <1>c, <1>d, <2>1, <3>1
  <2>3. CASE gen.repairs # 0
    <3>1. gen.repairs > 0 /\ ~IsValid(responses[b0])
        BY <2>1, <2>3 DEF GenIInv, GenTypeOK, Running, AttemptsSoFar
    <3>2. ASSUME ~redone PROVE Consistent(responses')
        BY <1>a, <1>b, <1>c, <2>1, <3>1, <3>2
    <3> QED
        BY <1>d, <2>1, <3>2
  <2> QED
    BY <2>2, <2>3
<1>6. CASE \E valid \in BOOLEAN, reply \in Replies : Call(valid, reply)
  <2>1. PICK valid \in BOOLEAN, reply \in Replies : Call(valid, reply)
    BY <1>6
  <2>2. gen.stage \in {"fetch", "check"} /\ responses' = responses /\ redone' = redone
    BY <2>1 DEF Call, Asking, disk
  <2>3. [k \in DOMAIN gen.accepted |-> gen.accepted[k].id] = Before(responses, b0)
    BY <1>b, <2>2 DEF Before
  <2>4. gen'.batch = b0 /\ gen'.text.quotes = Before(responses, b0)
    BY <2>1, <2>3 DEF Call, GenIInv, GenTypeOK, Running
  <2>5. gen'.text \in Answers
    <3>1. /\ [k \in DOMAIN gen.accepted |-> gen.accepted[k].id] \in Seq(Nat)
          /\ calls + 1 \in Nat
        BY IdsType DEF GenIInv, GenTypeOK, Running
    <3>2. gen'.text = [id |-> calls + 1, valid |-> valid,
                       quotes |-> [k \in DOMAIN gen.accepted |-> gen.accepted[k].id]]
        BY <2>1 DEF Call, GenIInv, GenTypeOK, Running
    <3> QED
        BY <2>1, <3>1, <3>2, AnswerType, Zenon
  <2> QED
    BY <1>c, <1>d, <2>2, <2>4, <2>5
<1>7. CASE \E passed \in BOOLEAN : Finish(passed)
    BY <1>7, <1>c, <1>d DEF Finish, EndsWith, GenOff
<1>8. CASE KillGeneration
  <2>1. gen'.stage = "off"
    BY <1>8 DEF KillGeneration, GenOff
  <2>2. CASE UNCHANGED <<responses, redone>>
    BY <1>c, <1>d, <2>1, <2>2
  <2>3. CASE /\ \/ gen.stage = "store" /\ gen.repairs = 0
                \/ gen.stage = "check" /\ IsValid(gen.text) /\ gen.repairs > 0
             /\ \E left \in {gen.text, Torn} : responses' = [responses EXCEPT ![b0] = left]
             /\ redone' = (redone \/ IsValid(responses[b0]))
    <3>1. PICK left \in {gen.text, Torn} : responses' = [responses EXCEPT ![b0] = left]
        BY <2>3
    <3>2. IsValid(left) => left.quotes = Before(responses, b0)
        BY <1>e, <2>3, <3>1 DEF IsValid, Readable
    <3>3. ASSUME ~redone' PROVE Consistent(responses')
        BY <1>a, <1>b, <1>c, <2>3, <3>1, <3>2, <3>3
    <3> QED
        BY <1>d, <2>1, <3>3
  <2> QED
    BY <1>8, <2>2, <2>3 DEF KillGeneration
<1>9. CASE UNCHANGED generation
    BY <1>9, <1>c, <1>d DEF generation
<1> QED
    BY <1>1, <1>2, <1>3, <1>4, <1>5, <1>6, <1>7, <1>8, <1>9, GenCases

\* The population that is written: what was accepted, which is what is on disk.
LEMMA WrittenStep ==
    GenIInv /\ QuotesSoFar /\ Written /\ [GenNext]_generation => Written'
<1> SUFFICES ASSUME GenIInv, QuotesSoFar, Written, [GenNext]_generation PROVE Written'
    OBVIOUS
<1>0. ASSUME population' = population, redone => redone' PROVE BatchesQuoteEachOther'
    BY <1>0 DEF Written, BatchesQuoteEachOther
<1>1. CASE \E a \in Invocations : Generate(a)
    BY <1>0, <1>1 DEF Generate, GenOff, disk, Written
<1>2. CASE Reuse \/ Store \/ Accept
  <2>1. gen'.stage # "off" /\ population' = population
    BY <1>2 DEF Reuse, Store, Accept, disk, GenIInv, GenTypeOK, Running
  <2>2. redone => redone'
    BY <1>2, Zenon DEF Reuse, Store, Accept
  <2> QED
    BY <1>0, <2>1, <2>2 DEF Written
<1>3. CASE StopOverBudget \/ Exhausted \/ ApiError
    BY <1>3 DEF StopOverBudget, Exhausted, ApiError, EndsWith, Written, BatchesQuoteEachOther
<1>4. CASE \E valid \in BOOLEAN, reply \in Replies : Call(valid, reply)
    BY <1>4 DEF Call, disk, Written, BatchesQuoteEachOther, GenIInv, GenTypeOK, Running
<1>5. ASSUME gen.stage = "finish"
      PROVE  /\ gen.accepted = responses
             /\ redone \/ \A b \in DOMAIN responses :
                    responses[b].quotes = [k \in 1..b - 1 |-> responses[k].id]
  <2>1. gen.accepted \in Seq(Answers) /\ Len(gen.accepted) = Batches /\ Batches \in Nat
    BY <1>5, InvocationTypes DEF GenIInv, GenTypeOK, Running, AcceptedSoFar
  <2>2. DOMAIN responses = 1..Batches /\ DOMAIN gen.accepted = 1..Batches
    BY <2>1 DEF GenIInv, GenTypeOK
  <2>3. \A b \in 1..Batches : responses[b] = gen.accepted[b] /\ IsValid(responses[b])
    BY <2>1 DEF GenIInv, AcceptedSoFar
  <2>4. gen.accepted = responses
    BY <2>1, <2>2, <2>3 DEF GenIInv, GenTypeOK
  <2> QED
    BY <2>2, <2>3, <2>4 DEF QuotesSoFar, Before
<1>6. CASE \E passed \in BOOLEAN : Finish(passed)
  <2>1. PICK passed \in BOOLEAN : Finish(passed)
    BY <1>6
  <2>2. CASE passed
    BY <1>5, <2>1, <2>2 DEF Finish, EndsWith, Written, BatchesQuoteEachOther
  <2>3. CASE ~passed
    BY <2>1, <2>3 DEF Finish, EndsWith, Written, BatchesQuoteEachOther
  <2> QED
    BY <2>2, <2>3
<1>7. CASE KillGeneration
  <2>1. cut' = TRUE /\ (redone => redone')
    <3>1. cut' = TRUE
        BY <1>7 DEF KillGeneration
    <3>2. \/ UNCHANGED <<responses, population, redone>>
          \/ redone' = (redone \/ IsValid(responses[gen.batch]))
          \/ UNCHANGED <<responses, redone>>
        BY <1>7, Zenon DEF KillGeneration
    <3>3. redone => redone'
        BY <3>2, Zenon
    <3> QED
        BY <3>1, <3>3
  <2>2. CASE population' = population
    BY <1>0, <2>1, <2>2 DEF Written
  <2>3. CASE gen.stage = "finish" /\ population' \in {gen.accepted, Torn} /\ redone' = redone
    BY <1>5, <2>1, <2>3 DEF Written, BatchesQuoteEachOther, Readable
  <2> QED
    BY <1>7, <2>2, <2>3 DEF KillGeneration
<1>8. CASE UNCHANGED generation
    BY <1>8 DEF generation, disk, Written, BatchesQuoteEachOther
<1> QED
    BY <1>1, <1>2, <1>3, <1>4, <1>6, <1>7, <1>8, GenCases

-----------------------------------------------------------------------------
\* The invariant of the generator: types, what is accepted, what the attempts left on
\* disk, what was spent, whom the responses quote and what was written.
THEOREM GenerationInvariant == GenSpec => [](GenIInv /\ QuotesSoFar /\ Written)
<1>1. GenInit => GenIInv /\ QuotesSoFar /\ Written
  <2>1. ASSUME GenInit PROVE QuotesSoFar
    BY <2>1 DEF GenInit, GenOff, QuotesSoFar, IsValid, Readable
  <2>2. ASSUME GenInit PROVE Written
    BY <2>2 DEF GenInit, Written, BatchesQuoteEachOther, Readable
  <2> QED
    BY <2>1, <2>2, GenInitInvariant
<1>2. /\ GenIInv /\ QuotesSoFar /\ Written /\ [GenNext]_generation
      => GenIInv' /\ QuotesSoFar' /\ Written'
    BY GenStepInvariant, QuotesStep, WrittenStep
<1> QED
    BY <1>1, <1>2, PTL DEF GenSpec

\* generate_pc_build_population.py:1228: what an invocation accepts, and what it declares
\* complete, is what a later one finds on disk.
THEOREM GenerationIsCanonical == GenSpec => []AcceptedAreCanonical
<1>1. GenIInv /\ Written => AcceptedAreCanonical
  <2> SUFFICES ASSUME GenIInv, Written PROVE AcceptedAreCanonical
    OBVIOUS
  <2>1. DOMAIN gen.accepted = 1..Len(gen.accepted)
    BY DEF GenIInv, GenTypeOK, Running
  <2> QED
    BY <2>1 DEF GenIInv, AcceptedSoFar, Written, AcceptedAreCanonical
<1> QED
    BY <1>1, GenerationInvariant, PTL

\* generate_pc_build_population.py:937-940: whatever calls turn out to cost, an invocation
\* passes its ceiling by one call at most, first calls and repairs together.
THEOREM GenerationPassesCeilingOnce == GenSpec => []CeilingPassedByOneCall
<1>1. GenIInv => CeilingPassedByOneCall
    BY DEF GenIInv
<1> QED
    BY <1>1, GenerationInvariant, PTL

\* generate_pc_build_population.py:990-1000: every batch of a population was asked for in
\* view of the batches before it, over any number of resumed or killed invocations,
\* unless a valid response was replaced.
THEOREM GenerationQuotesItself == GenSpec => []BatchesQuoteEachOther
<1>1. Written => BatchesQuoteEachOther
    BY DEF Written
<1> QED
    BY <1>1, GenerationInvariant, PTL

\* A step of a resumed invocation neither pays for a valid response nor replaces it.
LEMMA ResumeStep ==
    GenIInv /\ [GenNext]_generation =>
        [LET b == gen.batch
         IN  gen.stage # "off" /\ gen.args.resume /\ b \notin gen.args.regenerate
                 /\ IsValid(responses[b])
             => calls' = calls /\ responses' = responses]_generation
<1>1. ASSUME GenIInv, [GenNext]_generation, gen.stage # "off", gen.args.resume,
             gen.batch \notin gen.args.regenerate, IsValid(responses[gen.batch])
      PROVE  calls' = calls /\ responses' = responses
  <2>1. responses[gen.batch] # NoFile /\ Reusable
    BY <1>1 DEF IsValid, Readable, Reusable
  <2>2. ~(gen.stage = "store" /\ gen.repairs = 0)
    BY <1>1, <2>1 DEF GenIInv, AttemptsSoFar
  <2>3. gen.stage \in {"store", "check"} => gen.repairs = 0
    BY <1>1 DEF GenIInv, GenTypeOK, Running, AttemptsSoFar
  <2>4. gen.stage = "check" => gen.text = responses[gen.batch] /\ IsValid(gen.text)
    BY <1>1, <2>3 DEF GenIInv, AttemptsSoFar
  <2>5. ~Asking
    BY <1>1, <2>1, <2>4 DEF Asking
  <2>6. CASE Accept
    BY <1>1, <2>4, <2>6 DEF Accept, GenIInv, GenTypeOK
  <2>7. CASE KillGeneration
    BY <2>2, <2>3, <2>7 DEF KillGeneration
  <2>8. CASE (\E a \in Invocations : Generate(a)) \/ Reuse \/ Store \/ Exhausted
             \/ \E passed \in BOOLEAN : Finish(passed)
    BY <2>2, <2>3, <2>8 DEF Generate, Reuse, Store, Exhausted, Finish, EndsWith, disk
  <2>9. CASE StopOverBudget \/ ApiError
             \/ \E valid \in BOOLEAN, reply \in Replies : Call(valid, reply)
    BY <2>5, <2>9 DEF StopOverBudget, ApiError, Call
  <2>10. CASE UNCHANGED generation
    BY <2>10 DEF generation, disk
  <2> QED
    BY <1>1, <2>6, <2>7, <2>8, <2>9, <2>10, GenCases
<1> QED
    BY <1>1

\* generate_pc_build_population.py:964: a resumed invocation does not pay twice.
THEOREM GenerationResumes == GenSpec => ResumePaysOnce
<1> QED
    BY ResumeStep, GenerationInvariant, PTL DEF GenSpec, ResumePaysOnce

-----------------------------------------------------------------------------
(* The workspace.                                                          *)

\* The populations that can be written, and the scenarios of the grid.
Populations == [1..Batches -> Answers]
Scenarios == [goods : Sizes, persons : UNION {[Sample(n) -> Nat] : n \in Sizes}]

\* The cases of the grid.
GridCases == {case \in [goods : Sizes, bidders : Sizes] :
                 Sample(case.bidders) \subseteq Sample(MasterBidders(case.goods))}

-----------------------------------------------------------------------------
(* The grid.                                                               *)

\* A master pack has enough bidders for every case of its goods.
LEMMA MasterBiddersIs ==
    ASSUME NEW goods \in Sizes
    PROVE  /\ MasterBidders(goods) \in Sizes
           /\ MasterBidders(goods) >= FixedSize /\ MasterBidders(goods) >= goods
           /\ goods = FixedSize => \A n \in Sizes : MasterBidders(goods) >= n
<1> DEFINE S == {FixedSize, goods} \cup IF goods = FixedSize THEN Sizes ELSE {}
<1>1. /\ S \subseteq Sizes /\ S # {} /\ FixedSize \in S /\ goods \in S
      /\ goods = FixedSize => Sizes \subseteq S
    BY GridAssumption
<1>2. IsFiniteSet(S) /\ S \subseteq Int
    <2> HIDE DEF S
    <2> QED
        BY <1>1, GridAssumption, FS_Subset
<1>3. MasterBidders(goods) = Max(S)
    BY DEF MasterBidders
<1> HIDE DEF S
<1>4. Max(S) \in S /\ \A y \in S : y <= Max(S)
    BY <1>1, <1>2, MaxIsGreatest
<1>5. \A x, y \in Int : x <= y => y >= x
    OBVIOUS
<1>6. Max(S) \in Int
    BY <1>2, <1>4
<1> QED
    BY <1>1, <1>2, <1>3, <1>4, <1>5, <1>6

\* Samples are nested, and drawn from the population.
LEMMA SampleIs ==
    ASSUME NEW n \in Sizes
    PROVE  /\ Sample(n) \subseteq 1..Batches
           /\ \A m \in Sizes : m >= n => Sample(n) \subseteq Sample(m)
<1>1. /\ \A m \in Sizes : m \in Nat /\ m <= Len(CoverageOrder)
      /\ Len(CoverageOrder) \in Nat /\ DOMAIN CoverageOrder = 1..Len(CoverageOrder)
    BY GridAssumption
<1>2. \A k \in 1..n : k \in DOMAIN CoverageOrder
    BY <1>1
<1>3. Sample(n) \subseteq Range(CoverageOrder)
    BY <1>2 DEF Sample, Range
<1>4. \A m \in Sizes : m >= n => 1..n \subseteq 1..m
    BY <1>1
<1> QED
    BY <1>3, <1>4, ContentsAssumption DEF Sample

\* There is a master for every size and for no other.
LEMMA MastersAre ==
    /\ Masters \in Seq(Sizes) /\ Range(Masters) = Sizes
    /\ Len(Masters) \in Nat \ {0} /\ DOMAIN Masters = 1..Len(Masters)
<1> DEFINE s == [n \in Sizes |-> n]
           N == Cardinality(Sizes)
<1>1. Sizes \in SUBSET Nat /\ IsFiniteSet(Sizes) /\ FixedSize \in Sizes
    BY GridAssumption
<1>2. /\ N \in Nat /\ DOMAIN Picked(s, Sizes) = 1..N
      /\ \A n \in 1..N : \E k \in Sizes : Picked(s, Sizes)[n] = s[k]
      /\ \A k \in Sizes : \E n \in 1..N : Picked(s, Sizes)[n] = s[k]
    <2> HIDE DEF s
    <2> QED
        BY <1>1, PickedIs
<1>3. Masters = Picked(s, Sizes)
    BY DEF Masters
<1>4. /\ DOMAIN Masters = 1..N
      /\ \A n \in 1..N : Masters[n] \in Sizes
      /\ \A k \in Sizes : \E n \in 1..N : Masters[n] = k
    BY <1>2, <1>3
<1>5. Masters = [n \in 1..N |-> Masters[n]]
    BY <1>2, <1>3 DEF Picked
<1> HIDE DEF N
<1>6. Masters \in Seq(Sizes) /\ Len(Masters) = N
    BY <1>2, <1>4, <1>5
<1>7. Range(Masters) = Sizes
    BY <1>4 DEF Range
<1>8. N # 0
    BY <1>1, <1>4
<1> QED
    BY <1>2, <1>4, <1>6, <1>7, <1>8

\* The cases of one size.
LEMMA CasesOfIs ==
    ASSUME NEW n \in Sizes
    PROVE  /\ CasesOf(n) \in Seq(GridCases)
           /\ n = FixedSize => Case(FixedSize, FixedSize) \in Range(CasesOf(n))
<1>1. FixedSize \in Sizes /\ n \in Nat /\ FixedSize \in Nat
    BY GridAssumption
<1>2. /\ MasterBidders(n) \in Sizes /\ MasterBidders(FixedSize) \in Sizes
      /\ MasterBidders(n) >= FixedSize /\ MasterBidders(n) >= n
      /\ MasterBidders(FixedSize) >= n
    BY <1>1, MasterBiddersIs
<1>3. /\ Sample(n) \subseteq Sample(MasterBidders(n))
      /\ Sample(FixedSize) \subseteq Sample(MasterBidders(n))
      /\ Sample(n) \subseteq Sample(MasterBidders(FixedSize))
    BY <1>1, <1>2, SampleIs
<1>4. Case(n, n) \in GridCases /\ Case(n, FixedSize) \in GridCases /\ Case(FixedSize, n) \in GridCases
    BY <1>1, <1>3 DEF Case, GridCases
<1>5. CASE n = FixedSize
    <2>1. CasesOf(n) = <<Case(n, n)>>
        BY <1>5 DEF CasesOf
    <2>2. CasesOf(n) \in Seq(GridCases)
        BY <1>4, <2>1
    <2>3. 1 \in DOMAIN CasesOf(n) /\ CasesOf(n)[1] = Case(FixedSize, FixedSize)
        BY <1>5, <2>1
    <2> QED
        BY <2>2, <2>3 DEF Range
<1>6. CASE n # FixedSize
    BY <1>4, <1>6 DEF CasesOf
<1> QED
    BY <1>5, <1>6

\* The cases are a list of cases of the grid, with that of the fixed size.
LEMMA CasesAre ==
    /\ Cases \in Seq(GridCases) /\ Range(Cases) \subseteq GridCases
    /\ Len(Cases) \in Nat \ {0} /\ DOMAIN Cases = 1..Len(Cases)
    /\ Case(FixedSize, FixedSize) \in Range(Cases)
<1> DEFINE seqs == [k \in DOMAIN Masters |-> CasesOf(Masters[k])]
<1>1. /\ DOMAIN Masters = 1..Len(Masters) /\ Len(Masters) \in Nat
      /\ \A k \in DOMAIN Masters : Masters[k] \in Sizes
    BY MastersAre
<1>2. seqs \in Seq(Seq(GridCases))
    <2>1. \A k \in DOMAIN Masters : CasesOf(Masters[k]) \in Seq(GridCases)
        BY <1>1, CasesOfIs
    <2> QED
        BY <1>1, <2>1
<1>3. \A k \in DOMAIN Masters : k \in DOMAIN seqs /\ seqs[k] = CasesOf(Masters[k])
    OBVIOUS
<1>4. Cases = FlattenSeq(seqs)
    BY DEF Cases
<1> HIDE DEF seqs
<1>5. Cases \in Seq(GridCases) /\ Range(Cases) = UNION {Range(seqs[k]) : k \in DOMAIN seqs}
    BY <1>2, <1>4, FlattenIs
<1>6. PICK k \in DOMAIN Masters : Masters[k] = FixedSize
    BY MastersAre, GridAssumption DEF Range
<1>7. Case(FixedSize, FixedSize) \in Range(Cases)
    <2>1. Case(FixedSize, FixedSize) \in Range(seqs[k])
        BY <1>1, <1>3, <1>6, CasesOfIs
    <2> QED
        BY <1>3, <1>5, <2>1
<1>8. DOMAIN Cases = 1..Len(Cases) /\ Len(Cases) \in Nat /\ \A j \in DOMAIN Cases : Cases[j] \in GridCases
    BY <1>5
<1>9. Range(Cases) \subseteq GridCases /\ Len(Cases) # 0
    BY <1>7, <1>8 DEF Range
<1> QED
    BY <1>5, <1>7, <1>8, <1>9

-----------------------------------------------------------------------------
(* Scenarios and packs.                                                    *)

\* A scenario names the persons of its sample.
LEMMA ScenarioIs ==
    ASSUME NEW p \in Populations, NEW goods \in Sizes, NEW n \in Sizes
    PROVE  /\ Scenario(p, goods, n) \in Scenarios
           /\ Scenario(p, goods, n).goods = goods
           /\ DOMAIN Scenario(p, goods, n).persons = Sample(n)
           /\ \A i \in Sample(n) : /\ Scenario(p, goods, n).persons[i] = p[i].id
                                   /\ p[i].id \in Nat
<1> DEFINE persons == [i \in Sample(n) |-> p[i].id]
<1>1. \A i \in Sample(n) : p[i].id \in Nat
    <2>1. \A i \in Sample(n) : p[i] \in Answers
        BY SampleIs DEF Populations
    <2> QED
        BY <2>1 DEF Answers
<1>2. persons \in [Sample(n) -> Nat] /\ \A i \in Sample(n) : persons[i] = p[i].id
    BY <1>1
<1>3. Scenario(p, goods, n) = [goods |-> goods, persons |-> persons]
    BY DEF Scenario
<1> HIDE DEF persons
<1>4. persons \in UNION {[Sample(m) -> Nat] : m \in Sizes}
    BY <1>2
<1> QED
    BY <1>1, <1>2, <1>3, <1>4 DEF Scenarios

\* Answers of the persons of a scenario, about its goods.
AnswersFor(entries, p, goods, n) ==
    /\ entries \in [Sample(n) -> Entries]
    /\ \A i \in Sample(n) : entries[i].person = p[i].id /\ entries[i].goods = goods

\* They make a pack, which vouches for them and serves its scenario.
LEMMA PackIs ==
    ASSUME NEW p \in Populations, NEW goods \in Sizes, NEW n \in Sizes,
           NEW entries, AnswersFor(entries, p, goods, n),
           NEW pack, pack = Pack(p, Scenario(p, goods, n), entries)
    PROVE  /\ pack \in Packs /\ Readable(pack) /\ IsGenuine(pack)
           /\ pack.spec = p /\ pack.scenario = Scenario(p, goods, n) /\ pack.entries = entries
           /\ IsPackFor(pack, p, Scenario(p, goods, n))
<1> DEFINE scenario == Scenario(p, goods, n)
<1>1. /\ scenario \in Scenarios /\ scenario.goods = goods /\ DOMAIN scenario.persons = Sample(n)
      /\ \A i \in Sample(n) : scenario.persons[i] = p[i].id
    BY ScenarioIs
<1> HIDE DEF scenario
<1>2. pack = [spec |-> p, scenario |-> scenario, entries |-> entries]
    BY DEF Pack, scenario
<1>3. entries \in UNION {[Sample(m) -> Entries] : m \in Sizes} /\ DOMAIN entries = Sample(n)
    BY DEF AnswersFor
<1>4. pack \in Packs
    BY <1>1, <1>2, <1>3 DEF Packs, Populations, Scenarios
<1>5. Readable(pack)
    BY <1>4, ContentsAssumption DEF Readable
<1>6. IsGenuine(pack)
    BY <1>1, <1>2, <1>3 DEF IsGenuine, AnswersFor
<1> QED
    BY <1>2, <1>4, <1>5, <1>6 DEF IsPackFor, scenario

\* The pack of a case, and what makes a pack a master.
Projection(parent, p, case) == Projected(parent, p, Scenario(p, case.goods, case.bidders))
Serves(parent, p, goods) == IsPackFor(parent, p, Scenario(p, goods, MasterBidders(goods)))

\* The pack of a case holds the answers of its master.
LEMMA ProjectionIs ==
    ASSUME NEW p \in Populations, NEW case \in GridCases, NEW parent \in Packs,
           IsGenuine(parent), Serves(parent, p, case.goods)
    PROVE  /\ Projection(parent, p, case) \in Packs
           /\ Readable(Projection(parent, p, case))
           /\ IsGenuine(Projection(parent, p, case))
           /\ Projection(parent, p, case).spec = p
           /\ DOMAIN Projection(parent, p, case).entries = Sample(case.bidders)
           /\ \A i \in Sample(case.bidders) :
                 Projection(parent, p, case).entries[i] = parent.entries[i]
<1> DEFINE g == case.goods
           n == case.bidders
           whole == Scenario(p, g, MasterBidders(g))
           entries == [i \in Sample(n) |-> parent.entries[i]]
<1>1. g \in Sizes /\ n \in Sizes /\ Sample(n) \subseteq Sample(MasterBidders(g))
    BY DEF GridCases
<1>2. MasterBidders(g) \in Sizes
    BY <1>1, MasterBiddersIs
<1>3. parent.scenario = whole
    BY DEF Serves, IsPackFor
<1> HIDE DEF g, n
<1>4. /\ DOMAIN whole.persons = Sample(MasterBidders(g)) /\ whole.goods = g
      /\ \A i \in Sample(MasterBidders(g)) : whole.persons[i] = p[i].id
    BY <1>1, <1>2, ScenarioIs
<1> HIDE DEF whole
<1>5. \A i \in Sample(n) : /\ i \in DOMAIN parent.entries
                           /\ parent.entries[i].person = p[i].id
                           /\ parent.entries[i].goods = g
    BY <1>1, <1>3, <1>4 DEF IsGenuine
<1>6. \A i \in DOMAIN parent.entries : parent.entries[i] \in Entries
    BY DEF Packs
<1>7. AnswersFor(entries, p, g, n)
    BY <1>5, <1>6 DEF AnswersFor
<1>8. DOMAIN Scenario(p, g, n).persons = Sample(n)
    BY <1>1, ScenarioIs
<1>9. Projection(parent, p, case) = Pack(p, Scenario(p, g, n), entries)
    BY <1>8 DEF Projection, Projected, Restrict, g, n
<1>10. DOMAIN entries = Sample(n) /\ \A i \in Sample(n) : entries[i] = parent.entries[i]
    OBVIOUS
<1> HIDE DEF entries
<1> QED
    BY <1>1, <1>7, <1>9, <1>10, PackIs DEF n

-----------------------------------------------------------------------------
(* The invariant.                                                          *)

\* What a pack file and a table may hold.
PackFiles == Packs \cup {NoFile, Torn}
Tables == Results \cup {NoFile, Torn}
RunDirectories ==
    [config : Tables, summary : Tables, sealed : Tables, refinements : Tables,
     exit : {0, 1, 2, NoFile}]

\* The types of the files; a pack vouches for what it holds.
FilesOK ==
    /\ population \in Populations \cup {NoFile, Torn}
    /\ masters \in [Sizes -> PackFiles]
    /\ packs \in [Range(Cases) -> PackFiles]
    /\ \A key \in DOMAIN answers : answers[key] \in Nat
    /\ dirs \in [Directories -> RunDirectories]
    /\ PacksAreGenuine

\* One script runs at a time.
Exclusive ==
    /\ gen.stage # "off" => prep.stage = "off" /\ sweep.stage = "off"
    /\ prep.stage # "off" => sweep.stage = "off"

\* The fields of the running processes.
IsJob(j) == DOMAIN j = {"stage", "mode", "place", "pack", "flags", "entries", "code"}
IsPrep(p) == DOMAIN p = {"stage", "args", "k", "code"}
IsSweep(s) == DOMAIN s = {"stage", "kind", "args", "k", "failures", "code"}

\* The running processes are records of their kind.
Shapes == IsJob(job) /\ IsPrep(prep) /\ IsSweep(sweep)

\* A preparation has a valid master for what it is past, and packs for the cases it is past.
PrepInv ==
    /\ prep.stage \in {"off", "masters", "wait", "cases"} /\ prep.k \in Nat \ {0}
    /\ prep.stage # "off" => population \in Populations
    /\ prep.stage \in {"masters", "wait"} =>
          /\ prep.k <= Len(Masters)
          /\ \A j \in 1..prep.k - 1 :
                Masters[j] # Goods => Serves(masters[Masters[j]], population, Masters[j])
    /\ prep.stage = "cases" =>
          /\ prep.k <= Len(Cases)
          /\ \A goods \in Sizes : Serves(masters[goods], population, goods)
          /\ \A j \in 1..prep.k - 1 :
                packs[Cases[j]] = Projection(masters[Cases[j].goods], population, Cases[j])

\* The subprocess of a preparation elicits its master.
PrepareJobInv ==
    prep.stage = "wait" =>
        /\ job.mode = "prepare" /\ job.stage \in {"elicit", "exited"}
        /\ job.place = Goods
        /\ job.entries = [i \in DOMAIN job.entries |-> job.entries[i]]
        /\ \A i \in DOMAIN job.entries :
              /\ i \in Sample(MasterBidders(Goods)) /\ job.entries[i] \in Entries
              /\ job.entries[i].person = population[i].id /\ job.entries[i].goods = Goods

\* The subprocess of a sweep runs its cell, over the pack of the cell and with the switches of the
\* sweep.
RunJobInv ==
    sweep.stage = "wait" =>
        /\ job.mode = "run"
        /\ job.stage \in {"load", "config", "arms", "summary", "details", "refinements", "exited"}
        /\ job.place = Cell /\ job.pack = packs[Cell] /\ job.flags = sweep.args.flags
        /\ job.stage \notin {"load", "exited"} => job.pack \in Packs

\* A subprocess runs only while its script waits for it, and works for that script.
JobInv ==
    /\ prep.stage = "wait" \/ sweep.stage = "wait" \/ job = NoJob
    /\ PrepareJobInv
    /\ RunJobInv

\* The running subprocess writes its tables in d.
InHand(d) ==
    /\ job.mode = "run" /\ job.place = d
    /\ job.stage \in {"arms", "summary", "details", "refinements"}

\* A directory between two writes of a run, with what the run has written.
Underway(d) ==
    /\ dirs[d].config = Result /\ dirs[d].exit = NoFile
    /\ job.stage \in {"details", "refinements"} => dirs[d].summary = Result
    /\ job.stage = "refinements" => dirs[d].sealed = Result

\* A directory whose last run returned zero, if it has a summary.
Settled(d) == dirs[d].summary # NoFile => dirs[d].exit = 0

\* What a directory holds: the tables of its last run, when that returned zero; those of
\* the run in hand; and if no failure or kill has touched it, no others.
Kept(d) ==
    /\ dirs[d].exit = 0 => IsWhole(dirs[d])
    /\ IF InHand(d) THEN Underway(d) ELSE d \notin disturbed => Settled(d)

\* All directories; and a run that got past its summary has left one.
DirInv ==
    /\ \A d \in Directories : Kept(d)
    /\ job.mode = "run" /\ (\/ job.stage \in {"details", "refinements"}
                            \/ job.stage = "exited" /\ job.code = 0) =>
          dirs[job.place].summary # NoFile

\* The cells a sweep is past have a summary, or are counted as failures.
SweepInv ==
    /\ sweep.stage \in {"off", "cells", "wait"} /\ sweep.k \in Nat \ {0}
    /\ sweep.stage # "off" =>
          /\ sweep.args \in SweepArguments
          /\ sweep.kind \in {"scalability", "final"}
          /\ sweep.k <= Len(Cases) + 1
          /\ \A j \in 1..sweep.k - 1 : Complete(Cases[j]) \/ Cases[j] \in sweep.failures
    /\ sweep.stage = "wait" => sweep.k <= Len(Cases)
    /\ sweep.stage = "off" /\ sweep.kind \in {"scalability", "final"} /\ sweep.code = 0 =>
          \A d \in Directories : Complete(d)

\* While the frozen specification is run, it describes what is on disk.
FinalInv == sweep.kind = "final" /\ sweep.stage # "off" => Verified

\* The generator's part of the invariant.
GenInv == GenIInv /\ QuotesSoFar /\ Written

\* The inductive invariant.
WorkspaceIInv ==
    /\ GenInv /\ FilesOK /\ Exclusive /\ Shapes
    /\ PrepInv /\ PreparedCasesMatchMasters
    /\ JobInv /\ DirInv
    /\ SweepInv /\ FinalInv

-----------------------------------------------------------------------------
(* The kinds of steps: of the generator, of a preparation, of a sweep, and *)
(* of the subprocess that one of these waits for.                          *)

\* A step of the generator, or none.
GenMove ==
    /\ [GenNext]_generation
    /\ UNCHANGED <<batch, preparation, sweeps>>
    /\ UNCHANGED generation \/ (prep.stage = "off" /\ sweep.stage = "off")

\* A step of a preparation.
PrepMove ==
    /\ UNCHANGED <<generation, sweeps>>
    /\ gen.stage = "off" /\ sweep.stage = "off"
    /\ (\E a \in PrepareArguments : Prepare(a)) \/ PrepStep \/ KillPreparation

\* A step of a sweep.
SweepMove ==
    /\ UNCHANGED <<generation, preparation>>
    /\ gen.stage = "off" /\ prep.stage = "off"
    /\ \/ \E a \in SweepArguments : Sweep(a) \/ RunFinal(a)
       \/ FreezeFinal \/ Ablate \/ SweepStep \/ KillSweep

\* A step of a subprocess.
JobMove ==
    /\ UNCHANGED <<generation, preparation, sweeps>>
    /\ gen.stage = "off"
    /\ JobStep \/ JobFailure \/ KillJob

\* Without an invocation the generator does nothing but begin one.
LEMMA GeneratorIdle ==
    ASSUME gen.stage = "off" PROVE ~(GenStep \/ ApiError \/ KillGeneration)
BY DEF GenStep, Reuse, StopOverBudget, Store, Exhausted, Accept, Call, Finish, ApiError,
       KillGeneration, Asking

\* A subprocess runs for a script that waits for it.
LEMMA JobHasParent ==
    ASSUME JobInv, JobStep \/ JobFailure \/ KillJob
    PROVE  /\ prep.stage = "wait" \/ sweep.stage = "wait"
<1>1. job.mode # "none" \/ job.stage # "none"
    BY DEF JobStep, JobFailure, KillJob, Elicit, WritePack, Load, WriteConfig, RunArms,
           WriteSummary, WriteDetails, WriteRefinements, ElicitFails, ArmFails
<1>2. job # NoJob
    BY <1>1 DEF NoJob
<1> QED
    BY <1>2 DEF JobInv

\* Every step is of one of the kinds.
LEMMA WorkspaceCases ==
    ASSUME WorkspaceIInv, [Next]_workspace
    PROVE  GenMove \/ PrepMove \/ SweepMove \/ JobMove
<1> USE DEF WorkspaceIInv
<1>1. ASSUME NEW script \in Scripts, StartScript(script)
      PROVE  GenMove \/ PrepMove \/ SweepMove
    <2>1. gen.stage = "off" /\ prep.stage = "off" /\ sweep.stage = "off"
        BY <1>1 DEF StartScript, Idle
    <2>2. CASE script.tool = "generate" /\ Generate(script.args) /\ UNCHANGED <<batch, preparation, sweeps>>
        <3>1. GenNext
            BY <2>2, ScriptsAssumption DEF GenNext
        <3> QED
            BY <2>1, <2>2, <3>1 DEF GenMove
    <2>3. CASE script.tool = "prepare" /\ Prepare(script.args) /\ UNCHANGED <<generation, sweeps>>
        BY <2>1, <2>3, ScriptsAssumption DEF PrepMove
    <2>4. CASE /\ \/ script.tool = "sweep" /\ Sweep(script.args)
                  \/ script.tool = "freeze" /\ FreezeFinal
                  \/ script.tool = "final" /\ RunFinal(script.args)
                  \/ script.tool = "ablate" /\ Ablate
               /\ UNCHANGED <<generation, preparation>>
        BY <2>1, <2>4, ScriptsAssumption DEF SweepMove
    <2> QED
        BY <1>1, <2>2, <2>3, <2>4 DEF StartScript
<1>2. ASSUME GenStep \/ ApiError \/ KillGeneration, UNCHANGED <<batch, preparation, sweeps>>
      PROVE  GenMove
    BY <1>2, GeneratorIdle DEF GenMove, GenNext, Exclusive
<1>3. ASSUME PrepStep \/ KillPreparation, UNCHANGED <<generation, sweeps>>
      PROVE  PrepMove
    <2>1. prep.stage # "off"
        BY <1>3 DEF PrepStep, KillPreparation, ReuseMaster, RejectMaster, GenerateMaster, MasterExits,
                    ProjectCase
    <2> QED
        BY <1>3, <2>1 DEF PrepMove, Exclusive
<1>4. ASSUME SweepStep \/ KillSweep, UNCHANGED <<generation, preparation>>
      PROVE  SweepMove
    <2>1. sweep.stage # "off"
        BY <1>4 DEF SweepStep, KillSweep, StartCell, SkipCell, CellExits, SweepEnds
    <2> QED
        BY <1>4, <2>1 DEF SweepMove, Exclusive
<1>5. ASSUME JobStep \/ JobFailure \/ KillJob, UNCHANGED <<generation, preparation, sweeps>>
      PROVE  JobMove
    <2>1. prep.stage = "wait" \/ sweep.stage = "wait"
        BY <1>5, JobHasParent
    <2> QED
        BY <1>5, <2>1 DEF JobMove, Exclusive
<1>6. ASSUME UNCHANGED workspace
      PROVE  GenMove
    BY <1>6 DEF GenMove, workspace
<1>7. CASE Mishap
    BY <1>2, <1>3, <1>4, <1>5, <1>7 DEF Mishap
<1>8. CASE Generating \/ Preparing \/ Sweeping \/ JobRunning
    BY <1>2, <1>3, <1>4, <1>5, <1>8 DEF Generating, Preparing, Sweeping, JobRunning
<1>9. CASE SessionOver \/ UNCHANGED workspace
    BY <1>6, <1>9 DEF SessionOver
<1> QED
    BY <1>1, <1>7, <1>8, <1>9 DEF Next

\* Whatever a step is, it is one of the generator as far as that is concerned.
LEMMA GeneratorStep ==
    ASSUME GenMove \/ PrepMove \/ SweepMove \/ JobMove
    PROVE  [GenNext]_generation
BY DEF GenMove, PrepMove, SweepMove, JobMove

-----------------------------------------------------------------------------
(* Steps of the generator.                                                 *)

\* What it writes is a population.
LEMMA PopulationStep ==
    ASSUME GenIInv, [GenNext]_generation, population \in Populations \cup {NoFile, Torn}
    PROVE  population' \in Populations \cup {NoFile, Torn}
<1>1. gen.stage = "finish" => gen.accepted \in Populations
    <2> SUFFICES ASSUME gen.stage = "finish" PROVE gen.accepted \in Populations
        OBVIOUS
    <2>1. gen.accepted \in Seq(Answers) /\ Len(gen.accepted) = Batches
        BY DEF GenIInv, GenTypeOK, Running, AcceptedSoFar
    <2> QED
        BY <2>1 DEF Populations
<1>2. population' = population \/ population' = Torn \/ (gen.stage = "finish" /\ population' = gen.accepted)
    BY GenCases DEF Generate, Reuse, StopOverBudget, Store, Exhausted, Accept, Call, Finish,
           ApiError, KillGeneration, disk, generation
<1> QED
    BY <1>1, <1>2

\* A step of the generator keeps the invariant.
LEMMA GenMoveStep ==
    ASSUME WorkspaceIInv, GenMove
    PROVE  WorkspaceIInv'
<1> USE DEF WorkspaceIInv
<1>1. GenInv'
    BY GeneratorStep, GenStepInvariant, QuotesStep, WrittenStep DEF GenInv
<1>2. population' \in Populations \cup {NoFile, Torn}
    BY GeneratorStep, PopulationStep DEF GenInv, FilesOK
<1>3. UNCHANGED <<masters, packs, answers, dirs, disturbed, job, prep, prepared, sweep, frozen>>
    BY DEF GenMove, batch, packFiles, runFiles, preparation, sweeps
<1>4. CASE UNCHANGED generation
    <2>1. population' = population /\ gen' = gen
        BY <1>4 DEF generation, disk
    <2>2. FilesOK' /\ Exclusive' /\ Shapes' /\ PreparedCasesMatchMasters'
        BY <1>2, <1>3, <2>1 DEF FilesOK, PacksAreGenuine, Exclusive, Shapes, PreparedCasesMatchMasters
    <2>3. PrepInv'
        BY <1>3, <2>1 DEF PrepInv, Goods
    <2>4. JobInv'
        BY <1>3, <2>1 DEF JobInv, PrepareJobInv, RunJobInv, Goods, Cell
    <2>5. DirInv'
        BY <1>3 DEF DirInv, Kept, InHand, Underway, Settled, Result
    <2>6. SweepInv' /\ FinalInv'
        BY <1>3, <2>1 DEF SweepInv, Complete, FinalInv, Verified
    <2> QED
        BY <1>1, <2>2, <2>3, <2>4, <2>5, <2>6
<1>5. CASE prep.stage = "off" /\ sweep.stage = "off"
    <2>1. FilesOK' /\ Exclusive' /\ Shapes' /\ PreparedCasesMatchMasters'
        BY <1>2, <1>3, <1>5 DEF FilesOK, PacksAreGenuine, Exclusive, Shapes, PreparedCasesMatchMasters
    <2>2. PrepInv' /\ JobInv' /\ FinalInv'
        BY <1>3, <1>5 DEF PrepInv, JobInv, PrepareJobInv, RunJobInv, FinalInv
    <2>3. DirInv'
        BY <1>3 DEF DirInv, Kept, InHand, Underway, Settled, Result
    <2>4. SweepInv'
        BY <1>3, <1>5 DEF SweepInv, Complete
    <2> QED
        BY <1>1, <2>1, <2>2, <2>3, <2>4
<1> QED
    BY <1>4, <1>5 DEF GenMove

-----------------------------------------------------------------------------
(* The elicitation of a master.                                            *)

\* A preparation has goods in hand until it comes to the cases.
LEMMA GoodsIs ==
    ASSUME PrepInv, prep.stage \in {"masters", "wait"}
    PROVE  /\ prep.k \in 1..Len(Masters) /\ Goods \in Sizes /\ MasterBidders(Goods) \in Sizes
           /\ population \in Populations
<1>1. prep.k \in 1..Len(Masters) /\ population \in Populations
    BY MastersAre DEF PrepInv
<1>2. Goods \in Sizes
    BY <1>1, MastersAre DEF Goods
<1> QED
    BY <1>1, <1>2, MasterBiddersIs

\* The subprocess works on the scenario of the master, and what it has is part of it.
LEMMA TargetIs ==
    ASSUME PrepInv, PrepareJobInv, prep.stage = "wait"
    PROVE  /\ Target = Scenario(population, Goods, MasterBidders(Goods))
           /\ Target.goods = Goods
           /\ DOMAIN Target.persons = Sample(MasterBidders(Goods))
           /\ \A i \in DOMAIN Target.persons : /\ Target.persons[i] = population[i].id
                                               /\ Target.persons[i] \in Nat
           /\ DOMAIN job.entries \subseteq DOMAIN Target.persons
           /\ DOMAIN job.entries = DOMAIN Target.persons =>
                 AnswersFor(job.entries, population, Goods, MasterBidders(Goods))
<1>1. Goods \in Sizes /\ MasterBidders(Goods) \in Sizes /\ population \in Populations
    BY GoodsIs
<1>2. Target = Scenario(population, Goods, MasterBidders(Goods))
    BY DEF Target, PrepareJobInv
<1>3. /\ Target.goods = Goods
      /\ DOMAIN Target.persons = Sample(MasterBidders(Goods))
      /\ \A i \in Sample(MasterBidders(Goods)) :
            Target.persons[i] = population[i].id /\ Target.persons[i] \in Nat
    BY <1>1, <1>2, ScenarioIs
<1>4. DOMAIN job.entries \subseteq DOMAIN Target.persons
    BY <1>3 DEF PrepareJobInv
<1>5. ASSUME DOMAIN job.entries = DOMAIN Target.persons
      PROVE  AnswersFor(job.entries, population, Goods, MasterBidders(Goods))
    BY <1>3, <1>5 DEF PrepareJobInv, AnswersFor
<1> QED
    BY <1>2, <1>3, <1>4, <1>5

\* Once every bidder was elicited, the pack is a master that serves.
LEMMA TargetPack ==
    ASSUME PrepInv, PrepareJobInv, prep.stage = "wait",
           DOMAIN job.entries = DOMAIN Target.persons,
           NEW pack, pack = Pack(population, Target, job.entries)
    PROVE  pack \in Packs /\ IsGenuine(pack)
<1>1. Goods \in Sizes /\ MasterBidders(Goods) \in Sizes /\ population \in Populations
    BY GoodsIs
<1>2. /\ Target = Scenario(population, Goods, MasterBidders(Goods))
      /\ AnswersFor(job.entries, population, Goods, MasterBidders(Goods))
    BY TargetIs
<1> QED
    BY <1>1, <1>2, PackIs

\* What the subprocess may do to the masters: write the one that it works on, with the
\* answers of its persons.
MasterWritten ==
    \E left \in {NoFile, Torn} \cup {pack \in Packs : IsGenuine(pack)} :
        masters' = [masters EXCEPT ![Goods] = left]

\* The masters stay files of packs that vouch for what they hold.
LEMMA MasterWrittenKeeps ==
    ASSUME FilesOK, Goods \in Sizes, MasterWritten
    PROVE  /\ masters' \in [Sizes -> PackFiles]
           /\ \A goods \in Sizes : goods # Goods => masters'[goods] = masters[goods]
           /\ \A goods \in Sizes : Readable(masters'[goods]) => IsGenuine(masters'[goods])
<1>1. PICK left \in {NoFile, Torn} \cup {pack \in Packs : IsGenuine(pack)} :
          masters' = [masters EXCEPT ![Goods] = left]
    BY DEF MasterWritten
<1>2. left \in PackFiles /\ (Readable(left) => IsGenuine(left))
    BY DEF PackFiles, Readable
<1>3. masters \in [Sizes -> PackFiles]
    BY DEF FilesOK
<1>4. \A goods \in Sizes : Readable(masters[goods]) => IsGenuine(masters[goods])
    BY <1>3 DEF FilesOK, PacksAreGenuine
<1>5. \A goods \in Sizes : masters'[goods] = IF goods = Goods THEN left ELSE masters[goods]
    BY <1>1, <1>3
<1> QED
    BY <1>1, <1>2, <1>3, <1>4, <1>5

\* A job that dies takes no file with it but the one it writes.
LEMMA DyingPreparation ==
    ASSUME PrepInv, JobInv, JobDies, sweep.stage # "wait"
    PROVE  /\ packs' = packs /\ answers' = answers /\ dirs' = dirs /\ disturbed' = disturbed
           /\ prep.stage # "wait" => masters' = masters
           /\ prep.stage = "wait" => masters' = masters \/ MasterWritten
<1>1. CASE prep.stage # "wait"
    <2>1. job.mode = "none"
        BY <1>1 DEF JobInv, NoJob
    <2> QED
        BY <1>1, <2>1 DEF JobDies, MayTear, packFiles
<1>2. CASE prep.stage = "wait"
    <2>1. job.mode = "prepare" /\ job.place = Goods
        BY <1>2 DEF JobInv, PrepareJobInv
    <2>2. packs' = packs /\ answers' = answers /\ dirs' = dirs /\ disturbed' = disturbed
        BY <2>1 DEF JobDies, MayTear, packFiles
    <2>3. CASE masters' = masters
        BY <1>2, <2>2, <2>3
    <2>4. CASE /\ DOMAIN job.entries = DOMAIN Target.persons
               /\ \E left \in {Pack(population, Target, job.entries), Torn} :
                      masters' = [masters EXCEPT ![job.place] = left]
        <3>1. PICK left \in {Pack(population, Target, job.entries), Torn} :
                  masters' = [masters EXCEPT ![job.place] = left]
            BY <2>4
        <3>2. left \in {NoFile, Torn} \cup {pack \in Packs : IsGenuine(pack)}
            BY <1>2, <2>4, TargetPack DEF JobInv
        <3> QED
            BY <1>2, <2>1, <2>2, <3>1, <3>2 DEF MasterWritten
    <2> QED
        BY <2>1, <2>3, <2>4 DEF JobDies, MayTear, packFiles
<1> QED
    BY <1>1, <1>2

-----------------------------------------------------------------------------
(* Steps of a preparation.                                                 *)

\* Its actions.
LEMMA PrepCases ==
    ASSUME PrepMove
    PROVE  \/ \E a \in PrepareArguments : Prepare(a)
           \/ ReuseMaster \/ RejectMaster \/ GenerateMaster \/ MasterExits \/ ProjectCase
           \/ KillPreparation
BY DEF PrepMove, PrepStep

\* A case in hand has a master that serves it.
LEMMA CaseInHand ==
    ASSUME FilesOK, PrepInv, prep.stage = "cases"
    PROVE  /\ population \in Populations
           /\ prep.k \in 1..Len(Cases) /\ PreparedCase \in Range(Cases)
           /\ \A case \in Range(Cases) :
                 /\ case \in GridCases /\ case.goods \in Sizes
                 /\ masters[case.goods] \in Packs
                 /\ IsGenuine(masters[case.goods])
                 /\ Serves(masters[case.goods], population, case.goods)
<1>1. prep.k \in 1..Len(Cases) /\ population \in Populations
    BY CasesAre DEF PrepInv
<1>2. PreparedCase \in Range(Cases)
    BY <1>1, CasesAre DEF PreparedCase, Range
<1>3. ASSUME NEW case \in Range(Cases)
      PROVE  /\ case \in GridCases /\ case.goods \in Sizes
             /\ masters[case.goods] \in Packs
             /\ IsGenuine(masters[case.goods])
             /\ Serves(masters[case.goods], population, case.goods)
    <2>1. case \in GridCases /\ case.goods \in Sizes
        BY <1>3, CasesAre DEF GridCases
    <2>2. Serves(masters[case.goods], population, case.goods)
        BY <2>1 DEF PrepInv
    <2>3. Readable(masters[case.goods])
        BY <2>2 DEF Serves, IsPackFor
    <2>4. masters[case.goods] \in Packs /\ IsGenuine(masters[case.goods])
        BY <2>1, <2>3 DEF FilesOK, PackFiles, PacksAreGenuine, Readable
    <2> QED
        BY <2>1, <2>2, <2>4
<1> QED
    BY <1>1, <1>2, <1>3

\* What a step of a preparation leaves alone.
LEMMA PrepFrame ==
    ASSUME WorkspaceIInv, PrepMove
    PROVE  /\ population' = population /\ gen' = gen
           /\ UNCHANGED <<sweep, frozen, dirs, disturbed, answers>>
           /\ job.mode # "run" /\ job'.mode # "run"
           /\ masters' = masters \/ (prep.stage = "wait" /\ MasterWritten)
<1> USE DEF WorkspaceIInv
<1>1. population' = population /\ gen' = gen /\ sweep' = sweep /\ sweep.stage = "off"
      /\ frozen' = frozen
    BY DEF PrepMove, generation, disk, sweeps
<1>2. job.mode # "run"
    BY <1>1 DEF JobInv, PrepareJobInv, NoJob
<1>3. CASE \E a \in PrepareArguments : Prepare(a)
    BY <1>1, <1>2, <1>3 DEF Prepare, batch, packFiles, runFiles
<1>4. CASE ReuseMaster
    BY <1>1, <1>2, <1>4 DEF ReuseMaster, batch, packFiles, runFiles
<1>5. CASE RejectMaster
    BY <1>1, <1>2, <1>5 DEF RejectMaster, batch, packFiles, runFiles
<1>6. CASE GenerateMaster
    <2>1. job'.mode = "prepare"
        BY <1>6 DEF GenerateMaster, PrepareJob, NoJob
    <2> QED
        BY <1>1, <1>2, <1>6, <2>1 DEF GenerateMaster, packFiles, runFiles
<1>7. CASE MasterExits
    BY <1>1, <1>2, <1>7 DEF MasterExits, packFiles, runFiles, NoJob
<1>8. CASE ProjectCase
    BY <1>1, <1>2, <1>8 DEF ProjectCase, runFiles
<1>9. CASE KillPreparation
    <2>1. job'.mode # "run"
        BY <1>9 DEF KillPreparation, NoJob
    <2>2. CASE JobDies
        BY <1>1, <1>2, <2>1, <2>2, DyingPreparation
    <2>3. CASE UNCHANGED <<masters, answers, runFiles>>
        BY <1>1, <1>2, <2>1, <2>3 DEF runFiles
    <2> QED
        BY <1>9, <2>2, <2>3 DEF KillPreparation
<1> QED
    BY <1>3, <1>4, <1>5, <1>6, <1>7, <1>8, <1>9, PrepCases

\* What it does to the packs of the cases: the pack of the case in hand is projected, or
\* cut short by a kill.
LEMMA PrepPacks ==
    ASSUME WorkspaceIInv, PrepMove
    PROVE  \/ packs' = packs
           \/ /\ prep.stage = "cases" /\ ProjectCase
              /\ packs' = [packs EXCEPT ![PreparedCase] =
                     Projection(masters[PreparedCase.goods], population, PreparedCase)]
           \/ /\ prep.stage = "cases" /\ prep'.stage = "off" /\ masters' = masters
              /\ packs' = [packs EXCEPT ![PreparedCase] = Torn]
<1> USE DEF WorkspaceIInv
<1>1. CASE ProjectCase
    BY <1>1 DEF ProjectCase, Projection, CaseScenario
<1>2. CASE KillPreparation
    <2>1. prep'.stage = "off"
        BY <1>2 DEF KillPreparation, PrepOff
    <2>2. sweep.stage # "wait"
        BY DEF PrepMove
    <2> QED
        BY <1>2, <2>1, <2>2, DyingPreparation DEF KillPreparation
<1>3. CASE \/ \E a \in PrepareArguments : Prepare(a)
           \/ ReuseMaster \/ RejectMaster \/ GenerateMaster \/ MasterExits
    BY <1>3 DEF Prepare, ReuseMaster, RejectMaster, GenerateMaster, MasterExits, batch, packFiles
<1> QED
    BY <1>1, <1>2, <1>3, PrepCases

\* Types are kept, and every pack vouches for what it holds.
LEMMA PrepFilesStep ==
    ASSUME WorkspaceIInv, PrepMove
    PROVE  FilesOK'
<1> USE DEF WorkspaceIInv
<1>1. /\ masters' \in [Sizes -> PackFiles]
      /\ \A goods \in Sizes : Readable(masters'[goods]) => IsGenuine(masters'[goods])
    <2>1. CASE masters' = masters
        BY <2>1 DEF FilesOK, PacksAreGenuine
    <2>2. CASE prep.stage = "wait" /\ MasterWritten
        BY <2>2, GoodsIs, MasterWrittenKeeps
    <2> QED
        BY <2>1, <2>2, PrepFrame
<1>2. /\ packs \in [Range(Cases) -> PackFiles]
      /\ \A case \in Range(Cases) : Readable(packs[case]) => IsGenuine(packs[case])
    BY DEF FilesOK, PacksAreGenuine
<1>3. ASSUME NEW left \in PackFiles, Readable(left) => IsGenuine(left), prep.stage = "cases",
             packs' = [packs EXCEPT ![PreparedCase] = left]
      PROVE  /\ packs' \in [Range(Cases) -> PackFiles]
             /\ \A case \in Range(Cases) : Readable(packs'[case]) => IsGenuine(packs'[case])
    BY <1>2, <1>3
<1>4. /\ packs' \in [Range(Cases) -> PackFiles]
      /\ \A case \in Range(Cases) : Readable(packs'[case]) => IsGenuine(packs'[case])
    <2>1. CASE packs' = packs
        BY <1>2, <2>1
    <2>2. CASE /\ prep.stage = "cases"
               /\ packs' = [packs EXCEPT ![PreparedCase] =
                      Projection(masters[PreparedCase.goods], population, PreparedCase)]
        <3> DEFINE left == Projection(masters[PreparedCase.goods], population, PreparedCase)
        <3>1. left \in Packs /\ IsGenuine(left)
            BY <2>2, CaseInHand, ProjectionIs
        <3>2. left \in PackFiles
            BY <3>1 DEF PackFiles
        <3> HIDE DEF left
        <3> QED
            BY <1>3, <2>2, <3>1, <3>2 DEF left
    <2>3. CASE prep.stage = "cases" /\ packs' = [packs EXCEPT ![PreparedCase] = Torn]
        BY <1>3, <2>3 DEF PackFiles, Readable
    <2> QED
        BY <2>1, <2>2, <2>3, PrepPacks
<1>5. DOMAIN masters' = Sizes /\ DOMAIN packs' = Range(Cases)
    BY <1>1, <1>4
<1>6. UNCHANGED <<population, answers, dirs>>
    BY PrepFrame
<1> QED
    BY <1>1, <1>4, <1>5, <1>6 DEF FilesOK, PacksAreGenuine

\* The next master, once the one in hand serves.
LEMMA NextMasterStep ==
    ASSUME WorkspaceIInv, prep.stage \in {"masters", "wait"},
           Serves(masters[Goods], population, Goods), NextMaster,
           UNCHANGED <<population, masters, packs>>
    PROVE  PrepInv' /\ prep'.stage \in {"masters", "cases"}
<1> USE DEF WorkspaceIInv
<1>1. /\ prep.k \in 1..Len(Masters) /\ Goods \in Sizes /\ population \in Populations
      /\ Goods = Masters[prep.k]
    BY GoodsIs DEF Goods
<1>2. ASSUME NEW j \in 1..prep.k
      PROVE  Serves(masters[Masters[j]], population, Masters[j])
    <2>1. CASE Masters[j] = Goods
        BY <2>1
    <2>2. CASE Masters[j] # Goods
        <3>1. j \in 1..prep.k - 1
            BY <1>1, <2>2, MastersAre
        <3> QED
            BY <2>2, <3>1 DEF PrepInv
    <2> QED
        BY <2>1, <2>2
<1>3. CASE prep.k = Len(Masters)
    <2>1. prep'.stage = "cases" /\ prep'.k = 1
        BY <1>3 DEF NextMaster, Shapes, IsPrep
    <2>2. \A goods \in Sizes : Serves(masters[goods], population, goods)
        BY <1>2, <1>3, MastersAre DEF Range
    <2>3. 1 <= Len(Cases) /\ 1 \in Nat \ {0} /\ 1..1 - 1 = {}
        BY CasesAre
    <2> QED
        BY <1>1, <2>1, <2>2, <2>3 DEF PrepInv
<1>4. CASE prep.k # Len(Masters)
    <2>1. prep'.stage = "masters" /\ prep'.k = prep.k + 1
        BY <1>4 DEF NextMaster, Shapes, IsPrep
    <2>2. prep.k + 1 <= Len(Masters) /\ prep.k + 1 \in Nat \ {0} /\ prep'.k - 1 = prep.k
        BY <1>1, <1>4, <2>1, MastersAre
    <2> QED
        BY <1>1, <1>2, <2>1, <2>2 DEF PrepInv
<1> QED
    BY <1>3, <1>4

\* The preparation keeps what it is past.
LEMMA PrepInvStep ==
    ASSUME WorkspaceIInv, PrepMove
    PROVE  PrepInv'
<1> USE DEF WorkspaceIInv
<1>0. UNCHANGED population
    BY PrepFrame
<1>1. ASSUME prep'.stage = "off", prep'.k = 1
      PROVE  PrepInv'
    BY <1>1 DEF PrepInv
<1>2. \A code : PrepOff(code).stage = "off" /\ PrepOff(code).k = 1
    BY DEF PrepOff
<1>3. CASE \E a \in PrepareArguments : Prepare(a)
    <2>1. PICK a \in PrepareArguments : Prepare(a)
        BY <1>3
    <2>2. CASE prep' = PrepOff(2) \/ prep' = PrepOff(1)
        BY <1>1, <1>2, <2>2
    <2>3. CASE Readable(population) /\ prep' = [PrepOff(NoFile) EXCEPT !.stage = "masters", !.args = a]
        <3>1. population \in Populations
            BY <2>3 DEF FilesOK, Readable
        <3>2. prep'.stage = "masters" /\ prep'.k = 1
            BY <2>3 DEF PrepOff
        <3>3. 1 <= Len(Masters) /\ 1 \in Nat \ {0} /\ 1..1 - 1 = {}
            BY MastersAre
        <3> QED
            BY <1>0, <3>1, <3>2, <3>3 DEF PrepInv
    <2> QED
        BY <2>1, <2>2, <2>3 DEF Prepare
<1>4. CASE ReuseMaster
    <2>1. prep.stage = "masters" /\ Serves(masters[Goods], population, Goods)
        BY <1>4 DEF ReuseMaster, MasterScenario, Serves
    <2>2. NextMaster /\ UNCHANGED <<population, masters, packs>>
        BY <1>4 DEF ReuseMaster, batch, packFiles
    <2> QED
        BY <2>1, <2>2, NextMasterStep
<1>5. CASE RejectMaster
    BY <1>1, <1>2, <1>5 DEF RejectMaster
<1>6. CASE GenerateMaster
    <2>1. prep.stage = "masters" /\ prep'.stage = "wait" /\ prep'.k = prep.k
        BY <1>6 DEF GenerateMaster, Shapes, IsPrep
    <2>2. UNCHANGED <<population, masters, packs>>
        BY <1>6 DEF GenerateMaster, packFiles
    <2> QED
        BY <2>1, <2>2 DEF PrepInv, Goods
<1>7. CASE MasterExits
    <2>1. prep.stage = "wait" /\ UNCHANGED <<population, masters, packs>>
        BY <1>7 DEF MasterExits, packFiles
    <2>2. CASE IsPackFor(masters[Goods], population, MasterScenario) /\ NextMaster
        <3>1. Serves(masters[Goods], population, Goods)
            BY <2>2 DEF MasterScenario, Serves
        <3> QED
            BY <2>1, <2>2, <3>1, NextMasterStep
    <2>3. CASE prep' = PrepOff(job.code) \/ prep' = PrepOff(1)
        BY <1>1, <1>2, <2>3
    <2> QED
        BY <1>7, <2>2, <2>3 DEF MasterExits
<1>8. CASE ProjectCase
    <2>1. prep.stage = "cases"
        BY <1>8 DEF ProjectCase
    <2>2. CASE prep' = PrepOff(1) \/ prep' = PrepOff(0)
        BY <1>1, <1>2, <2>2
    <2>3. CASE /\ packs' = [packs EXCEPT ![PreparedCase] =
                      Projection(masters[PreparedCase.goods], population, PreparedCase)]
               /\ prep.k < Len(Cases) /\ prep' = [prep EXCEPT !.k = @ + 1]
        <3>1. prep'.stage = "cases" /\ prep'.k = prep.k + 1
            BY <2>1, <2>3 DEF Shapes, IsPrep
        <3>2. masters' = masters
            BY <1>8 DEF ProjectCase
        <3>3. /\ prep.k \in 1..Len(Cases) /\ population \in Populations
              /\ PreparedCase \in Range(Cases) /\ PreparedCase = Cases[prep.k]
            BY <2>1, CaseInHand DEF PreparedCase
        <3>4. prep'.k <= Len(Cases) /\ prep'.k \in Nat \ {0} /\ prep'.k - 1 = prep.k
            BY <2>3, <3>1, <3>3, CasesAre
        <3>5. ASSUME NEW j \in 1..prep.k
              PROVE  packs'[Cases[j]] = Projection(masters[Cases[j].goods], population, Cases[j])
            <4>1. j \in 1..Len(Cases) /\ Cases[j] \in Range(Cases)
                BY <3>3, CasesAre DEF Range
            <4>2. packs \in [Range(Cases) -> PackFiles]
                BY DEF FilesOK
            <4>3. CASE Cases[j] = PreparedCase
                BY <2>3, <4>1, <4>2, <4>3
            <4>4. CASE Cases[j] # PreparedCase
                <5>1. j \in 1..prep.k - 1
                    BY <3>3, <4>4, CasesAre
                <5>2. packs[Cases[j]] = Projection(masters[Cases[j].goods], population, Cases[j])
                    BY <2>1, <5>1 DEF PrepInv
                <5> QED
                    BY <2>3, <4>1, <4>2, <4>4, <5>2
            <4> QED
                BY <4>3, <4>4
        <3>6. \A goods \in Sizes : Serves(masters[goods], population, goods)
            BY <2>1 DEF PrepInv
        <3> QED
            BY <1>0, <3>1, <3>2, <3>3, <3>4, <3>5, <3>6 DEF PrepInv
    <2> QED
        BY <1>8, <2>2, <2>3 DEF ProjectCase, NextCase, Projection, CaseScenario
<1>9. CASE KillPreparation
    BY <1>1, <1>2, <1>9 DEF KillPreparation
<1> QED
    BY <1>3, <1>4, <1>5, <1>6, <1>7, <1>8, <1>9, PrepCases

\* A preparation has a subprocess while it waits for one, and no other time.
LEMMA PrepJobStep ==
    ASSUME WorkspaceIInv, PrepMove
    PROVE  JobInv'
<1> USE DEF WorkspaceIInv
<1>1. sweep'.stage = "off" /\ sweep.stage = "off"
    BY PrepFrame DEF PrepMove
<1>2. ASSUME job' = NoJob, prep'.stage # "wait"
      PROVE  JobInv'
    BY <1>1, <1>2 DEF JobInv, PrepareJobInv, RunJobInv
<1>3. prep.stage # "wait" => job = NoJob
    BY <1>1 DEF JobInv
<1>4. \A code : PrepOff(code).stage = "off"
    BY DEF PrepOff
<1>5. CASE \E a \in PrepareArguments : Prepare(a)
    <2>1. prep.stage = "off" /\ job' = job
        BY <1>5 DEF Prepare, batch
    <2>2. PICK a \in PrepareArguments : Prepare(a)
        BY <1>5
    <2>3. prep'.stage # "wait"
        BY <1>4, <2>2 DEF Prepare, PrepOff
    <2> QED
        BY <1>2, <1>3, <2>1, <2>3
<1>6. CASE ReuseMaster
    <2>1. prep'.stage # "wait"
        BY <1>6 DEF ReuseMaster, NextMaster, Shapes, IsPrep
    <2> QED
        BY <1>2, <1>3, <1>6, <2>1 DEF ReuseMaster, batch
<1>7. CASE RejectMaster
    BY <1>2, <1>3, <1>4, <1>7 DEF RejectMaster, batch
<1>8. CASE GenerateMaster
    <2>1. /\ prep.stage = "masters" /\ prep'.stage = "wait" /\ prep'.k = prep.k
          /\ job' = PrepareJob(Goods, prep.args.refresh)
        BY <1>8 DEF GenerateMaster, Shapes, IsPrep
    <2>2. Goods' = Goods
        BY <2>1 DEF Goods
    <2>3. job'.mode = "prepare" /\ job'.stage = "elicit" /\ job'.place = Goods /\ job'.entries = <<>>
        BY <2>1 DEF PrepareJob, NoJob
    <2>4. DOMAIN <<>> = {} /\ <<>> = [i \in {} |-> <<>>[i]]
        OBVIOUS
    <2> QED
        BY <1>1, <2>1, <2>2, <2>3, <2>4 DEF JobInv, PrepareJobInv, RunJobInv
<1>9. CASE MasterExits
    <2>1. prep'.stage # "wait"
        BY <1>4, <1>9 DEF MasterExits, NextMaster, Shapes, IsPrep
    <2> QED
        BY <1>2, <1>9, <2>1 DEF MasterExits
<1>10. CASE ProjectCase
    <2>1. prep.stage = "cases" /\ job' = job
        BY <1>10 DEF ProjectCase
    <2>2. prep'.stage # "wait"
        BY <1>4, <1>10, <2>1 DEF ProjectCase, NextCase, Shapes, IsPrep
    <2> QED
        BY <1>2, <1>3, <2>1, <2>2
<1>11. CASE KillPreparation
    BY <1>2, <1>4, <1>11 DEF KillPreparation
<1> QED
    BY <1>5, <1>6, <1>7, <1>8, <1>9, <1>10, <1>11, PrepCases

\* The manifest describes packs that were projected from its masters.
LEMMA PrepPreparedStep ==
    ASSUME WorkspaceIInv, PrepMove
    PROVE  PreparedCasesMatchMasters'
<1> USE DEF WorkspaceIInv
<1>1. CASE prepared' = prepared
    BY <1>1 DEF PreparedCasesMatchMasters
<1>2. CASE /\ ProjectCase
           /\ packs' = [packs EXCEPT ![PreparedCase] =
                  Projection(masters[PreparedCase.goods], population, PreparedCase)]
           /\ prep.k >= Len(Cases) /\ prepared' = Inventory
    <2> DEFINE of(case) == Projection(masters[case.goods], population, case)
    <2>1. prep.stage = "cases"
        BY <1>2 DEF ProjectCase
    <2>2. /\ prep.k = Len(Cases) /\ population \in Populations
          /\ PreparedCase \in Range(Cases) /\ PreparedCase = Cases[prep.k]
        BY <1>2, <2>1, CaseInHand, CasesAre DEF PreparedCase
    <2>3. packs \in [Range(Cases) -> PackFiles] /\ masters \in [Sizes -> PackFiles]
        BY DEF FilesOK
    <2>4. ASSUME NEW case \in Range(Cases)
          PROVE  packs'[case] = of(case)
        <3>1. PICK j \in 1..Len(Cases) : case = Cases[j]
            BY CasesAre DEF Range
        <3>2. CASE case = PreparedCase
            BY <1>2, <2>3, <3>2
        <3>3. CASE case # PreparedCase
            <4>1. j \in 1..prep.k - 1
                BY <2>2, <3>1, <3>3, CasesAre
            <4>2. packs[case] = of(case)
                BY <2>1, <3>1, <4>1 DEF PrepInv
            <4> HIDE DEF of
            <4> QED
                BY <1>2, <2>3, <3>3, <4>2
        <3> QED
            BY <3>2, <3>3
    <2>5. ASSUME NEW case \in Range(Cases)
          PROVE  /\ Readable(of(case)) /\ of(case).spec = population
                 /\ DOMAIN of(case).entries = Sample(case.bidders)
                 /\ \A i \in Sample(case.bidders) :
                       of(case).entries[i] = masters[case.goods].entries[i]
        BY <2>1, CaseInHand, ProjectionIs
    <2>6. \A goods \in Sizes : masters[goods].spec = population
        BY <2>1 DEF PrepInv, Serves, IsPackFor
    <2>7. DOMAIN packs' = Range(Cases) /\ DOMAIN masters = Sizes
        BY <1>2, <2>3
    <2>8. prepared'.spec = population /\ prepared'.masters = masters /\ prepared'.packs = packs'
        BY <1>2 DEF Inventory
    <2> HIDE DEF of
    <2> QED
        BY <2>4, <2>5, <2>6, <2>7, <2>8 DEF PreparedCasesMatchMasters
<1>3. CASE ProjectCase
    BY <1>1, <1>2, <1>3, CasesAre DEF ProjectCase, NextCase, Projection, CaseScenario, PrepInv
<1>4. CASE \/ \E a \in PrepareArguments : Prepare(a)
           \/ ReuseMaster \/ RejectMaster \/ GenerateMaster \/ MasterExits \/ KillPreparation
    BY <1>1, <1>4 DEF Prepare, ReuseMaster, RejectMaster, GenerateMaster, MasterExits, KillPreparation
<1> QED
    BY <1>3, <1>4, PrepCases

\* The preparation's fields.
LEMMA PrepShapesStep ==
    ASSUME WorkspaceIInv, PrepMove
    PROVE  Shapes' /\ Exclusive'
<1> USE DEF WorkspaceIInv
<1>1. sweep' = sweep /\ gen' = gen /\ gen.stage = "off" /\ sweep.stage = "off"
    BY PrepFrame DEF PrepMove
<1>2. IsPrep(prep) /\ IsJob(job)
    BY DEF Shapes
<1>3. /\ \A code : IsPrep(PrepOff(code))
      /\ \A a : IsPrep([PrepOff(NoFile) EXCEPT !.stage = "masters", !.args = a])
      /\ IsJob(NoJob)
      /\ \A goods, refresh : IsJob(PrepareJob(goods, refresh))
    BY DEF PrepOff, NoJob, PrepareJob, IsPrep, IsJob
<1>4. /\ \A stage, k : IsPrep([prep EXCEPT !.stage = stage, !.k = k])
      /\ \A k : IsPrep([prep EXCEPT !.k = k])
      /\ \A stage : IsPrep([prep EXCEPT !.stage = stage])
    BY <1>2 DEF IsPrep
<1>5. NextMaster => IsPrep(prep')
    BY <1>2 DEF NextMaster, IsPrep
<1>6. IsPrep(prep') /\ IsJob(job')
    <2>1. CASE \E a \in PrepareArguments : Prepare(a)
        <3>1. PICK a \in PrepareArguments : Prepare(a)
            BY <2>1
        <3> QED
            BY <1>2, <1>3, <3>1 DEF Prepare, batch
    <2>2. CASE ReuseMaster
        BY <1>2, <1>5, <2>2 DEF ReuseMaster, batch
    <2>3. CASE RejectMaster
        BY <1>2, <1>3, <2>3 DEF RejectMaster, batch
    <2>4. CASE GenerateMaster
        BY <1>3, <1>4, <2>4 DEF GenerateMaster
    <2>5. CASE MasterExits
        <3>1. NextMaster \/ prep' = PrepOff(job.code) \/ prep' = PrepOff(1)
            BY <2>5 DEF MasterExits
        <3>2. job' = NoJob
            BY <2>5 DEF MasterExits
        <3> QED
            BY <1>3, <1>5, <3>1, <3>2
    <2>6. CASE ProjectCase
        BY <1>2, <1>3, <1>4, <2>6 DEF ProjectCase, NextCase
    <2>7. CASE KillPreparation
        BY <1>3, <2>7 DEF KillPreparation
    <2> QED
        BY <2>1, <2>2, <2>3, <2>4, <2>5, <2>6, <2>7, PrepCases
<1> QED
    BY <1>1, <1>6 DEF Shapes, Exclusive

\* All of the invariant.
LEMMA PrepMoveStep ==
    ASSUME WorkspaceIInv, PrepMove
    PROVE  WorkspaceIInv'
<1> USE DEF WorkspaceIInv
<1>1. GenInv'
    BY GeneratorStep, GenStepInvariant, QuotesStep, WrittenStep DEF GenInv
<1>2. FilesOK' /\ Exclusive' /\ Shapes' /\ PrepInv' /\ PreparedCasesMatchMasters' /\ JobInv'
    BY PrepFilesStep, PrepShapesStep, PrepInvStep, PrepPreparedStep, PrepJobStep
<1>3. /\ UNCHANGED <<sweep, frozen, dirs, disturbed>>
      /\ job.mode # "run" /\ job'.mode # "run" /\ sweep.stage = "off"
    BY PrepFrame DEF PrepMove
<1>4. DirInv'
    BY <1>3 DEF DirInv, Kept, InHand, Settled
<1>5. SweepInv' /\ FinalInv'
    BY <1>3 DEF SweepInv, Complete, FinalInv
<1> QED
    BY <1>1, <1>2, <1>4, <1>5

-----------------------------------------------------------------------------
(* The cells of a sweep.                                                   *)

\* The cases are the run directories.
LEMMA CellsAre ==
    /\ Cases \in Seq(Directories) /\ Len(Cases) \in Nat \ {0} /\ DOMAIN Cases = 1..Len(Cases)
    /\ \A k \in 1..Len(Cases) : Cases[k] \in Directories
<1>1. /\ Len(Cases) \in Nat \ {0} /\ DOMAIN Cases = 1..Len(Cases)
      /\ Cases = [k \in 1..Len(Cases) |-> Cases[k]]
    BY CasesAre
<1>2. \A k \in 1..Len(Cases) : Cases[k] \in Directories
    BY <1>1 DEF Directories, Range
<1> QED
    BY <1>1, <1>2

\* The cell in hand, with its pack and the switches of the sweep.
LEMMA CellIs ==
    ASSUME FilesOK, SweepInv, sweep.stage # "off", sweep.k <= Len(Cases)
    PROVE  /\ sweep.k \in 1..Len(Cases) /\ Cell = Cases[sweep.k]
           /\ Cell \in Directories /\ packs[Cell] \in PackFiles /\ sweep.args.flags \in Switches
<1>1. sweep.k \in 1..Len(Cases) /\ Cell = Cases[sweep.k] /\ Cell \in Directories
    BY CellsAre DEF SweepInv, Cell
<1>2. packs[Cell] \in PackFiles
    BY <1>1 DEF FilesOK, Directories
<1>3. sweep.args.flags \in Switches
    BY DEF SweepInv, SweepArguments
<1> QED
    BY <1>1, <1>2, <1>3

\* The subprocess of a sweep.
LEMMA RunIs ==
    ASSUME FilesOK, SweepInv, RunJobInv, sweep.stage = "wait"
    PROVE  /\ job.mode = "run" /\ job.place = Cell /\ job.place \in Directories
           /\ job.stage \notin {"load", "exited"} => Result \in Results
<1>1. job.mode = "run" /\ job.place = Cell /\ job.flags = sweep.args.flags
    BY DEF RunJobInv
<1>2. Cell \in Directories /\ sweep.args.flags \in Switches
    BY CellIs DEF SweepInv
<1>3. job.stage \notin {"load", "exited"} => job.pack \in Packs
    BY DEF RunJobInv
<1> QED
    BY <1>1, <1>2, <1>3 DEF Result, Results

-----------------------------------------------------------------------------
(* The files of a run directory.                                           *)

\* What a run may have returned.
Codes == {0, 1, 2, NoFile}

\* Only the files of d change.
OnlyIn(d) ==
    /\ dirs' \in [Directories -> RunDirectories]
    /\ \A e \in Directories : e # d => dirs'[e] = dirs[e]

\* What a write leaves in d.
FilesAre(d, config, summary, sealed, refinements, exit) ==
    /\ OnlyIn(d)
    /\ dirs'[d].config = config /\ dirs'[d].summary = summary /\ dirs'[d].sealed = sealed
    /\ dirs'[d].refinements = refinements /\ dirs'[d].exit = exit

\* A write leaves the new file, and the others as they were.
LEMMA WriteIs ==
    ASSUME FilesOK, NEW d \in Directories, NEW t \in Tables, NEW c \in Codes, NEW r, r = dirs[d]
    PROVE  /\ dirs' = [dirs EXCEPT ![d].config = t, ![d].exit = c] =>
                 FilesAre(d, t, r.summary, r.sealed, r.refinements, c)
           /\ dirs' = [dirs EXCEPT ![d].summary = t] =>
                 FilesAre(d, r.config, t, r.sealed, r.refinements, r.exit)
           /\ dirs' = [dirs EXCEPT ![d].sealed = t] =>
                 FilesAre(d, r.config, r.summary, t, r.refinements, r.exit)
           /\ dirs' = [dirs EXCEPT ![d].refinements = t] =>
                 FilesAre(d, r.config, r.summary, r.sealed, t, r.exit)
           /\ dirs' = [dirs EXCEPT ![d].exit = c] =>
                 FilesAre(d, r.config, r.summary, r.sealed, r.refinements, c)
           /\ dirs' = [dirs EXCEPT ![d].exit = c, ![d].refinements = t] =>
                 FilesAre(d, r.config, r.summary, r.sealed, t, c)
<1>1. dirs \in [Directories -> RunDirectories] /\ r \in RunDirectories
    BY DEF FilesOK
<1>2. ASSUME NEW q \in RunDirectories, dirs' = [dirs EXCEPT ![d] = q]
      PROVE  OnlyIn(d) /\ dirs'[d] = q
    BY <1>1, <1>2 DEF OnlyIn
<1>3. /\ [r EXCEPT !.config = t, !.exit = c] \in RunDirectories
      /\ [r EXCEPT !.summary = t] \in RunDirectories
      /\ [r EXCEPT !.sealed = t] \in RunDirectories
      /\ [r EXCEPT !.refinements = t] \in RunDirectories
      /\ [r EXCEPT !.exit = c] \in RunDirectories
      /\ [r EXCEPT !.exit = c, !.refinements = t] \in RunDirectories
    BY <1>1 DEF RunDirectories, Codes
<1>4. ASSUME dirs' = [dirs EXCEPT ![d].config = t, ![d].exit = c]
      PROVE  FilesAre(d, t, r.summary, r.sealed, r.refinements, c)
    <2>1. dirs' = [dirs EXCEPT ![d] = [r EXCEPT !.config = t, !.exit = c]]
        BY <1>1, <1>4
    <2>2. OnlyIn(d) /\ dirs'[d] = [r EXCEPT !.config = t, !.exit = c]
        BY <1>2, <1>3, <2>1
    <2> QED
        BY <1>1, <2>2 DEF FilesAre, RunDirectories
<1>5. ASSUME dirs' = [dirs EXCEPT ![d].summary = t]
      PROVE  FilesAre(d, r.config, t, r.sealed, r.refinements, r.exit)
    <2>1. OnlyIn(d) /\ dirs'[d] = [r EXCEPT !.summary = t]
        BY <1>2, <1>3, <1>5
    <2> QED
        BY <1>1, <2>1 DEF FilesAre, RunDirectories
<1>6. ASSUME dirs' = [dirs EXCEPT ![d].sealed = t]
      PROVE  FilesAre(d, r.config, r.summary, t, r.refinements, r.exit)
    <2>1. OnlyIn(d) /\ dirs'[d] = [r EXCEPT !.sealed = t]
        BY <1>2, <1>3, <1>6
    <2> QED
        BY <1>1, <2>1 DEF FilesAre, RunDirectories
<1>7. ASSUME dirs' = [dirs EXCEPT ![d].refinements = t]
      PROVE  FilesAre(d, r.config, r.summary, r.sealed, t, r.exit)
    <2>1. OnlyIn(d) /\ dirs'[d] = [r EXCEPT !.refinements = t]
        BY <1>2, <1>3, <1>7
    <2> QED
        BY <1>1, <2>1 DEF FilesAre, RunDirectories
<1>8. ASSUME dirs' = [dirs EXCEPT ![d].exit = c]
      PROVE  FilesAre(d, r.config, r.summary, r.sealed, r.refinements, c)
    <2>1. OnlyIn(d) /\ dirs'[d] = [r EXCEPT !.exit = c]
        BY <1>2, <1>3, <1>8
    <2> QED
        BY <1>1, <2>1 DEF FilesAre, RunDirectories
<1>9. ASSUME dirs' = [dirs EXCEPT ![d].exit = c, ![d].refinements = t]
      PROVE  FilesAre(d, r.config, r.summary, r.sealed, t, c)
    <2>1. dirs' = [dirs EXCEPT ![d] = [r EXCEPT !.exit = c, !.refinements = t]]
        BY <1>1, <1>9
    <2>2. OnlyIn(d) /\ dirs'[d] = [r EXCEPT !.exit = c, !.refinements = t]
        BY <1>2, <1>3, <2>1
    <2> QED
        BY <1>1, <2>2 DEF FilesAre, RunDirectories
<1> QED
    BY <1>4, <1>5, <1>6, <1>7, <1>8, <1>9

\* A directory that had a summary still has one.
SummariesStay == \A d \in Directories : Complete(d) => Complete(d)'

\* A run that dies touches only its directory, which is known to be disturbed and to have
\* no run that returned.
LEMMA DyingRun ==
    ASSUME FilesOK, SweepInv, JobInv, DirInv, JobDies, prep.stage # "wait"
    PROVE  /\ masters' = masters /\ packs' = packs /\ answers' = answers
           /\ dirs' \in [Directories -> RunDirectories] /\ SummariesStay
           /\ \A d \in Directories : dirs'[d].config \in {dirs[d].config, Torn}
           /\ \A d \in Directories : dirs'[d] = dirs[d] \/ (d = job.place /\ dirs'[d].exit = NoFile)
           /\ disturbed \subseteq disturbed'
           /\ \A d \in Directories \ disturbed' : dirs'[d] = dirs[d] /\ ~InHand(d)
<1>1. dirs \in [Directories -> RunDirectories]
    BY DEF FilesOK
<1>2. CASE sweep.stage # "wait"
    <2>1. job.mode = "none"
        BY <1>2 DEF JobInv, NoJob
    <2> QED
        BY <1>1, <2>1 DEF JobDies, MayTear, packFiles, InHand, SummariesStay, Complete
<1>3. CASE sweep.stage = "wait"
    <2>1. /\ job.mode = "run" /\ job.place \in Directories
          /\ job.stage \notin {"load", "exited"} => Result \in Results
        BY <1>3, RunIs DEF JobInv
    <2>2. masters' = masters /\ packs' = packs /\ answers' = answers
        BY <2>1 DEF JobDies, MayTear, packFiles
    <2>3. disturbed' = IF job.stage \notin {"load", "exited"} THEN disturbed \cup {job.place} ELSE disturbed
        BY <2>1 DEF JobDies
    <2>4. CASE dirs' = dirs
        BY <1>1, <2>1, <2>2, <2>3, <2>4 DEF InHand, SummariesStay, Complete
    <2>5. CASE dirs' # dirs
        <3>1. /\ OnlyIn(job.place) /\ job.stage \notin {"load", "exited"}
              /\ dirs'[job.place].summary \in {dirs[job.place].summary, Torn}
              /\ dirs'[job.place].config \in {dirs[job.place].config, Torn}
              /\ dirs'[job.place].exit = NoFile
            <4> DEFINE p == job.place
                       r == dirs[p]
            <4>1. Torn \in Tables /\ NoFile \in Codes /\ p \in Directories
                BY <2>1 DEF Tables, Codes
            <4>0. job.stage \in {"summary", "details", "refinements"} => r.exit = NoFile
                BY <2>1 DEF DirInv, Kept, InHand, Underway
            <4> HIDE DEF p
            <4>2. ASSUME job.stage = "config",
                         dirs' = [dirs EXCEPT ![p].config = Torn, ![p].exit = NoFile]
                  PROVE  OnlyIn(p) /\ dirs'[p].summary = r.summary /\ dirs'[p].config = Torn /\ dirs'[p].exit = NoFile
                <5>1. FilesAre(p, Torn, r.summary, r.sealed, r.refinements, NoFile)
                    BY <4>1, <4>2, WriteIs
                <5> QED
                    BY <5>1 DEF FilesAre
            <4>3. ASSUME dirs' = [dirs EXCEPT ![p].summary = Torn]
                  PROVE  OnlyIn(p) /\ dirs'[p].summary = Torn /\ dirs'[p].config = r.config /\ dirs'[p].exit = r.exit
                <5>1. FilesAre(p, r.config, Torn, r.sealed, r.refinements, r.exit)
                    BY <4>1, <4>3, WriteIs
                <5> QED
                    BY <5>1 DEF FilesAre
            <4>4. ASSUME dirs' = [dirs EXCEPT ![p].sealed = Torn]
                  PROVE  OnlyIn(p) /\ dirs'[p].summary = r.summary /\ dirs'[p].config = r.config /\ dirs'[p].exit = r.exit
                <5>1. FilesAre(p, r.config, r.summary, Torn, r.refinements, r.exit)
                    BY <4>1, <4>4, WriteIs
                <5> QED
                    BY <5>1 DEF FilesAre
            <4>5. ASSUME NEW left \in Tables, dirs' = [dirs EXCEPT ![p].refinements = left]
                  PROVE  OnlyIn(p) /\ dirs'[p].summary = r.summary /\ dirs'[p].config = r.config /\ dirs'[p].exit = r.exit
                <5>1. FilesAre(p, r.config, r.summary, r.sealed, left, r.exit)
                    BY <4>1, <4>5, WriteIs
                <5> QED
                    BY <5>1 DEF FilesAre
            <4>6. \/ /\ job.stage = "config"
                     /\ dirs' = [dirs EXCEPT ![p].config = Torn, ![p].exit = NoFile]
                  \/ job.stage = "summary" /\ dirs' = [dirs EXCEPT ![p].summary = Torn]
                  \/ job.stage = "details" /\ dirs' = [dirs EXCEPT ![p].sealed = Torn]
                  \/ /\ job.stage = "refinements"
                     /\ \E left \in {Result, Torn} : dirs' = [dirs EXCEPT ![p].refinements = left]
                BY <2>1, <2>5 DEF JobDies, MayTear, packFiles, p
            <4>7. job.stage = "refinements" => {Result, Torn} \subseteq Tables
                BY <2>1 DEF Tables
            <4> HIDE DEF r
            <4>8. /\ OnlyIn(p) /\ job.stage \notin {"load", "exited"}
                  /\ dirs'[p].summary \in {r.summary, Torn} /\ dirs'[p].config \in {r.config, Torn}
                  /\ dirs'[p].exit = NoFile
                BY <4>0, <4>2, <4>3, <4>4, <4>5, <4>6, <4>7
            <4> QED
                BY <4>8 DEF p, r
        <3>2. SummariesStay
            BY <2>1, <3>1, FilesAssumption DEF OnlyIn, SummariesStay, Complete
        <3> QED
            BY <2>1, <2>2, <2>3, <3>1, <3>2 DEF OnlyIn, InHand
    <2> QED
        BY <2>4, <2>5
<1> QED
    BY <1>2, <1>3

-----------------------------------------------------------------------------
(* Steps of a sweep.                                                       *)

\* What a step of a sweep does to the files.
LEMMA SweepFrame ==
    ASSUME WorkspaceIInv, SweepMove
    PROVE  /\ population' = population /\ gen' = gen /\ gen.stage = "off"
           /\ prep' = prep /\ prep.stage = "off" /\ prepared' = prepared
           /\ masters' = masters /\ packs' = packs /\ answers' = answers
           /\ dirs' \in [Directories -> RunDirectories] /\ SummariesStay
           /\ disturbed \subseteq disturbed'
           /\ \A d \in Directories : dirs'[d] = dirs[d] \/ dirs'[d].exit = NoFile
           /\ \A d \in Directories \ disturbed' : dirs'[d] = dirs[d]
           /\ ~KillSweep => dirs' = dirs /\ disturbed' = disturbed
           /\ KillSweep => \A d \in Directories \ disturbed' : ~InHand(d)
           /\ sweep.stage # "wait" => job = NoJob
<1> USE DEF WorkspaceIInv
<1>1. /\ population' = population /\ gen' = gen /\ gen.stage = "off"
      /\ prep' = prep /\ prep.stage = "off" /\ prepared' = prepared
    BY DEF SweepMove, generation, disk, preparation
<1>2. dirs \in [Directories -> RunDirectories]
    BY DEF FilesOK
<1>3. sweep.stage # "wait" => job = NoJob
    BY <1>1 DEF JobInv
<1>4. CASE KillSweep
    BY <1>1, <1>3, <1>4, DyingRun DEF KillSweep
<1>5. CASE ~KillSweep
    <2>1. masters' = masters /\ packs' = packs /\ answers' = answers /\ dirs' = dirs /\ disturbed' = disturbed
        BY <1>5 DEF SweepMove, Sweep, RunFinal, Ablate, FreezeFinal, SweepStep, StartCell, SkipCell, CellExits,
                    SweepEnds, batch, packFiles, runFiles
    <2>2. SummariesStay
        BY <2>1 DEF SummariesStay, Complete
    <2> QED
        BY <1>1, <1>2, <1>3, <1>5, <2>1, <2>2
<1> QED
    BY <1>4, <1>5

\* It keeps the types and what a preparation left.
LEMMA SweepFilesStep ==
    ASSUME WorkspaceIInv, SweepMove
    PROVE  FilesOK' /\ PrepInv' /\ PreparedCasesMatchMasters'
<1> USE DEF WorkspaceIInv
<1>1. /\ UNCHANGED <<population, prep, prepared, masters, packs, answers>> /\ prep.stage = "off"
      /\ dirs' \in [Directories -> RunDirectories]
    BY SweepFrame
<1> QED
    BY <1>1 DEF FilesOK, PacksAreGenuine, PrepInv, PreparedCasesMatchMasters

\* Only the directory in hand is between two writes, and it is disturbed when the sweep
\* is killed.
LEMMA SweepDirStep ==
    ASSUME WorkspaceIInv, SweepMove
    PROVE  DirInv'
<1> USE DEF WorkspaceIInv
<1>1. /\ SummariesStay /\ disturbed \subseteq disturbed'
      /\ \A d \in Directories : dirs'[d] = dirs[d] \/ dirs'[d].exit = NoFile
      /\ \A d \in Directories \ disturbed' : dirs'[d] = dirs[d]
    BY SweepFrame
<1>2. ASSUME NEW d \in Directories, d \notin disturbed' => ~InHand(d), ~InHand(d)'
      PROVE  Kept(d)'
    <2>1. dirs'[d].exit = 0 => IsWhole(dirs'[d])
        BY <1>1, ContentsAssumption DEF DirInv, Kept
    <2>2. d \notin disturbed' => Settled(d)'
        BY <1>1, <1>2 DEF DirInv, Kept, Settled
    <2> QED
        BY <1>2, <2>1, <2>2 DEF Kept
<1>3. CASE job' = job /\ ~KillSweep
    <2>1. dirs' = dirs /\ disturbed' = disturbed
        BY <1>3, SweepFrame
    <2> QED
        BY <1>3, <2>1 DEF DirInv, Kept, InHand, Underway, Settled, Result
<1>4. CASE KillSweep
    <2>1. job' = NoJob /\ \A d \in Directories \ disturbed' : ~InHand(d)
        BY <1>4, SweepFrame DEF KillSweep
    <2>2. \A d : ~InHand(d)'
        BY <2>1 DEF InHand, NoJob
    <2>3. ~(job'.mode = "run")
        BY <2>1 DEF NoJob
    <2> QED
        BY <1>2, <2>1, <2>2, <2>3 DEF DirInv
<1>5. CASE CellExits
    <2>1. job' = NoJob /\ job.stage = "exited"
        BY <1>5 DEF CellExits, Exited
    <2>2. \A d : ~InHand(d)' /\ ~InHand(d)
        BY <2>1 DEF InHand, NoJob
    <2>3. ~(job'.mode = "run")
        BY <2>1 DEF NoJob
    <2> QED
        BY <1>2, <2>2, <2>3 DEF DirInv
<1>6. CASE StartCell
    <2>1. job' = RunJob(Cell, packs[Cell], sweep.args.flags) /\ job = NoJob
        BY <1>6, SweepFrame DEF StartCell
    <2>2. job'.stage = "load" /\ job.mode = "none"
        BY <2>1 DEF RunJob, NoJob
    <2>3. \A d : ~InHand(d)' /\ ~InHand(d)
        BY <2>2 DEF InHand
    <2> QED
        BY <1>2, <2>2, <2>3 DEF DirInv
<1> QED
    BY <1>3, <1>4, <1>5, <1>6
    DEF SweepMove, Sweep, RunFinal, Ablate, FreezeFinal, SweepStep, SkipCell, SweepEnds, batch

\* The fields of the sweep and of its subprocess.
LEMMA SweepShapesStep ==
    ASSUME WorkspaceIInv, SweepMove
    PROVE  Shapes' /\ Exclusive'
<1> USE DEF WorkspaceIInv
<1>1. prep' = prep /\ prep.stage = "off" /\ gen' = gen /\ gen.stage = "off"
    BY SweepFrame
<1>2. IsSweep(sweep) /\ IsJob(job) /\ IsPrep(prep)
    BY DEF Shapes
<1>3. /\ \A kind, code : IsSweep(SweepOff(kind, code))
      /\ \A kind, a : Begins(kind, a) => IsSweep(sweep')
      /\ \A kind, code : BeginsNot(kind, code) => IsSweep(sweep')
      /\ \A code : EndsSweep(code) => IsSweep(sweep')
    BY DEF SweepOff, IsSweep, Begins, BeginsNot, EndsSweep
<1>4. \A dir, pack, flags : IsJob(RunJob(dir, pack, flags)) /\ IsJob(NoJob)
    BY DEF RunJob, NoJob, IsJob
<1>5. IsSweep(sweep')
    <2>1. CASE \E a \in SweepArguments : Sweep(a) \/ RunFinal(a)
        BY <1>3, <2>1 DEF Sweep, RunFinal
    <2>2. CASE FreezeFinal \/ Ablate
        BY <1>3, <2>2 DEF FreezeFinal, Ablate
    <2>3. CASE StartCell \/ SkipCell
        BY <1>2, <2>3 DEF StartCell, SkipCell, IsSweep
    <2>4. CASE CellExits
        BY <1>2, <1>3, <2>4 DEF CellExits, IsSweep
    <2>5. CASE SweepEnds
        BY <1>3, <2>5 DEF SweepEnds
    <2>6. CASE KillSweep
        BY <1>3, <2>6 DEF KillSweep
    <2> QED
        BY <2>1, <2>2, <2>3, <2>4, <2>5, <2>6 DEF SweepMove, SweepStep
<1>6. IsJob(job')
    <2>1. CASE job' = job \/ job' = NoJob \/ \E dir, pack, flags : job' = RunJob(dir, pack, flags)
        BY <1>2, <1>4, <2>1
    <2> QED
        BY <2>1 DEF SweepMove, Sweep, RunFinal, Ablate, FreezeFinal, SweepStep, StartCell, SkipCell, CellExits,
                    SweepEnds, KillSweep, batch
<1> QED
    BY <1>1, <1>2, <1>5, <1>6 DEF Shapes, Exclusive

\* A sweep that has begun.
Begun(kind, a) ==
    /\ sweep'.stage = "cells" /\ sweep'.kind = kind /\ sweep'.args = a /\ sweep'.k = 1
    /\ sweep'.failures = {}

\* A sweep that is over.
Over(kind, code) ==
    sweep'.stage = "off" /\ sweep'.kind = kind /\ sweep'.k = 1 /\ sweep'.code = code

\* Beginning, not beginning and ending a sweep, by the fields that matter.
LEMMA SweepEdges ==
    /\ \A kind, a : Begins(kind, a) => Begun(kind, a)
    /\ \A kind, code : BeginsNot(kind, code) => Over(kind, code)
    /\ \A kind, code : sweep' = SweepOff(kind, code) => Over(kind, code)
    /\ \A code : EndsSweep(code) => Over(sweep.kind, code)
<1>1. ASSUME NEW kind, NEW a, Begins(kind, a)
      PROVE  Begun(kind, a)
    BY <1>1 DEF Begins, SweepOff, Begun
<1>2. ASSUME NEW kind, NEW code, sweep' = SweepOff(kind, code)
      PROVE  Over(kind, code)
    BY <1>2 DEF SweepOff, Over
<1> QED
    BY <1>1, <1>2 DEF BeginsNot, EndsSweep

\* A sweep that does not wait has no subprocess; one that does has the run of its cell.
LEMMA SweepJobStep ==
    ASSUME WorkspaceIInv, SweepMove
    PROVE  JobInv'
<1> USE DEF WorkspaceIInv
<1>1. prep'.stage = "off" /\ packs' = packs
    BY SweepFrame
<1>2. CASE StartCell
    <2>1. /\ job' = RunJob(Cell, packs[Cell], sweep.args.flags)
          /\ sweep'.stage = "wait" /\ sweep'.k = sweep.k /\ sweep'.args = sweep.args
        BY <1>2 DEF StartCell, Shapes, IsSweep
    <2>2. Cell' = Cell
        BY <2>1 DEF Cell
    <2>3. /\ job'.mode = "run" /\ job'.stage = "load"
          /\ job'.place = Cell /\ job'.pack = packs[Cell] /\ job'.flags = sweep.args.flags
        BY <2>1 DEF RunJob, NoJob
    <2> QED
        BY <1>1, <2>1, <2>2, <2>3 DEF JobInv, PrepareJobInv, RunJobInv
<1>3. ASSUME sweep'.stage # "wait", job' = NoJob
      PROVE  JobInv'
    BY <1>1, <1>3 DEF JobInv, PrepareJobInv, RunJobInv
<1>4. sweep.stage # "wait" => job = NoJob
    BY SweepFrame
<1>5. CASE \E a \in SweepArguments : Sweep(a) \/ RunFinal(a)
    <2>1. sweep.stage = "off" /\ job' = job
        BY <1>5 DEF Sweep, RunFinal, batch
    <2>2. sweep'.stage # "wait"
        BY <1>5, SweepEdges DEF Sweep, RunFinal, Begun, Over
    <2> QED
        BY <1>3, <1>4, <2>1, <2>2
<1>6. CASE FreezeFinal \/ Ablate
    BY <1>3, <1>4, <1>6, SweepEdges DEF FreezeFinal, Ablate, Over, batch
<1>7. CASE SkipCell
    <2>1. sweep'.stage # "wait"
        BY <1>7 DEF SkipCell, Shapes, IsSweep
    <2> QED
        BY <1>3, <1>4, <1>7, <2>1 DEF SkipCell, batch
<1>8. CASE CellExits
    <2>1. CASE \E code : EndsSweep(code)
        BY <1>3, <1>8, <2>1, SweepEdges DEF CellExits, Over
    <2>2. CASE sweep' = [sweep EXCEPT
                   !.stage = "cells",
                   !.k = @ + 1,
                   !.failures = IF job.code = 0 THEN @ ELSE @ \cup {Cell}]
        <3>1. sweep'.stage # "wait"
            BY <2>2 DEF Shapes, IsSweep
        <3> QED
            BY <1>3, <1>8, <3>1 DEF CellExits
    <2> QED
        BY <1>8, <2>1, <2>2 DEF CellExits
<1>9. CASE SweepEnds
    <2>1. sweep.stage # "wait" /\ job' = job
        BY <1>9 DEF SweepEnds, batch
    <2>2. \E code : EndsSweep(code)
        BY <1>9 DEF SweepEnds
    <2>3. sweep'.stage # "wait"
        BY <2>2, SweepEdges DEF Over
    <2> QED
        BY <1>3, <1>4, <2>1, <2>3
<1>10. CASE KillSweep
    BY <1>3, <1>10, SweepEdges DEF KillSweep, Over
<1> QED
    BY <1>2, <1>5, <1>6, <1>7, <1>8, <1>9, <1>10 DEF SweepMove, SweepStep

\* What a sweep that is over leaves is for its own kind to say.
LEMMA OverIs ==
    ASSUME NEW kind, NEW code, Over(kind, code),
           kind \in {"scalability", "final"} /\ code = 0 => \A d \in Directories : Complete(d)'
    PROVE  SweepInv'
BY DEF Over, SweepInv

\* A sweep that begins has nothing behind it.
LEMMA BegunIs ==
    ASSUME NEW kind \in {"scalability", "final"}, NEW a \in SweepArguments, Begun(kind, a)
    PROVE  SweepInv'
<1>1. 1 <= Len(Cases) + 1 /\ 1 \in Nat \ {0} /\ 1..1 - 1 = {}
    BY CellsAre
<1> QED
    BY <1>1 DEF Begun, SweepInv

\* A sweep goes on to its next cell when the one in hand is complete, or failed.
LEMMA NextCellIs ==
    ASSUME WorkspaceIInv, SweepMove, sweep.stage # "off", sweep.k <= Len(Cases),
           sweep'.stage = "cells", sweep'.kind = sweep.kind, sweep'.args = sweep.args,
           sweep'.k = sweep.k + 1, sweep.failures \subseteq sweep'.failures,
           dirs'[Cell].summary # NoFile \/ Cell \in sweep'.failures
    PROVE  SweepInv'
<1> USE DEF WorkspaceIInv
<1>1. sweep.k \in Nat \ {0} /\ sweep.args \in SweepArguments /\ sweep.kind \in {"scalability", "final"}
    BY DEF SweepInv
<1>2. \A j \in 1..sweep.k : Complete(Cases[j])' \/ Cases[j] \in sweep'.failures
    <2> SUFFICES ASSUME NEW j \in 1..sweep.k
                 PROVE  Complete(Cases[j])' \/ Cases[j] \in sweep'.failures
        OBVIOUS
    <2>1. CASE j = sweep.k
        BY <2>1 DEF Complete, Cell
    <2>2. CASE j # sweep.k
        <3>1. j \in 1..sweep.k - 1 /\ j \in 1..Len(Cases)
            BY <1>1, <2>2, CellsAre
        <3>2. Cases[j] \in Directories
            BY <3>1, CellsAre
        <3> QED
            BY <3>1, <3>2, SweepFrame DEF SweepInv, SummariesStay
    <2> QED
        BY <2>1, <2>2
<1>3. sweep'.k - 1 = sweep.k /\ sweep'.k \in Nat \ {0} /\ sweep'.k <= Len(Cases) + 1
    BY <1>1, CellsAre
<1> QED
    BY <1>1, <1>2, <1>3 DEF SweepInv

\* The cells a sweep is past are accounted for.
LEMMA SweepInvStep ==
    ASSUME WorkspaceIInv, SweepMove
    PROVE  SweepInv'
<1> USE DEF WorkspaceIInv
<1>1. /\ \A d \in Directories : Complete(d) => Complete(d)'
      /\ disturbed \subseteq disturbed'
      /\ ~KillSweep => dirs' = dirs /\ disturbed' = disturbed
      /\ sweep.stage # "wait" => job = NoJob
    BY SweepFrame DEF SummariesStay
<1>3. CASE \E a \in SweepArguments : Sweep(a) \/ RunFinal(a)
    <2>1. PICK a \in SweepArguments : Sweep(a) \/ RunFinal(a)
        BY <1>3
    <2>2. \/ \E kind \in {"scalability", "final"} : Begins(kind, a)
          \/ \E kind \in {"scalability", "final"}, code \in {1, 2} : BeginsNot(kind, code)
        BY <2>1 DEF Sweep, RunFinal
    <2>3. CASE \E kind \in {"scalability", "final"} : Begins(kind, a)
        BY <2>3, SweepEdges, BegunIs
    <2>4. CASE \E kind \in {"scalability", "final"}, code \in {1, 2} : BeginsNot(kind, code)
        BY <2>4, SweepEdges, OverIs
    <2> QED
        BY <2>2, <2>3, <2>4
<1>4. CASE FreezeFinal \/ Ablate
    <2>1. Over("freeze", 0) \/ Over("freeze", 1) \/ Over("ablation", 1)
        BY <1>4, SweepEdges DEF FreezeFinal, Ablate
    <2> QED
        BY <2>1, OverIs
<1>5. CASE StartCell
    <2>1. /\ sweep.stage = "cells" /\ sweep.k <= Len(Cases) /\ sweep'.stage = "wait"
          /\ sweep'.kind = sweep.kind /\ sweep'.args = sweep.args /\ sweep'.k = sweep.k
          /\ sweep'.failures = sweep.failures /\ dirs' = dirs
        BY <1>5 DEF StartCell, Shapes, IsSweep, runFiles
    <2> QED
        BY <2>1 DEF SweepInv, Complete
<1>6. CASE SkipCell
    <2>1. /\ sweep.stage = "cells" /\ sweep.k <= Len(Cases) /\ Complete(Cell)
          /\ sweep'.stage = "cells" /\ sweep'.k = sweep.k + 1
          /\ sweep'.kind = sweep.kind /\ sweep'.args = sweep.args
          /\ sweep'.failures = sweep.failures /\ dirs' = dirs
        BY <1>6 DEF SkipCell, Skips, Shapes, IsSweep, batch, runFiles
    <2>2. dirs'[Cell].summary # NoFile
        BY <2>1 DEF Complete
    <2> QED
        BY <2>1, <2>2, NextCellIs
<1>7. CASE CellExits
    <2>1. sweep.stage = "wait" /\ job.stage = "exited" /\ dirs' = dirs /\ sweep.k <= Len(Cases)
        BY <1>7 DEF CellExits, Exited, runFiles, SweepInv
    <2>2. job.code = 0 => dirs'[Cell].summary # NoFile
        BY <2>1, RunIs DEF JobInv, DirInv
    <2>3. CASE EndsSweep(1)
        BY <2>3, SweepEdges, OverIs
    <2>4. CASE sweep' = [sweep EXCEPT
                   !.stage = "cells",
                   !.k = @ + 1,
                   !.failures = IF job.code = 0 THEN @ ELSE @ \cup {Cell}]
        <3>1. /\ sweep'.kind = sweep.kind /\ sweep'.args = sweep.args
              /\ sweep'.stage = "cells" /\ sweep'.k = sweep.k + 1
              /\ sweep'.failures = IF job.code = 0 THEN sweep.failures ELSE sweep.failures \cup {Cell}
            BY <2>4 DEF Shapes, IsSweep
        <3>2. dirs'[Cell].summary # NoFile \/ Cell \in sweep'.failures
            BY <2>2, <3>1
        <3>3. sweep.failures \subseteq sweep'.failures
            BY <3>1
        <3> QED
            BY <2>1, <3>1, <3>2, <3>3, NextCellIs
    <2> QED
        BY <1>7, <2>3, <2>4 DEF CellExits
<1>8. CASE SweepEnds
    <2>1. sweep.stage = "cells" /\ sweep.k > Len(Cases) /\ dirs' = dirs
        BY <1>8 DEF SweepEnds, batch, runFiles
    <2>2. Over(sweep.kind, IF sweep.failures = {} THEN 0 ELSE 1)
        BY <1>8, SweepEdges DEF SweepEnds
    <2>3. ASSUME sweep.failures = {}, NEW d \in Directories
          PROVE  Complete(d)'
        <3>1. PICK j \in 1..Len(Cases) : d = Cases[j]
            BY CasesAre DEF Directories, Range
        <3>2. j \in 1..sweep.k - 1
            BY <2>1, CellsAre DEF SweepInv
        <3>3. Complete(d)
            BY <2>1, <2>3, <3>1, <3>2 DEF SweepInv
        <3> QED
            BY <2>1, <3>3 DEF Complete
    <2> QED
        BY <2>2, <2>3, OverIs
<1>9. CASE KillSweep
    <2>1. Over(sweep.kind, 1)
        BY <1>9, SweepEdges DEF KillSweep
    <2> QED
        BY <2>1, OverIs
<1> QED
    BY <1>3, <1>4, <1>5, <1>6, <1>7, <1>8, <1>9 DEF SweepMove, SweepStep

\* A final run begins once the files are verified, and no sweep changes them.
LEMMA SweepFinalStep ==
    ASSUME WorkspaceIInv, SweepMove
    PROVE  FinalInv'
<1> USE DEF WorkspaceIInv
<1>1. population' = population /\ packs' = packs
    BY SweepFrame
<1>2. CASE \E a \in SweepArguments : RunFinal(a)
    <2>1. frozen' = frozen /\ (Verified \/ Over("final", 1))
        BY <1>2, SweepEdges DEF RunFinal
    <2> QED
        BY <1>1, <2>1 DEF FinalInv, Verified, Over
<1>3. CASE (\E a \in SweepArguments : Sweep(a)) \/ FreezeFinal \/ Ablate
    <2>1. sweep'.kind # "final"
        <3>1. \/ \E a : Begun("scalability", a)
              \/ \E code : Over("scalability", code) \/ Over("ablation", code) \/ Over("freeze", code)
            BY <1>3, SweepEdges DEF Sweep, Ablate, FreezeFinal
        <3> QED
            BY <3>1 DEF Begun, Over
    <2> QED
        BY <2>1 DEF FinalInv
<1>4. CASE SweepStep \/ KillSweep
    <2>1. CASE sweep'.stage = "off"
        BY <2>1 DEF FinalInv
    <2>2. CASE sweep'.stage # "off"
        <3>1. ~\E code : sweep' = SweepOff(sweep.kind, code)
            BY <2>2, SweepEdges DEF Over
        <3>2. StartCell \/ SkipCell \/ CellExits
            BY <1>4, <3>1 DEF SweepStep, SweepEnds, KillSweep, EndsSweep
        <3>3. frozen' = frozen /\ sweep'.kind = sweep.kind /\ sweep.stage # "off"
            BY <3>1, <3>2 DEF StartCell, SkipCell, CellExits, EndsSweep, Shapes, IsSweep
        <3> QED
            BY <1>1, <3>3 DEF FinalInv, Verified
    <2> QED
        BY <2>1, <2>2
<1> QED
    BY <1>2, <1>3, <1>4 DEF SweepMove

\* All of the invariant.
LEMMA SweepMoveStep ==
    ASSUME WorkspaceIInv, SweepMove
    PROVE  WorkspaceIInv'
<1>1. GenInv'
    BY GeneratorStep, GenStepInvariant, QuotesStep, WrittenStep DEF GenInv, WorkspaceIInv
<1> QED
    BY <1>1, SweepFilesStep, SweepShapesStep, SweepJobStep, SweepDirStep, SweepInvStep, SweepFinalStep
    DEF WorkspaceIInv

-----------------------------------------------------------------------------
(* Steps of the subprocess of a preparation.                               *)

\* The next bidder is one of the scenario.
LEMMA NextBidderIs ==
    ASSUME PrepInv, PrepareJobInv, prep.stage = "wait", DOMAIN job.entries # DOMAIN Target.persons,
           NEW i, i = Min(DOMAIN Target.persons \ DOMAIN job.entries)
    PROVE  i \in Sample(MasterBidders(Goods)) /\ i \in DOMAIN Target.persons
<1>1. /\ DOMAIN Target.persons = Sample(MasterBidders(Goods))
      /\ DOMAIN job.entries \subseteq DOMAIN Target.persons
    BY TargetIs
<1>2. Sample(MasterBidders(Goods)) \subseteq 1..Batches
    BY GoodsIs, SampleIs
<1> DEFINE left == DOMAIN Target.persons \ DOMAIN job.entries
<1>3. left \in SUBSET Nat /\ left # {} /\ i = Min(left)
    BY <1>1, <1>2
<1> HIDE DEF left
<1>4. Min(left) \in left
    BY <1>3, FirstPosition DEF Min
<1> QED
    BY <1>1, <1>3, <1>4 DEF left

\* What a step leaves alone, and what it does to the masters.
LEMMA ElicitingFrame ==
    ASSUME WorkspaceIInv, JobMove, prep.stage = "wait"
    PROVE  /\ population' = population /\ gen' = gen /\ prep' = prep /\ prepared' = prepared
           /\ sweep' = sweep /\ sweep.stage = "off" /\ frozen' = frozen
           /\ packs' = packs /\ dirs' = dirs /\ disturbed' = disturbed
           /\ job.mode = "prepare" /\ job.place = Goods
           /\ masters' = masters \/ MasterWritten
           /\ Elicit \/ (job' = [job EXCEPT !.stage = "exited", !.code = 0] /\ answers' = answers)
                     \/ (job' = [job EXCEPT !.stage = "exited", !.code = 1] /\ answers' = answers)
<1> USE DEF WorkspaceIInv
<1>1. /\ population' = population /\ gen' = gen /\ prep' = prep /\ prepared' = prepared
      /\ sweep' = sweep /\ sweep.stage = "off" /\ frozen' = frozen
    BY DEF JobMove, generation, disk, preparation, sweeps, Exclusive
<1>2. job.mode = "prepare" /\ job.place = Goods
    BY DEF JobInv, PrepareJobInv
<1>3. Elicit \/ ElicitFails \/ WritePack \/ KillJob
    BY <1>2 DEF JobMove, JobStep, JobFailure, Load, WriteConfig, RunArms, ArmFails, WriteSummary, WriteDetails,
                WriteRefinements
<1>4. CASE Elicit
    BY <1>1, <1>2, <1>4 DEF Elicit, runFiles
<1>5. CASE ElicitFails
    BY <1>1, <1>2, <1>5 DEF ElicitFails, Exit, packFiles, runFiles
<1>6. CASE WritePack
    <2>1. /\ DOMAIN job.entries = DOMAIN Target.persons /\ packs' = packs /\ answers' = answers
          /\ masters' = [masters EXCEPT ![job.place] = Pack(population, Target, job.entries)]
          /\ job' = [job EXCEPT !.stage = "exited", !.code = 0] /\ dirs' = dirs /\ disturbed' = disturbed
        BY <1>2, <1>6 DEF WritePack, Exit, runFiles
    <2>2. MasterWritten
        BY <1>2, <2>1, TargetPack DEF JobInv, MasterWritten
    <2> QED
        BY <1>1, <1>2, <2>1, <2>2
<1>7. CASE KillJob
    <2>1. JobDies /\ job' = [job EXCEPT !.stage = "exited", !.code = 1]
        BY <1>7 DEF KillJob
    <2> QED
        BY <1>1, <1>2, <2>1, DyingPreparation
<1> QED
    BY <1>3, <1>4, <1>5, <1>6, <1>7

\* What was elicited so far stays the answers of the persons of the scenario.
LEMMA ElicitingJobStep ==
    ASSUME WorkspaceIInv, JobMove, prep.stage = "wait"
    PROVE  JobInv' /\ Shapes' /\ (\A key \in DOMAIN answers' : answers'[key] \in Nat)
<1> USE DEF WorkspaceIInv
<1>1. /\ population' = population /\ prep' = prep /\ sweep' = sweep /\ sweep.stage = "off"
      /\ job.mode = "prepare" /\ job.place = Goods /\ IsJob(job)
    BY ElicitingFrame DEF Shapes
<1>2. Goods' = Goods
    BY <1>1 DEF Goods
<1>3. \A key \in DOMAIN answers : answers[key] \in Nat
    BY DEF FilesOK
<1>4. ASSUME NEW code, job' = [job EXCEPT !.stage = "exited", !.code = code], answers' = answers
      PROVE  JobInv' /\ Shapes' /\ (\A key \in DOMAIN answers' : answers'[key] \in Nat)
    <2>1. job'.mode = job.mode /\ job'.stage = "exited" /\ job'.place = job.place /\ job'.entries = job.entries
          /\ IsJob(job')
        BY <1>1, <1>4 DEF IsJob
    <2> QED
        BY <1>1, <1>2, <1>3, <1>4, <2>1 DEF JobInv, PrepareJobInv, RunJobInv, Shapes
<1>5. CASE Elicit
    <2> DEFINE i == Min(DOMAIN Target.persons \ DOMAIN job.entries)
               key == <<Target.persons[i], job.place>>
               asked == Asked(key[1], key[2])
               asking == IF asked = 0 \/ job.flags THEN asked + 1 ELSE asked
               entry == Entry(Target, i, asking)
    <2>1. /\ DOMAIN job.entries # DOMAIN Target.persons
          /\ answers' = Stored(answers, key, asking)
          /\ job' = [job EXCEPT !.entries = Stored(job.entries, i, entry)]
        BY <1>5 DEF Elicit
    <2>2. i \in Sample(MasterBidders(Goods)) /\ i \in DOMAIN Target.persons
        BY <2>1, NextBidderIs DEF JobInv
    <2>3. asked \in Nat
        BY <1>3 DEF Asked
    <2>4. asking \in Nat
        BY <2>3
    <2>5. /\ Target.goods = Goods /\ Goods \in Sizes
          /\ Target.persons[i] = population[i].id /\ Target.persons[i] \in Nat
        BY <2>2, TargetIs, GoodsIs DEF JobInv
    <2> HIDE DEF i, asked, asking
    <2>6. entry = [person |-> population[i].id, goods |-> Goods, asking |-> asking]
        BY <2>5 DEF Entry
    <2>7. entry \in Entries /\ entry.person = population[i].id /\ entry.goods = Goods
        BY <2>4, <2>5, <2>6 DEF Entries
    <2> HIDE DEF entry, key
    <2>8. \A k \in DOMAIN answers' : answers'[k] \in Nat
        BY <1>3, <2>1, <2>4 DEF Stored
    <2> DEFINE entries == Stored(job.entries, i, entry)
    <2>9. /\ DOMAIN entries = DOMAIN job.entries \cup {i}
          /\ \A j \in DOMAIN entries : entries[j] = IF j = i THEN entry ELSE job.entries[j]
          /\ entries = [j \in DOMAIN entries |-> entries[j]]
        BY DEF Stored
    <2> HIDE DEF entries
    <2>10. /\ job'.mode = "prepare" /\ job'.stage = job.stage /\ job'.place = Goods /\ job'.entries = entries
           /\ IsJob(job')
        BY <1>1, <2>1 DEF IsJob, entries
    <2>11. \A j \in DOMAIN entries :
              /\ j \in Sample(MasterBidders(Goods)) /\ entries[j] \in Entries
              /\ entries[j].person = population[j].id /\ entries[j].goods = Goods
        BY <2>2, <2>7, <2>9 DEF JobInv, PrepareJobInv
    <2>12. PrepareJobInv'
        BY <1>1, <1>2, <2>9, <2>10, <2>11 DEF JobInv, PrepareJobInv
    <2> QED
        BY <1>1, <2>8, <2>10, <2>12 DEF JobInv, RunJobInv, Shapes
<1> QED
    BY <1>4, <1>5, ElicitingFrame

\* All of the invariant.
LEMMA ElicitingStep ==
    ASSUME WorkspaceIInv, JobMove, prep.stage = "wait"
    PROVE  WorkspaceIInv'
<1> USE DEF WorkspaceIInv
<1>1. GenInv'
    BY GeneratorStep, GenStepInvariant, QuotesStep, WrittenStep DEF GenInv
<1>2. JobInv' /\ Shapes' /\ (\A key \in DOMAIN answers' : answers'[key] \in Nat)
    BY ElicitingJobStep
<1>3. /\ UNCHANGED <<population, gen, prep, prepared, sweep, frozen, packs, dirs, disturbed>>
      /\ sweep.stage = "off" /\ (masters' = masters \/ MasterWritten)
      /\ job.mode = "prepare"
    BY ElicitingFrame
<1>4. /\ masters' \in [Sizes -> PackFiles]
      /\ \A goods \in Sizes : goods # Goods => masters'[goods] = masters[goods]
      /\ \A goods \in Sizes : Readable(masters'[goods]) => IsGenuine(masters'[goods])
    <2>1. CASE masters' = masters
        BY <2>1 DEF FilesOK, PacksAreGenuine
    <2>2. CASE MasterWritten
        BY <2>2, GoodsIs, MasterWrittenKeeps
    <2> QED
        BY <1>3, <2>1, <2>2
<1>5. FilesOK'
    <2>1. DOMAIN masters' = Sizes
        BY <1>4
    <2> QED
        BY <1>2, <1>3, <1>4, <2>1 DEF FilesOK, PacksAreGenuine
<1>6. PrepInv'
    <2>1. Goods' = Goods
        BY <1>3 DEF Goods
    <2>2. ASSUME NEW j \in 1..prep.k - 1, Masters[j] # Goods
          PROVE  Serves(masters'[Masters[j]], population, Masters[j])
        <3>1. j \in 1..Len(Masters)
            BY GoodsIs, MastersAre
        <3>2. Masters[j] \in Sizes
            BY <3>1, MastersAre
        <3> QED
            BY <1>4, <2>2, <3>2 DEF PrepInv
    <2> QED
        BY <1>3, <2>1, <2>2 DEF PrepInv
<1>7. Exclusive' /\ PreparedCasesMatchMasters'
    BY <1>3 DEF Exclusive, PreparedCasesMatchMasters
<1>8. job'.mode # "run"
    BY <1>2, <1>3 DEF JobInv, PrepareJobInv
<1>9. DirInv'
    BY <1>3, <1>8 DEF DirInv, Kept, InHand, Settled
<1>10. SweepInv' /\ FinalInv'
    BY <1>3 DEF SweepInv, Complete, FinalInv
<1> QED
    BY <1>1, <1>2, <1>5, <1>6, <1>7, <1>9, <1>10

-----------------------------------------------------------------------------
(* Steps of the subprocess of a sweep.                                     *)

\* The subprocess keeps its command line and its place.
SameRun ==
    /\ job'.mode = "run" /\ job'.place = job.place /\ job'.pack = job.pack /\ job'.flags = job.flags
    /\ IsJob(job')

\* What a step leaves alone, and its kinds.
LEMMA RunningFrame ==
    ASSUME WorkspaceIInv, JobMove, sweep.stage = "wait"
    PROVE  /\ population' = population /\ gen' = gen /\ prep' = prep /\ prepared' = prepared
           /\ prep.stage = "off" /\ sweep' = sweep /\ frozen' = frozen
           /\ job.mode = "run" /\ job.place \in Directories /\ SameRun
           /\ masters' = masters /\ packs' = packs /\ answers' = answers
           /\ \/ Load \/ WriteConfig \/ RunArms \/ ArmFails
              \/ WriteSummary \/ WriteDetails \/ WriteRefinements \/ KillJob
<1> USE DEF WorkspaceIInv
<1>1. /\ population' = population /\ gen' = gen /\ prep' = prep /\ prepared' = prepared
      /\ prep.stage = "off" /\ sweep' = sweep /\ frozen' = frozen
    BY DEF JobMove, generation, disk, preparation, sweeps, Exclusive
<1>2. job.mode = "run" /\ job.place \in Directories /\ IsJob(job)
    BY RunIs DEF JobInv, Shapes
<1>3. \/ Load \/ WriteConfig \/ RunArms \/ ArmFails
      \/ WriteSummary \/ WriteDetails \/ WriteRefinements \/ KillJob
    BY <1>2 DEF JobMove, JobStep, JobFailure, Elicit, WritePack, ElicitFails
<1>4. ASSUME NEW stage, NEW code,
             job' = [job EXCEPT !.stage = stage] \/ job' = [job EXCEPT !.stage = stage, !.code = code]
      PROVE  SameRun
    BY <1>2, <1>4 DEF IsJob, SameRun
<1>5. (\E stage : job' = [job EXCEPT !.stage = stage])
      \/ (\E stage, code : job' = [job EXCEPT !.stage = stage, !.code = code])
    BY <1>3 DEF Load, WriteConfig, RunArms, ArmFails, WriteSummary, WriteDetails, WriteRefinements, KillJob, Exit
<1>6. SameRun
    BY <1>4, <1>5
<1>7. masters' = masters /\ packs' = packs /\ answers' = answers
    <2>1. CASE KillJob
        BY <1>1, <2>1, DyingRun DEF KillJob
    <2> QED
        BY <1>3, <2>1 DEF Load, WriteConfig, RunArms, ArmFails, WriteSummary, WriteDetails, WriteRefinements, packFiles
<1> QED
    BY <1>1, <1>2, <1>3, <1>6, <1>7

\* What is to be shown of a step: that it leaves the other directories alone, and keeps its
\* own.
OwnDirectory(p) ==
    /\ dirs' \in [Directories -> RunDirectories] /\ SummariesStay
    /\ disturbed \subseteq disturbed'
    /\ \A d \in Directories : d # p => dirs'[d] = dirs[d]
    /\ Kept(p)'
    /\ job'.stage \in {"details", "refinements"} \/ (job'.stage = "exited" /\ job'.code = 0) =>
          dirs'[p].summary # NoFile

\* The other directories are kept, too.
LEMMA OwnDirectoryKeeps ==
    ASSUME DirInv, NEW p \in Directories, job.mode = "run", job.place = p, SameRun, OwnDirectory(p)
    PROVE  DirInv'
<1>1. job'.mode = "run" /\ job'.place = p
    BY DEF SameRun
<1>2. ASSUME NEW d \in Directories, d # p
      PROVE  Kept(d)'
    <2>1. ~InHand(d) /\ ~InHand(d)'
        BY <1>1, <1>2 DEF InHand
    <2>2. Kept(d) /\ dirs'[d] = dirs[d] /\ disturbed \subseteq disturbed'
        BY <1>2 DEF DirInv, OwnDirectory
    <2> QED
        BY <2>1, <2>2 DEF Kept, Settled
<1> QED
    BY <1>1, <1>2 DEF DirInv, OwnDirectory

\* What is known of the directory in hand before a step.
LEMMA RunInHand ==
    ASSUME WorkspaceIInv, sweep.stage = "wait", NEW p \in Directories, p = job.place
    PROVE  /\ dirs \in [Directories -> RunDirectories] /\ dirs[p] \in RunDirectories
           /\ job.stage \notin {"load", "exited"} => Result \in Results /\ Result \in Tables /\ Readable(Result)
           /\ Kept(p)
           /\ job.stage \in {"details", "refinements"} => dirs[p].summary # NoFile
           /\ \A q \in Directories : OnlyIn(q) =>
                 /\ dirs' \in [Directories -> RunDirectories]
                 /\ \A d \in Directories : d # q => dirs'[d] = dirs[d]
                 /\ (Complete(q) => dirs'[q].summary # NoFile) => SummariesStay
<1> USE DEF WorkspaceIInv
<1>1. dirs \in [Directories -> RunDirectories] /\ dirs[p] \in RunDirectories
    BY DEF FilesOK
<1>2. job.stage \notin {"load", "exited"} => Result \in Results /\ Result \in Tables /\ Readable(Result)
    BY RunIs, ContentsAssumption DEF JobInv, Tables, Readable
<1>3. Kept(p)
    BY DEF DirInv
<1>4. job.stage \in {"details", "refinements"} => dirs[p].summary # NoFile
    BY RunIs DEF DirInv, JobInv
<1>5. ASSUME NEW q \in Directories, OnlyIn(q)
      PROVE  /\ dirs' \in [Directories -> RunDirectories]
             /\ \A d \in Directories : d # q => dirs'[d] = dirs[d]
             /\ (Complete(q) => dirs'[q].summary # NoFile) => SummariesStay
    BY <1>5 DEF OnlyIn, SummariesStay, Complete
<1> QED
    BY <1>1, <1>2, <1>3, <1>4, <1>5

\* Up to the arms, the run writes its configuration; what an earlier run returned is
\* forgotten.
LEMMA RunBegins ==
    ASSUME WorkspaceIInv, sweep.stage = "wait", NEW p \in Directories, p = job.place, job.mode = "run", SameRun,
           Load \/ WriteConfig \/ RunArms \/ ArmFails
    PROVE  OwnDirectory(p)
<1> USE DEF WorkspaceIInv
<1>1. /\ dirs \in [Directories -> RunDirectories] /\ dirs[p] \in RunDirectories
      /\ Kept(p)
    BY RunInHand
<1>2. job'.mode = "run" /\ job'.place = p /\ IsJob(job) /\ Result' = Result
    BY DEF SameRun, Shapes, Result
<1>3. ASSUME dirs' = dirs, disturbed' = disturbed, ~InHand(p), ~InHand(p)',
             job'.stage \notin {"details", "refinements"}, ~(job'.stage = "exited" /\ job'.code = 0)
      PROVE  OwnDirectory(p)
    BY <1>1, <1>3 DEF OwnDirectory, SummariesStay, Complete, Kept, Settled
<1>4. CASE Load
    <2>1. dirs' = dirs /\ disturbed' = disturbed /\ job.stage = "load"
        BY <1>4 DEF Load, Exit, runFiles
    <2>2. job'.stage = "config" \/ (job'.stage = "exited" /\ job'.code = 2)
        BY <1>2, <1>4 DEF Load, Exit, IsJob
    <2> QED
        BY <1>3, <2>1, <2>2 DEF InHand
<1>5. CASE WriteConfig
    <2>1. /\ job.stage = "config" /\ job'.stage = "arms"
          /\ dirs' = [dirs EXCEPT ![p].config = Result, ![p].exit = NoFile]
          /\ disturbed' = disturbed
        BY <1>2, <1>5 DEF WriteConfig, IsJob
    <2> DEFINE r == dirs[p]
    <2>2. FilesAre(p, Result, r.summary, r.sealed, r.refinements, NoFile)
        <3>1. Result \in Tables /\ NoFile \in Codes
            BY <2>1, RunInHand DEF Codes
        <3> QED
            BY <2>1, <3>1, WriteIs
    <2>3. Kept(p)'
        <3>1. dirs'[p].exit # 0 /\ dirs'[p].exit = NoFile /\ dirs'[p].config = Result
            BY <2>2, ContentsAssumption DEF FilesAre
        <3>2. InHand(p)' /\ Underway(p)'
            BY <1>2, <2>1, <3>1 DEF InHand, Underway
        <3> QED
            BY <3>1, <3>2 DEF Kept
    <2>4. OnlyIn(p) /\ dirs'[p].summary = r.summary
        BY <2>2 DEF FilesAre
    <2>5. SummariesStay
        BY <2>4, RunInHand DEF Complete
    <2>6. disturbed \subseteq disturbed' /\ job'.stage = "arms"
        BY <2>1
    <2> HIDE DEF r
    <2> QED
        BY <2>3, <2>4, <2>5, <2>6 DEF OwnDirectory, OnlyIn
<1>6. CASE RunArms
    <2>1. job.stage = "arms" /\ job'.stage = "summary" /\ dirs' = dirs /\ disturbed' = disturbed
        BY <1>2, <1>6 DEF RunArms, IsJob, runFiles
    <2>2. InHand(p) /\ InHand(p)'
        BY <1>2, <2>1 DEF InHand
    <2> QED
        BY <1>1, <1>2, <2>1, <2>2 DEF OwnDirectory, SummariesStay, Complete, Kept, Underway
<1>7. CASE ArmFails
    <2>1. /\ job.stage = "arms" /\ job'.stage = "exited" /\ job'.code = 1
          /\ dirs' = [dirs EXCEPT ![p].exit = 1] /\ disturbed' = disturbed \cup {p}
        <3>1. job.stage = "arms" /\ Exit(1)
            BY <1>7 DEF ArmFails
        <3>2. /\ job' = [job EXCEPT !.stage = "exited", !.code = 1]
              /\ dirs' = [dirs EXCEPT ![job.place].exit = 1] /\ disturbed' = disturbed \cup {job.place}
            BY <3>1 DEF Exit
        <3> QED
            BY <1>2, <3>1, <3>2 DEF IsJob
    <2> DEFINE r == dirs[p]
    <2>2. FilesAre(p, r.config, r.summary, r.sealed, r.refinements, 1)
        <3>1. NoFile \in Tables /\ 1 \in Codes
            BY DEF Tables, Codes
        <3> QED
            BY <2>1, <3>1, WriteIs
    <2>3. OnlyIn(p) /\ dirs'[p].summary = r.summary /\ dirs'[p].exit = 1
        BY <2>2 DEF FilesAre
    <2>4. SummariesStay
        BY <2>3, RunInHand DEF Complete
    <2>5. Kept(p)'
        BY <2>1, <2>3 DEF Kept, InHand
    <2> HIDE DEF r
    <2> QED
        BY <2>1, <2>3, <2>4, <2>5 DEF OwnDirectory, OnlyIn
<1> QED
    BY <1>4, <1>5, <1>6, <1>7

\* From the summary on, the run writes its tables one by one.
LEMMA RunWrites ==
    ASSUME WorkspaceIInv, sweep.stage = "wait", NEW p \in Directories, p = job.place, job.mode = "run", SameRun,
           WriteSummary \/ WriteDetails \/ WriteRefinements
    PROVE  OwnDirectory(p)
<1> USE DEF WorkspaceIInv
<1> DEFINE r == dirs[p]
<1>1. job'.mode = "run" /\ job'.place = p /\ IsJob(job) /\ Result' = Result
    BY DEF SameRun, Shapes, Result
<1>2. job.stage \in {"summary", "details", "refinements"} /\ disturbed' = disturbed
    BY DEF WriteSummary, WriteDetails, WriteRefinements
<1>3. Result \in Results /\ Result \in Tables /\ Readable(Result)
    BY <1>2, RunInHand
<1>4. Underway(p)
    BY <1>2, RunInHand DEF InHand, Kept
<1>5. NoFile \in Codes /\ 0 \in Codes /\ r \in RunDirectories
    BY RunInHand DEF Codes
<1>6. ASSUME OnlyIn(p), dirs'[p].summary # NoFile, Kept(p)'
      PROVE  OwnDirectory(p)
    <2>1. SummariesStay
        BY <1>6, RunInHand
    <2> QED
        BY <1>2, <1>6, <2>1 DEF OwnDirectory, OnlyIn
<1>7. CASE WriteSummary
    <2>1. job.stage = "summary" /\ job'.stage = "details" /\ dirs' = [dirs EXCEPT ![p].summary = Result]
        BY <1>1, <1>7 DEF WriteSummary, IsJob
    <2>2. FilesAre(p, r.config, Result, r.sealed, r.refinements, r.exit)
        BY <1>3, <1>5, <2>1, WriteIs
    <2>3. Kept(p)'
        BY <1>1, <1>4, <2>1, <2>2, ContentsAssumption DEF FilesAre, Kept, InHand, Underway
    <2> QED
        BY <1>3, <1>6, <2>2, <2>3 DEF FilesAre, Readable
<1>8. CASE WriteDetails
    <2>1. job.stage = "details" /\ job'.stage = "refinements" /\ dirs' = [dirs EXCEPT ![p].sealed = Result]
        BY <1>1, <1>8 DEF WriteDetails, IsJob
    <2>2. FilesAre(p, r.config, r.summary, Result, r.refinements, r.exit)
        BY <1>3, <1>5, <2>1, WriteIs
    <2>3. Kept(p)'
        BY <1>1, <1>4, <2>1, <2>2, ContentsAssumption DEF FilesAre, Kept, InHand, Underway
    <2>4. r.summary # NoFile
        BY <2>1, RunInHand
    <2> QED
        BY <1>6, <2>2, <2>3, <2>4 DEF FilesAre
<1>9. CASE WriteRefinements
    <2> DEFINE t == IF job.flags.asks THEN Result ELSE r.refinements
    <2>1. /\ job.stage = "refinements" /\ job'.stage = "exited"
          /\ dirs' = [dirs EXCEPT ![p].exit = 0, ![p].refinements = IF job.flags.asks THEN Result ELSE @]
        BY <1>1, <1>9 DEF WriteRefinements, IsJob
    <2>2. dirs' = [dirs EXCEPT ![p].exit = 0, ![p].refinements = t]
        BY <1>5, <2>1, RunInHand DEF RunDirectories
    <2>3. t \in Tables
        BY <1>3, <1>5 DEF RunDirectories
    <2>4. FilesAre(p, r.config, r.summary, r.sealed, t, 0)
        <3> HIDE DEF t
        <3> QED
            BY <1>5, <2>2, <2>3, WriteIs
    <2>5. Kept(p)'
        <3>1. r.config = Result /\ r.summary = Result /\ r.sealed = Result
            BY <1>4, <2>1 DEF Underway
        <3>2. Result.flags.asks => t = Result
            BY DEF Result
        <3> HIDE DEF t, r
        <3>3. /\ dirs'[p].config = Result /\ dirs'[p].summary = Result /\ dirs'[p].sealed = Result
              /\ dirs'[p].refinements = t /\ dirs'[p].exit = 0
            BY <2>4, <3>1 DEF FilesAre
        <3>4. IsWhole(dirs'[p])
            BY <1>3, <3>2, <3>3 DEF IsWhole
        <3> QED
            BY <2>1, <3>3, <3>4 DEF Kept, InHand, Settled
    <2>6. r.summary # NoFile
        BY <2>1, RunInHand
    <2> QED
        BY <1>6, <2>4, <2>5, <2>6 DEF FilesAre
<1> QED
    BY <1>7, <1>8, <1>9

\* A run that dies has disturbed its directory, unless it had not begun.
LEMMA RunDies ==
    ASSUME WorkspaceIInv, sweep.stage = "wait", prep.stage # "wait", NEW p \in Directories, p = job.place,
           job.mode = "run", SameRun, KillJob
    PROVE  OwnDirectory(p)
<1> USE DEF WorkspaceIInv
<1>1. IsJob(job) /\ JobDies
    BY DEF Shapes, KillJob
<1>2. job'.stage = "exited" /\ job'.code = 1
    BY <1>1 DEF KillJob, IsJob
<1>3. /\ dirs' \in [Directories -> RunDirectories] /\ SummariesStay
      /\ disturbed \subseteq disturbed'
      /\ \A d \in Directories \ disturbed' : dirs'[d] = dirs[d] /\ ~InHand(d)
      /\ \A d \in Directories : dirs'[d] = dirs[d] \/ (d = p /\ dirs'[d].exit = NoFile)
    BY <1>1, DyingRun
<1>4. Kept(p)'
    <2>1. Kept(p)
        BY RunInHand
    <2>2. ~InHand(p)'
        BY <1>2 DEF InHand
    <2>3. dirs'[p].exit = 0 => IsWhole(dirs'[p])
        BY <1>3, <2>1, ContentsAssumption DEF Kept
    <2>4. p \notin disturbed' => Settled(p)'
        BY <1>3, <2>1 DEF Kept, Settled
    <2> QED
        BY <2>2, <2>3, <2>4 DEF Kept
<1> QED
    BY <1>2, <1>3, <1>4 DEF OwnDirectory

\* All of the invariant.
LEMMA RunningStep ==
    ASSUME WorkspaceIInv, JobMove, sweep.stage = "wait"
    PROVE  WorkspaceIInv'
<1> USE DEF WorkspaceIInv
<1>1. GenInv'
    BY GeneratorStep, GenStepInvariant, QuotesStep, WrittenStep DEF GenInv
<1>2. /\ population' = population /\ gen' = gen /\ prep' = prep /\ prepared' = prepared
      /\ prep.stage = "off" /\ sweep' = sweep /\ frozen' = frozen
      /\ job.mode = "run" /\ job.place \in Directories /\ SameRun
      /\ masters' = masters /\ packs' = packs /\ answers' = answers
      /\ \/ Load \/ WriteConfig \/ RunArms \/ ArmFails
         \/ WriteSummary \/ WriteDetails \/ WriteRefinements \/ KillJob
    BY RunningFrame
<1>3. OwnDirectory(job.place)
    BY <1>2, RunBegins, RunWrites, RunDies
<1>4. /\ dirs' \in [Directories -> RunDirectories] /\ disturbed \subseteq disturbed'
      /\ \A d \in Directories : Complete(d) => Complete(d)'
    BY <1>3 DEF OwnDirectory, SummariesStay
<1>5. FilesOK' /\ Exclusive' /\ PreparedCasesMatchMasters'
    BY <1>2, <1>4 DEF FilesOK, PacksAreGenuine, Exclusive, PreparedCasesMatchMasters
<1>6. Shapes'
    BY <1>2 DEF Shapes, SameRun
<1>7. PrepInv'
    BY <1>2 DEF PrepInv
<1>8. DirInv'
    BY <1>2, <1>3, OwnDirectoryKeeps
<1>9. JobInv'
    <2>1. Cell' = Cell
        BY <1>2 DEF Cell
    <2>2. job'.mode = "run" /\ job'.place = Cell /\ job'.pack = packs[Cell] /\ job'.flags = sweep.args.flags
        BY <1>2 DEF SameRun, JobInv, RunJobInv
    <2>3. IsJob(job)
        BY DEF Shapes
    <2>4. /\ job'.stage \in {"config", "arms", "summary", "details", "refinements", "exited"}
          /\ job'.stage \notin {"config", "exited"} => job.stage \notin {"load", "exited"}
          /\ job'.stage = "config" => Readable(job.pack)
        BY <1>2, <2>3 DEF Load, WriteConfig, RunArms, ArmFails, WriteSummary, WriteDetails, WriteRefinements,
                          KillJob, Exit, IsJob, IsPackFor
    <2>5. job.pack = packs[Cell] /\ packs[Cell] \in PackFiles
        BY CellIs DEF SweepInv, JobInv, RunJobInv
    <2>6. job'.stage \notin {"load", "exited"} => job'.pack \in Packs
        BY <2>2, <2>4, <2>5 DEF JobInv, RunJobInv, PackFiles, Readable
    <2> QED
        BY <1>2, <2>1, <2>2, <2>4, <2>6 DEF JobInv, PrepareJobInv, RunJobInv
<1>10. SweepInv'
    <2>1. ASSUME NEW j \in 1..sweep.k - 1, Complete(Cases[j])
          PROVE  Complete(Cases[j])'
        <3>1. j \in 1..Len(Cases)
            BY CellsAre DEF SweepInv
        <3>2. Cases[j] \in Directories
            BY <3>1, CellsAre
        <3> QED
            BY <1>4, <2>1, <3>2
    <2> QED
        BY <1>2, <2>1 DEF SweepInv
<1>11. FinalInv'
    BY <1>2 DEF FinalInv, Verified
<1> QED
    BY <1>1, <1>5, <1>6, <1>7, <1>8, <1>9, <1>10, <1>11

-----------------------------------------------------------------------------
(* The beginning of a session.                                             *)

\* No directory was run in, and no script is running.
LEMMA SessionBegins ==
    ASSUME Init
    PROVE  /\ dirs \in [Directories -> RunDirectories]
           /\ Shapes /\ Exclusive /\ PrepInv /\ JobInv /\ DirInv /\ SweepInv /\ FinalInv
<1>1. /\ gen = GenOff /\ \E code : prep = PrepOff(code)
      /\ dirs = [d \in Directories |-> EmptyDirectory] /\ job = NoJob /\ disturbed = {}
      /\ sweep = SweepOff("none", NoFile) /\ frozen = NoFile
    BY DEF Init, EmptyDisk, PreparedDisk, GenInit, PrepInit, SweepInit
<1>2. gen.stage = "off"
    BY <1>1 DEF GenOff
<1>3. prep.stage = "off" /\ prep.k = 1 /\ IsPrep(prep)
    BY <1>1 DEF PrepOff, IsPrep
<1>4. sweep.stage = "off" /\ sweep.k = 1 /\ sweep.kind = "none" /\ IsSweep(sweep)
    BY <1>1 DEF SweepOff, IsSweep
<1>5. IsJob(job) /\ job.mode = "none"
    BY <1>1 DEF NoJob, IsJob
<1>6. EmptyDirectory \in RunDirectories
    BY DEF EmptyDirectory, RunDirectories, Tables
<1>7. \A d \in Directories : Kept(d)
    BY <1>1, <1>5, ContentsAssumption DEF Kept, Settled, EmptyDirectory, InHand
<1>8. dirs \in [Directories -> RunDirectories]
    BY <1>1, <1>6
<1>9. Shapes /\ Exclusive /\ PrepInv /\ SweepInv /\ FinalInv
    BY <1>2, <1>3, <1>4, <1>5 DEF Shapes, Exclusive, PrepInv, SweepInv, FinalInv
<1>10. JobInv /\ DirInv
    BY <1>1, <1>3, <1>4, <1>5, <1>7 DEF JobInv, PrepareJobInv, RunJobInv, DirInv
<1> QED
    BY <1>8, <1>9, <1>10

\* Before anything was generated.
LEMMA EmptyDiskBegins ==
    ASSUME Init, EmptyDisk
    PROVE  WorkspaceIInv
<1>1. GenInv
    <2>1. GenInit
        BY DEF EmptyDisk
    <2>2. QuotesSoFar /\ Written
        BY <2>1 DEF GenInit, GenOff, QuotesSoFar, IsValid, Readable, Written, BatchesQuoteEachOther
    <2> QED
        BY <2>1, <2>2, GenInitInvariant DEF GenInv
<1>2. /\ population = NoFile /\ masters = [goods \in Sizes |-> NoFile] /\ packs = [case \in Range(Cases) |-> NoFile]
      /\ answers = <<>> /\ prepared = NoFile
    BY DEF EmptyDisk, GenInit, PrepInit
<1>3. masters \in [Sizes -> PackFiles] /\ packs \in [Range(Cases) -> PackFiles]
    BY <1>2 DEF PackFiles
<1>4. PacksAreGenuine /\ PreparedCasesMatchMasters
    BY <1>2 DEF PacksAreGenuine, PreparedCasesMatchMasters, Readable
<1>5. \A key \in DOMAIN answers : answers[key] \in Nat
    BY <1>2
<1>6. FilesOK
    BY <1>2, <1>3, <1>4, <1>5, SessionBegins DEF FilesOK
<1> QED
    BY <1>1, <1>4, <1>6, SessionBegins DEF WorkspaceIInv

\* The population of the prepared disk: every response is valid and quotes those before it.
LEMMA FirstPopulationIs ==
    /\ FirstPopulation \in Populations
    /\ \A b \in 1..Batches : /\ IsValid(FirstPopulation[b])
                             /\ FirstPopulation[b].quotes = Before(FirstPopulation, b)
<1>1. ASSUME NEW b \in 1..Batches
      PROVE  /\ FirstPopulation[b] \in Answers /\ FirstPopulation[b].id = b /\ IsValid(FirstPopulation[b])
             /\ FirstPopulation[b].quotes = [k \in 1..b - 1 |-> k]
    <2> DEFINE quotes == [k \in 1..b - 1 |-> k]
    <2>1. b \in Nat \ {0}
        BY GenerationAssumption
    <2>2. quotes \in Seq(Nat)
        <3>1. b - 1 \in Nat /\ quotes \in [1..b - 1 -> Nat]
            BY <2>1
        <3> HIDE DEF quotes
        <3> QED
            BY <3>1
    <2>3. FirstPopulation[b] = [id |-> b, valid |-> TRUE, quotes |-> quotes]
        BY DEF FirstPopulation
    <2> HIDE DEF quotes
    <2>4. FirstPopulation[b] \in Answers
        BY <2>1, <2>2, <2>3 DEF Answers
    <2>5. FirstPopulation[b].id = b /\ FirstPopulation[b].valid = TRUE /\ FirstPopulation[b].quotes = quotes
        BY <2>3
    <2>6. IsValid(FirstPopulation[b])
        BY <2>4, <2>5, ContentsAssumption DEF IsValid, Readable
    <2> QED
        BY <2>4, <2>5, <2>6 DEF quotes
<1>2. FirstPopulation = [b \in 1..Batches |-> FirstPopulation[b]]
    BY DEF FirstPopulation
<1>3. FirstPopulation \in Populations
    BY <1>1, <1>2 DEF Populations
<1>4. ASSUME NEW b \in 1..Batches
      PROVE  Before(FirstPopulation, b) = [k \in 1..b - 1 |-> k]
    <2>1. \A k \in 1..b - 1 : k \in 1..Batches
        BY GenerationAssumption
    <2> QED
        BY <1>1, <2>1 DEF Before
<1> QED
    BY <1>1, <1>3, <1>4

\* Its packs: every master serves, and every case is projected from its master.
LEMMA FirstPacksAre ==
    /\ \A goods \in Sizes :
          /\ FirstMasters[goods] \in Packs /\ IsGenuine(FirstMasters[goods])
          /\ Serves(FirstMasters[goods], FirstPopulation, goods) /\ FirstMasters[goods].spec = FirstPopulation
    /\ \A case \in Range(Cases) :
          /\ case.goods \in Sizes
          /\ FirstPacks[case] \in Packs /\ IsGenuine(FirstPacks[case]) /\ Readable(FirstPacks[case])
          /\ FirstPacks[case].spec = FirstPopulation
          /\ DOMAIN FirstPacks[case].entries = Sample(case.bidders)
          /\ \A i \in Sample(case.bidders) :
                FirstPacks[case].entries[i] = FirstMasters[case.goods].entries[i]
<1> DEFINE p == FirstPopulation
<1>1. p \in Populations
    BY FirstPopulationIs
<1> HIDE DEF p
<1>2. ASSUME NEW goods \in Sizes
      PROVE  /\ FirstMasters[goods] \in Packs /\ IsGenuine(FirstMasters[goods])
             /\ Serves(FirstMasters[goods], p, goods) /\ FirstMasters[goods].spec = p
    <2> DEFINE n == MasterBidders(goods)
               scenario == Scenario(p, goods, n)
               entries == [i \in DOMAIN scenario.persons |-> Entry(scenario, i, 1)]
    <2>1. n \in Sizes
        BY MasterBiddersIs
    <2> HIDE DEF n
    <2>2. /\ scenario.goods = goods /\ DOMAIN scenario.persons = Sample(n)
          /\ \A i \in Sample(n) : scenario.persons[i] = p[i].id /\ p[i].id \in Nat
        BY <1>1, <2>1, ScenarioIs
    <2>3. FirstMasters[goods] = Pack(p, scenario, entries)
        BY DEF FirstMasters, p, n
    <2> HIDE DEF scenario
    <2>4. \A i \in Sample(n) : /\ entries[i] = [person |-> p[i].id, goods |-> goods, asking |-> 1]
                               /\ entries[i] \in Entries
        BY <2>2 DEF Entry, Entries
    <2>5. entries \in [Sample(n) -> Entries]
        BY <2>2, <2>4
    <2> HIDE DEF entries
    <2>6. AnswersFor(entries, p, goods, n)
        BY <2>4, <2>5 DEF AnswersFor
    <2> QED
        BY <1>1, <2>1, <2>3, <2>6, PackIs DEF Serves, scenario, n
<1>3. ASSUME NEW case \in Range(Cases)
      PROVE  /\ case.goods \in Sizes
             /\ FirstPacks[case] \in Packs /\ IsGenuine(FirstPacks[case]) /\ Readable(FirstPacks[case])
             /\ FirstPacks[case].spec = p
             /\ DOMAIN FirstPacks[case].entries = Sample(case.bidders)
             /\ \A i \in Sample(case.bidders) :
                   FirstPacks[case].entries[i] = FirstMasters[case.goods].entries[i]
    <2>1. case \in GridCases /\ case.goods \in Sizes
        BY CasesAre DEF GridCases
    <2>2. FirstPacks[case] = Projection(FirstMasters[case.goods], p, case)
        BY DEF FirstPacks, Projection, p
    <2> QED
        BY <1>1, <1>2, <2>1, <2>2, ProjectionIs
<1> QED
    BY <1>2, <1>3 DEF p

\* After a population was generated and prepared.
LEMMA PreparedDiskBegins ==
    ASSUME Init, PreparedDisk
    PROVE  WorkspaceIInv
<1> DEFINE p == FirstPopulation
<1>1. /\ p \in Populations
      /\ \A b \in 1..Batches : IsValid(p[b]) /\ p[b].quotes = Before(p, b)
    BY FirstPopulationIs
<1> HIDE DEF p
<1>2. /\ responses = p /\ population = p /\ gen = GenOff /\ calls = Batches /\ redone = FALSE
      /\ masters = FirstMasters /\ packs = FirstPacks
      /\ answers = [key \in (1..Batches) \X Sizes |-> 1]
      /\ prepared = [spec |-> p, masters |-> FirstMasters, packs |-> FirstPacks]
    BY DEF PreparedDisk, p
<1>3. GenInv
    <2>1. GenTypeOK
        <3>1. gen \in Running /\ gen.stage = "off"
            BY <1>2, OffIsTyped DEF GenOff
        <3>2. responses \in [1..Batches -> Texts] /\ calls \in Nat /\ redone \in BOOLEAN
            BY <1>1, <1>2, InvocationTypes DEF Populations, Texts
        <3> QED
            BY <3>1, <3>2 DEF GenTypeOK
    <2>2. AcceptedSoFar /\ AttemptsSoFar /\ CeilingPassedByOneCall
        BY <1>2 DEF GenOff, AcceptedSoFar, AttemptsSoFar, CeilingPassedByOneCall
    <2>3. \A b \in 1..Batches : \A k \in 1..b - 1 : k \in 1..Batches
        BY InvocationTypes
    <2>4. QuotesSoFar
        BY <1>1, <1>2, <2>3 DEF GenOff, QuotesSoFar
    <2>5. Written
        BY <1>1, <1>2 DEF Written, BatchesQuoteEachOther, Before, Populations
    <2> QED
        BY <2>1, <2>2, <2>4, <2>5 DEF GenInv, GenIInv
<1>4. /\ \A goods \in Sizes : masters[goods] \in PackFiles /\ IsGenuine(masters[goods]) /\ masters[goods].spec = p
      /\ \A case \in Range(Cases) :
            /\ packs[case] \in PackFiles /\ IsGenuine(packs[case]) /\ Readable(packs[case])
            /\ packs[case].spec = p /\ DOMAIN packs[case].entries = Sample(case.bidders)
            /\ \A i \in Sample(case.bidders) : packs[case].entries[i] = masters[case.goods].entries[i]
    BY <1>2, FirstPacksAre DEF PackFiles, p
<1>5. masters \in [Sizes -> PackFiles] /\ packs \in [Range(Cases) -> PackFiles]
    <2>1. masters = [goods \in Sizes |-> masters[goods]] /\ packs = [case \in Range(Cases) |-> packs[case]]
        BY <1>2 DEF FirstMasters, FirstPacks
    <2> QED
        BY <1>4, <2>1
<1>6. DOMAIN masters = Sizes /\ DOMAIN packs = Range(Cases)
    BY <1>5
<1>7. PacksAreGenuine
    BY <1>4, <1>6 DEF PacksAreGenuine
<1>8. prepared.spec = p /\ prepared.masters = masters /\ prepared.packs = packs
    BY <1>2
<1>9. PreparedCasesMatchMasters
    BY <1>4, <1>6, <1>8 DEF PreparedCasesMatchMasters
<1>10. \A key \in DOMAIN answers : answers[key] \in Nat
    BY <1>2
<1>11. FilesOK
    BY <1>1, <1>2, <1>5, <1>7, <1>10, SessionBegins DEF FilesOK
<1> QED
    BY <1>3, <1>9, <1>11, SessionBegins DEF WorkspaceIInv

-----------------------------------------------------------------------------
(* The theorems.                                                           *)

\* The invariant of a session: of the files, of the running scripts and of what they are
\* past, whatever was run, failed or killed before.
THEOREM WorkspaceInvariant == Spec => []WorkspaceIInv
<1>1. Init => WorkspaceIInv
    BY EmptyDiskBegins, PreparedDiskBegins DEF Init
<1>2. WorkspaceIInv /\ [Next]_workspace => WorkspaceIInv'
    <2> SUFFICES ASSUME WorkspaceIInv, [Next]_workspace PROVE WorkspaceIInv'
        OBVIOUS
    <2>1. CASE JobMove
        <3>1. prep.stage = "wait" \/ sweep.stage = "wait"
            BY <2>1, JobHasParent DEF JobMove, WorkspaceIInv
        <3> QED
            BY <2>1, <3>1, ElicitingStep, RunningStep
    <2> QED
        BY <2>1, WorkspaceCases, GenMoveStep, PrepMoveStep, SweepMoveStep
<1> QED
    BY <1>1, <1>2, PTL DEF Spec

\* frozen_elicitation.py:452, :557: a readable pack holds the answers of the persons that
\* its scenario names.
THEOREM WorkspacePacksAreGenuine == Spec => []PacksAreGenuine
<1>1. WorkspaceIInv => PacksAreGenuine
    BY DEF WorkspaceIInv, FilesOK
<1> QED
    BY <1>1, WorkspaceInvariant, PTL

\* prepare_scalability_elicitation_packs.py:511-549: the cases of a complete manifest are
\* projections of its masters.
THEOREM WorkspaceCasesMatchMasters == Spec => []PreparedCasesMatchMasters
<1>1. WorkspaceIInv => PreparedCasesMatchMasters
    BY DEF WorkspaceIInv
<1> QED
    BY <1>1, WorkspaceInvariant, PTL

\* run_scalability_experiment.py:367: a sweep that returned zero left a summary for every
\* case, of a run that returned zero where no failure or kill touched the directory; and
\* where the last run returned zero, the tables are of that run.
THEOREM WorkspaceSweepsLeaveNoGap == Spec => []ZeroSweepLeavesNoGap
<1>1. WorkspaceIInv => ZeroSweepLeavesNoGap
    <2> SUFFICES ASSUME WorkspaceIInv, sweep.stage = "off", sweep.kind \in {"scalability", "final"}, sweep.code = 0,
                        NEW d \in Directories
                 PROVE  /\ dirs[d].summary # NoFile /\ (d \notin disturbed => dirs[d].exit = 0)
                        /\ dirs[d].exit = 0 => IsWhole(dirs[d])
        BY DEF ZeroSweepLeavesNoGap
    <2>1. Complete(d)
        BY DEF WorkspaceIInv, SweepInv
    <2>2. ~InHand(d)
        BY DEF WorkspaceIInv, JobInv, PrepareJobInv, InHand, NoJob
    <2> QED
        BY <2>1, <2>2 DEF WorkspaceIInv, DirInv, Kept, Settled, Complete
<1> QED
    BY <1>1, WorkspaceInvariant, PTL

\* A configuration is written by a run that was given its pack, or cut short by a kill.
LEMMA ConfigsChange ==
    ASSUME WorkspaceIInv, [Next]_workspace, NEW d \in Directories,
           dirs'[d].config # dirs[d].config, Readable(dirs'[d].config)
    PROVE  /\ sweep.stage = "wait" /\ d = Cell
           /\ dirs'[d].config.pack = packs[Cell]
<1> USE DEF WorkspaceIInv
<1>1. dirs'[d].config \notin {dirs[d].config, Torn}
    BY DEF Readable
<1>2. ~GenMove
    BY <1>1 DEF GenMove, batch, runFiles
<1>3. ~PrepMove
    BY <1>1, PrepFrame
<1>4. ~SweepMove
    <2> SUFFICES ASSUME SweepMove PROVE FALSE
        OBVIOUS
    <2>1. KillSweep /\ prep.stage = "off"
        BY <1>1, SweepFrame
    <2> QED
        BY <1>1, <2>1, DyingRun DEF KillSweep
<1>5. JobMove
    BY <1>2, <1>3, <1>4, WorkspaceCases
<1>6. sweep.stage = "wait"
    <2>1. prep.stage = "wait" \/ sweep.stage = "wait"
        BY <1>5, JobHasParent DEF JobMove
    <2> QED
        BY <1>1, <1>5, <2>1, ElicitingFrame
<1>7. /\ prep.stage = "off" /\ job.mode = "run" /\ job.place \in Directories
      /\ \/ Load \/ WriteConfig \/ RunArms \/ ArmFails
         \/ WriteSummary \/ WriteDetails \/ WriteRefinements \/ KillJob
    BY <1>5, <1>6, RunningFrame
<1>8. ~KillJob
    BY <1>1, <1>7, DyingRun DEF KillJob
<1> DEFINE p == job.place
           r == dirs[p]
<1>9. p \in Directories /\ r \in RunDirectories /\ NoFile \in Codes /\ {0, 1, 2} \subseteq Codes /\ NoFile \in Tables
    BY <1>6, <1>7, RunInHand DEF Codes, Tables
<1>10. job.stage \notin {"load", "exited"} => Result \in Tables
    BY <1>6, <1>9, RunInHand
<1>11. ASSUME OnlyIn(p), dirs'[p].config = r.config
       PROVE  FALSE
    BY <1>1, <1>11 DEF OnlyIn
<1> HIDE DEF p, r
<1>12. ~Load /\ ~RunArms
    <2>1. ~(Load /\ dirs' # dirs)
        BY DEF Load, Exit, runFiles
    <2> QED
        BY <1>1, <2>1 DEF RunArms, runFiles
<1>13. ~ArmFails
    <2> SUFFICES ASSUME ArmFails PROVE FALSE
        OBVIOUS
    <2>1. job.stage = "arms" /\ Exit(1)
        BY DEF ArmFails
    <2>2. dirs' = [dirs EXCEPT ![p].exit = 1]
        BY <1>7, <2>1 DEF Exit, p
    <2>3. FilesAre(p, r.config, r.summary, r.sealed, r.refinements, 1)
        BY <1>9, <2>2, WriteIs DEF r
    <2> QED
        BY <1>11, <2>3 DEF FilesAre
<1>14. ~WriteSummary
    <2> SUFFICES ASSUME WriteSummary PROVE FALSE
        OBVIOUS
    <2>1. dirs' = [dirs EXCEPT ![p].summary = Result] /\ Result \in Tables
        BY <1>10 DEF WriteSummary, p
    <2>2. FilesAre(p, r.config, Result, r.sealed, r.refinements, r.exit)
        BY <1>9, <2>1, WriteIs DEF r
    <2> QED
        BY <1>11, <2>2 DEF FilesAre
<1>15. ~WriteDetails
    <2> SUFFICES ASSUME WriteDetails PROVE FALSE
        OBVIOUS
    <2>1. dirs' = [dirs EXCEPT ![p].sealed = Result] /\ Result \in Tables
        BY <1>10 DEF WriteDetails, p
    <2>2. FilesAre(p, r.config, r.summary, Result, r.refinements, r.exit)
        BY <1>9, <2>1, WriteIs DEF r
    <2> QED
        BY <1>11, <2>2 DEF FilesAre
<1>16. ~WriteRefinements
    <2> SUFFICES ASSUME WriteRefinements PROVE FALSE
        OBVIOUS
    <2> DEFINE t == IF job.flags.asks THEN Result ELSE r.refinements
    <2>1. /\ job.stage = "refinements"
          /\ dirs' = [dirs EXCEPT ![p].exit = 0, ![p].refinements = IF job.flags.asks THEN Result ELSE @]
        BY DEF WriteRefinements, p
    <2>2. dirs' = [dirs EXCEPT ![p].exit = 0, ![p].refinements = t]
        BY <1>9, <2>1 DEF FilesOK, RunDirectories, r
    <2>3. t \in Tables
        BY <1>9, <1>10, <2>1 DEF RunDirectories
    <2> HIDE DEF t
    <2>4. FilesAre(p, r.config, r.summary, r.sealed, t, 0)
        BY <1>9, <2>2, <2>3, WriteIs DEF r
    <2> QED
        BY <1>11, <2>4 DEF FilesAre
<1>17. CASE WriteConfig
    <2>1. dirs' = [dirs EXCEPT ![p].config = Result, ![p].exit = NoFile] /\ Result \in Tables
        BY <1>10, <1>17 DEF WriteConfig, p
    <2>2. FilesAre(p, Result, r.summary, r.sealed, r.refinements, NoFile)
        BY <1>9, <2>1, WriteIs DEF r
    <2>3. d = p /\ dirs'[p].config = Result
        BY <1>1, <2>2 DEF FilesAre, OnlyIn
    <2>4. job.place = Cell /\ job.pack = packs[Cell]
        BY <1>6 DEF JobInv, RunJobInv
    <2> QED
        BY <1>6, <2>3, <2>4 DEF Result, p
<1> QED
    BY <1>7, <1>8, <1>12, <1>13, <1>14, <1>15, <1>16, <1>17

\* final_pipeline.py:210: what a frozen final run writes comes from the frozen packs.
THEOREM WorkspaceFrozenRuns == Spec => FrozenRunsUseFrozenInputs
<1>1. ASSUME WorkspaceIInv, [Next]_workspace, NEW d \in Directories, sweep.kind = "final",
             dirs'[d].config # dirs[d].config, Readable(dirs'[d].config)
      PROVE  dirs'[d].config.pack = frozen.packs[d] /\ frozen.spec = population
    <2>1. sweep.stage = "wait" /\ d = Cell /\ dirs'[d].config.pack = packs[Cell]
        BY <1>1, ConfigsChange
    <2> QED
        BY <1>1, <2>1 DEF WorkspaceIInv, FinalInv, Verified
<1>2. WorkspaceIInv /\ [Next]_workspace =>
          [\A d \in Directories :
               sweep.kind = "final" /\ dirs'[d] # dirs[d] /\ dirs'[d].config # dirs[d].config
               /\ Readable(dirs'[d].config)
               => /\ dirs'[d].config.pack = frozen.packs[d]
                  /\ frozen.spec = population]_<<sweeps, batch>>
    BY <1>1
<1> QED
    BY <1>2, WorkspaceInvariant, PTL DEF Spec, FrozenRunsUseFrozenInputs

\* generate_pc_build_population.py:964, :990-1000: the generator does in a session what
\* it does alone.
THEOREM WorkspaceGenerates ==
    Spec => [](AcceptedAreCanonical /\ BatchesQuoteEachOther /\ CeilingPassedByOneCall)
<1>1. WorkspaceIInv => AcceptedAreCanonical /\ BatchesQuoteEachOther /\ CeilingPassedByOneCall
    <2> SUFFICES ASSUME GenInv
                 PROVE  AcceptedAreCanonical /\ BatchesQuoteEachOther /\ CeilingPassedByOneCall
        BY DEF WorkspaceIInv
    <2>1. DOMAIN gen.accepted = 1..Len(gen.accepted)
        BY DEF GenInv, GenIInv, GenTypeOK, Running
    <2> QED
        BY <2>1 DEF GenInv, GenIInv, AcceptedSoFar, Written, AcceptedAreCanonical
<1> QED
    BY <1>1, WorkspaceInvariant, PTL

\* generate_pc_build_population.py:964: whatever else is run in between, a resumed
\* invocation does not pay twice.
THEOREM WorkspaceResumes == Spec => ResumePaysOnce
<1>1. WorkspaceIInv /\ [Next]_workspace => GenIInv /\ [GenNext]_generation
    BY WorkspaceCases, GeneratorStep DEF WorkspaceIInv, GenInv
<1> QED
    BY <1>1, ResumeStep, WorkspaceInvariant, PTL DEF Spec, ResumePaysOnce
=============================================================================
