-------------------------- MODULE InitialElicitation --------------------------
(***************************************************************************)
(* The initial elicitation of a case over the response cache:              *)
(* compute_elicitation_cache of examples/run_live_llm_curated_batch.py and *)
(* the calls it makes.  For every bidder in turn the person answers the    *)
(* opening question, a verifier reads the answer back, an interest map is  *)
(* inferred from it and its complementary groups are audited, and the      *)
(* candidate bundles of the map are valued chunk by chunk.  Whatever fails *)
(* on the way loses the entries of the run, but not the responses stored.  *)
(*                                                                         *)
(* The opening question is given, the verifier and the bulk valuation are  *)
(* on; a disclosure may be frozen, as when a calibration is prepared.      *)
(***************************************************************************)
EXTENDS LlmCache, InterestMaps

CONSTANTS
    Bidders,        \* the sequence of bidders
    Items,
    Truth,          \* the disclosed profile of every bidder
    Answers,        \* the answers a person may give, each with its wording
    Extraction,     \* what a response of the verifier says was disclosed
    UpheldModes,    \* the groups whose mode a response of the second pass upholds
    RawMap,         \* the map in a response
    Entailed,       \* the complementary groups a response of the audit retains
    Values,         \* responses that value a chunk
    Queried,        \* responses to value and demand queries
    Plans,          \* what a session may be told: a frozen disclosure, or NoText, and
                    \* how maps and valuations that fail are met, "raise" or "degrade"
    MaxCandidates,  \* --max-candidate-bundles, 0 for none
    ChunkSize,      \* --pv-chunk-size, 0 for none
    MaxSessions     \* bound on the sessions

ASSUME ElicitationAssumption ==
    /\ DOMAIN Extraction \cup DOMAIN UpheldModes \cup DOMAIN Entailed
         \cup Answers \cup Values \cup Queried \subseteq Good
    /\ \A t \in DOMAIN RawMap :
          t \in IF Consistent(ParsedMap(RawMap[t], Items), Items) THEN Good ELSE Bad
    /\ Plans \subseteq [disclosed : Answers \cup {NoText}, policy : {"raise", "degrade"}]
    /\ Bidders \in Seq(Range(Bidders)) /\ IsInjective(Bidders) /\ Bidders # <<>>
    /\ Items \subseteq Nat /\ IsFiniteSet(Items)
    /\ \A r \in Requests : r.kind \in {"value_query", "demand_query"}
    /\ MaxCandidates \in Nat /\ ChunkSize \in Nat
    /\ MaxSessions \in Nat

VARIABLES
    task,       \* the bidder being elicited and how far it is
    entries,    \* the entries of the running elicitation
    done,       \* the entries of the latest elicitation that returned
    sessions    \* sessions started so far

elicitVars == <<task, entries, done>>
vars == <<cacheVars, elicitVars, sessions>>

Idle     == [stage |-> "idle"]
Failed   == [stage |-> "failed"]
Returns  == [stage |-> "returned"]
NoMap    == [interested |-> {}, excluded |-> {}, complements |-> {}, substitutes |-> {}]
NoEntry  == [b \in {} |-> NoMap]

\* What a response to a call of the given kind may be, besides malformed.
Says(kind) ==
    CASE kind = "person_nl_response"                    -> Answers
      [] kind = "person_answer_semantic_extraction"     -> DOMAIN Extraction
      [] kind = "person_answer_substitute_entailment"   -> DOMAIN UpheldModes
      [] kind = "interest_map"                          -> DOMAIN RawMap
      [] kind = "interest_map_complement_entailment"    -> DOMAIN Entailed
      [] kind = "provisional_valuations"                -> Values
      [] OTHER                                          -> Queried

-----------------------------------------------------------------------------
\* The requests: what tells one prompt of a bidder from another.

Prompt(kind, bidder) ==
    [kind |-> kind, bidder |-> bidder, answer |-> NoText, attempt |-> 0,
     groups |-> {}, map |-> NoMap, bundles |-> <<>>]

AnswerPrompt(b) == Prompt("person_nl_response", b)

\* The verifier's key also holds the attempt the answer came from.
ExtractionPrompt(b, answer, attempt) ==
    [Prompt("person_answer_semantic_extraction", b) EXCEPT
        !.answer = answer, !.attempt = attempt]

EntailmentPrompt(b, answer, attempt, extraction) ==
    [Prompt("person_answer_substitute_entailment", b) EXCEPT
        !.answer = answer, !.attempt = attempt,
        !.groups = {g.items : g \in Claims(extraction)}]

MapPrompt(b, answer) == [Prompt("interest_map", b) EXCEPT !.answer = answer]

AuditPrompt(b, answer, map) ==
    [Prompt("interest_map_complement_entailment", b) EXCEPT
        !.answer = answer, !.groups = map.complements]

ValuePrompt(b, answer, map, bundles) ==
    [Prompt("provisional_valuations", b) EXCEPT
        !.answer = answer, !.map = map, !.bundles = bundles]

-----------------------------------------------------------------------------

Init ==
    /\ CacheInit
    /\ task = Idle
    /\ entries = NoEntry
    /\ done = NoEntry
    /\ sessions = 0

Working == task.stage \in {"answer", "extract", "entail", "map", "audit", "value"}

\* The clients, persons and proxies are those of the process.
Forgets == task' = Idle /\ entries' = NoEntry /\ UNCHANGED done

Starts ==
    /\ StartSession /\ sessions < MaxSessions
    /\ sessions' = sessions + 1
    /\ Forgets
Ends == EndSession /\ ~Working /\ Forgets /\ UNCHANGED sessions
Dies == Crash /\ Forgets /\ UNCHANGED sessions

\* The bidder at position pos is taken up; a frozen disclosure needs no answer.
TakeUp(pos, plan) ==
    [stage |-> IF plan.disclosed = NoText THEN "answer" ELSE "map",
     pos |-> pos, plan |-> plan, held |-> NoCall,
     extraction |-> NoText, answer |-> plan.disclosed, map |-> NoMap,
     chunks |-> <<>>, values |-> [b \in {} |-> NoText], kept |-> mode # "off"]

\* compute_elicitation_cache is called, once per case.
StartElicitation ==
    /\ mode # "none" /\ task = Idle
    /\ \E plan \in Plans : task' = TakeUp(1, plan)
    /\ entries' = NoEntry
    /\ done' = IF mode = "refresh" THEN NoEntry ELSE done
    /\ UNCHANGED <<cacheVars, sessions>>

Bidder == Bidders[task.pos]

\* The next prompt of the bidder.
Wanted ==
    CASE task.stage = "answer"  -> AnswerPrompt(Bidder)
      [] task.stage = "extract" -> ExtractionPrompt(Bidder, task.held.text, task.held.attempt)
      [] task.stage = "entail"  -> EntailmentPrompt(Bidder, task.held.text, task.held.attempt,
                                                    Extraction[task.extraction])
      [] task.stage = "map"     -> MapPrompt(Bidder, task.answer)
      [] task.stage = "audit"   -> AuditPrompt(Bidder, task.answer, task.map)
      [] task.stage = "value"   -> ValuePrompt(Bidder, task.answer, task.map, Head(task.chunks))

Calls ==
    /\ Working /\ Begin(Wanted)
    /\ UNCHANGED <<elicitVars, sessions>>

\* Live queries of the auctions, after the elicitation.
Queries ==
    /\ task = Returns
    /\ \E r \in Requests : Begin(r)
    /\ UNCHANGED <<elicitVars, sessions>>

Kind == call.request.kind

LooksUp == Hit /\ UNCHANGED <<elicitVars, sessions>>
Asks ==
    /\ AskProvider(Says(Kind) \cup (Bad \ DOMAIN RawMap))
    /\ UNCHANGED <<elicitVars, sessions>>

-----------------------------------------------------------------------------
\* What the elicitation makes of a bidder once its map or its values are known.

\* The entry of the bidder is complete; the next bidder is taken up, or the
\* elicitation returns.
Completes(t) ==
    LET entry == [answer |-> t.answer, map |-> t.map, values |-> t.values,
                  plan |-> t.plan, kept |-> t.kept]
        all   == [b \in DOMAIN entries \cup {Bidder} |->
                     IF b = Bidder THEN entry ELSE entries[b]]
    IN  /\ entries' = all
        /\ IF t.pos = Len(Bidders)
           THEN task' = Returns /\ done' = all
           ELSE task' = TakeUp(t.pos + 1, t.plan) /\ UNCHANGED done

\* The map is settled: its candidates are cut into chunks.
HasMap(t) ==
    LET chunks == Chunks(CandidateBundles(t.map, Items, MaxCandidates), ChunkSize)
    IN  IF chunks = <<>> THEN Completes(t)
        ELSE /\ task' = [t EXCEPT !.stage = "value", !.chunks = chunks]
             /\ UNCHANGED <<entries, done>>

\* An exception leaves compute_elicitation_cache: no entry of it survives.
Raises == task' = Failed /\ entries' = NoEntry /\ UNCHANGED done

\* The valuation failed: it raises, or the candidates are worth nothing.
Unvalued ==
    IF task.plan.policy = "raise" THEN Raises
    ELSE Completes([task EXCEPT !.kept = FALSE, !.values =
            [b \in ToSet(CandidateBundles(task.map, Items, MaxCandidates)) |-> NoText]])

\* The audit drops every complementary group, whether or not it answered.
Unaudited(answered) == HasMap([task EXCEPT !.map.complements = {}, !.kept = @ /\ answered])

\* A call that raises without a response.
GivesUp ==
    /\ Miss \/ ProviderFails
    /\ CASE Kind = "interest_map_complement_entailment"    -> Unaudited(FALSE)
         [] Kind = "provisional_valuations"                -> Unvalued
         [] Kind \in {"value_query", "demand_query"}       -> UNCHANGED elicitVars
         [] OTHER                                          -> Raises

-----------------------------------------------------------------------------
\* One action per kind of response.

Parsing(kind) == call.stage = "parse" /\ Kind = kind

\* An answer parses: it is held while the verifier reads it.
AnswerParses ==
    /\ Parsing("person_nl_response") /\ call.text \in Good
    /\ task' = [task EXCEPT !.stage = "extract", !.held = call]
    /\ call' = NoCall
    /\ UNCHANGED <<store, mode, lastKey, settled, mishaps, entries, done>>

\* The held answer is turned down: the person is asked again, or it raises.
AnswerTurnedDown(complaint) ==
    /\ TurnDown(task.held, <<task.held.text, complaint>>)
    /\ IF task.held.attempt >= Attempts("person_nl_response") THEN Raises
       ELSE /\ task' = [task EXCEPT !.stage = "answer", !.held = NoCall,
                                    !.extraction = NoText, !.kept = FALSE]
            /\ UNCHANGED <<entries, done>>
    /\ UNCHANGED <<mode, settled, mishaps>>

\* The held answer is taken.
AnswerTaken ==
    /\ settled' = Settled(task.held)
    /\ task' = [task EXCEPT !.stage = "map", !.answer = task.held.text, !.held = NoCall,
                            !.extraction = NoText]
    /\ call' = NoCall
    /\ UNCHANGED <<store, mode, lastKey, mishaps, entries, done>>

\* An answer that does not parse.
AnswerRejected ==
    /\ Parsing("person_nl_response") /\ Reject
    /\ IF call' = NoCall THEN Raises
       ELSE task' = [task EXCEPT !.kept = FALSE] /\ UNCHANGED <<entries, done>>

\* The verifier's reading agrees with the profile, does not, or is malformed; a
\* restrictive mode it claims is checked by a second pass.
Extracted ==
    /\ Parsing("person_answer_semantic_extraction")
    /\ IF call.text \in Bad THEN AnswerTurnedDown("unread")
       ELSE LET extraction == Extraction[call.text]
            IN  IF ~Discloses(extraction, Truth[Bidder], Items) THEN AnswerTurnedDown(call.text)
                ELSE IF Claims(extraction) = {} THEN AnswerTaken
                ELSE /\ task' = [task EXCEPT !.stage = "entail", !.extraction = call.text]
                     /\ call' = NoCall
                     /\ UNCHANGED <<store, mode, lastKey, settled, mishaps, entries, done>>

\* The second pass: without the modes it does not uphold the answer is compared
\* again.
Verified ==
    /\ Parsing("person_answer_substitute_entailment")
    /\ IF call.text \in Bad THEN AnswerTurnedDown("unread")
       ELSE IF Discloses(Upheld(Extraction[task.extraction], UpheldModes[call.text]),
                         Truth[Bidder], Items)
            THEN AnswerTaken
            ELSE AnswerTurnedDown(call.text)

\* The map parses and is consistent; complementary groups are audited.
MapTaken ==
    /\ Parsing("interest_map") /\ Accept
    /\ LET map == NormalMap(ParsedMap(RawMap[call.text], Items), Items)
       IN  IF map.complements = {} THEN HasMap([task EXCEPT !.map = map])
           ELSE /\ task' = [task EXCEPT !.stage = "audit", !.map = map]
                /\ UNCHANGED <<entries, done>>

\* The map does not parse or contradicts itself: after the last attempt it raises,
\* or everything is of interest.
MapRejected ==
    /\ Parsing("interest_map") /\ Reject
    /\ IF call' # NoCall THEN UNCHANGED elicitVars
       ELSE IF task.plan.policy = "raise" THEN Raises
       ELSE HasMap([task EXCEPT !.map = AllItems(Items)])

\* The audit retains some of the groups, none when it cannot be read.
Audited ==
    /\ Parsing("interest_map_complement_entailment")
    /\ IF call.text \in Bad THEN Unaudited(TRUE)
       ELSE HasMap([task EXCEPT !.map.complements = @ \cap Entailed[call.text]])
    /\ call' = NoCall
    /\ UNCHANGED <<store, mode, lastKey, settled, mishaps>>

\* The values of a chunk join those of the chunks before it.
MergedValues(values, bundles, text) ==
    [b \in DOMAIN values \cup ToSet(bundles) |-> IF b \in ToSet(bundles) THEN text ELSE values[b]]

\* A chunk is valued; a retried response cannot be found again.
ChunkValued ==
    /\ Parsing("provisional_valuations") /\ Accept
    /\ LET t == [task EXCEPT !.values = MergedValues(@, Head(task.chunks), call.text),
                             !.chunks = Tail(@),
                             !.kept = @ /\ call.attempt = 1]
       IN  IF t.chunks = <<>> THEN Completes(t)
           ELSE task' = t /\ UNCHANGED <<entries, done>>

\* A chunk's response is rejected, in the end with the whole valuation.
ChunkRejected ==
    /\ Parsing("provisional_valuations") /\ Reject
    /\ IF call' = NoCall THEN Unvalued ELSE UNCHANGED elicitVars

QueryAnswered ==
    /\ call.stage = "parse" /\ Kind \in {"value_query", "demand_query"}
    /\ Accept \/ Reject
    /\ UNCHANGED elicitVars

Next ==
    \/ Starts \/ Ends \/ Dies
    \/ StartElicitation \/ Calls \/ Queries
    \/ LooksUp \/ Asks
    \/ /\ \/ GivesUp \/ AnswerParses \/ AnswerRejected \/ Extracted \/ Verified
          \/ MapTaken \/ MapRejected \/ Audited
          \/ ChunkValued \/ ChunkRejected \/ QueryAnswered
       /\ UNCHANGED sessions

Spec == Init /\ [][Next]_vars

-----------------------------------------------------------------------------

\* The stored readings of answer number attempt take it, or turn it down.
Vouched(b, answer, attempt) ==
    LET text == Replay(ExtractionPrompt(b, answer, attempt))
    IN  /\ text \in Good /\ Discloses(Extraction[text], Truth[b], Items)
        /\ \/ Claims(Extraction[text]) = {}
           \/ LET second == Replay(EntailmentPrompt(b, answer, attempt, Extraction[text]))
              IN  second \in Good /\ Discloses(Upheld(Extraction[text], UpheldModes[second]),
                                                Truth[b], Items)

TurnedDown(b, answer, attempt) ==
    LET text == Replay(ExtractionPrompt(b, answer, attempt))
    IN  \/ text = "rejected"
        \/ text \in Good /\ ~Discloses(Extraction[text], Truth[b], Items)

\* The map a read-only session derives from an answer; NoMap if it cannot.
ReplayedMap(b, answer, policy) ==
    LET text    == Replay(MapPrompt(b, answer))
        map     == NormalMap(ParsedMap(RawMap[text], Items), Items)
        audit   == Replay(AuditPrompt(b, answer, map))
    IN  IF text = NoText THEN NoMap
        ELSE IF text = "rejected" THEN IF policy = "raise" THEN NoMap ELSE AllItems(Items)
        ELSE [map EXCEPT !.complements = @ \cap IF audit \in Good THEN Entailed[audit] ELSE {}]

ChunksOf(map) == ToSet(Chunks(CandidateBundles(map, Items, MaxCandidates), ChunkSize))

\* An elicitation replays: until it is refreshed, a read-only session finds for every
\* bidder the answer with the readings that took it, the same audited map, and the
\* same value for every candidate, whatever later sessions asked, lost or evicted;
\* provided no call of it was given up and no response of it was evicted
\* (examples/run_live_llm_curated_batch.py, compute_elicitation_cache over llm/cache.py).
ElicitationReplays ==
    \A b \in DOMAIN done :
        LET entry == done[b]
        IN  entry.kept =>
            /\ entry.plan.disclosed = NoText =>
                  Replay(AnswerPrompt(b)) = entry.answer /\ Vouched(b, entry.answer, 1)
            /\ ReplayedMap(b, entry.answer, entry.plan.policy) = entry.map
            /\ \A c \in ChunksOf(entry.map) : \A bundle \in ToSet(c) :
                  entry.values[bundle] = Replay(ValuePrompt(b, entry.answer, entry.map, c))

\* What is valued is what the map says, however the map was normalised and audited
\* and the candidates ordered, cut and chunked: every complementary group the map
\* retains has a value, unless the cap is spent on such groups, and no valued bundle
\* holds two members of an exclusive group (llm/interest_map.py).
ComplementsAreValued ==
    \A b \in DOMAIN done :
        LET map == done[b].map
            valued == DOMAIN done[b].values
        IN  /\ \/ map.complements \subseteq valued
               \/ valued \subseteq map.complements /\ Cardinality(valued) = MaxCandidates
            /\ \A bundle \in valued, g \in ChooseOne(map) : ~Shares(bundle, g)

\* A response that an evicting caller rejects does not stay, neither one that does
\* not parse nor a first answer the verifier turned down: only a kill or a failed
\* call between storing and rejecting leaves one behind.
RejectedAreEvicted ==
    LET rejected == {k \in DOMAIN store :
            /\ k[1].kind \in Evicting
            /\ \/ store[k] \in Bad
               \/ /\ k[1].kind = "person_nl_response" /\ k[2] = 1
                  /\ TurnedDown(k[1].bidder, store[k], 1)}
    IN  Cardinality(rejected) <= crashes + failures
            + (IF call.stage = "parse" \/ task.stage \in {"extract", "entail"} THEN 1 ELSE 0)

=============================================================================
