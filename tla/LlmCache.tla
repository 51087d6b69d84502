------------------------------- MODULE LlmCache -------------------------------
(***************************************************************************)
(* The cache of language-model responses (llm/cache.py) under the callers  *)
(* that parse what it returns and retry when they cannot: value and demand *)
(* queries and natural-language answers of llm/person_simulator.py with    *)
(* the two passes that verify an answer, interest maps and their audit in  *)
(* llm/interest_map.py, bulk valuations of llm/provisional_valuations.py.  *)
(*                                                                         *)
(* The store outlives the sessions that use it; each session is one run of *)
(* the live script in one cache mode, and it may be killed at any step.    *)
(* The accounting of hits and tokens is left out.                          *)
(***************************************************************************)
EXTENDS Naturals, Sequences, FiniteSets, Functions

CONSTANTS
    Requests,           \* the calls made one by one: records with a kind
    Good, Bad,          \* responses the caller takes and responses it does not parse
    NoText,
    Modes,              \* the cache modes sessions are run in
    MaxParseRetries,
    MapAttempts,        \* _IM_MAX_ATTEMPTS
    Unwelcome,          \* responses whose number is bounded: at least those in Bad
    MaxMishaps          \* bound on the kills, failed calls and unwelcome responses

Kinds == {"value_query", "demand_query", "person_nl_response",
          "person_answer_semantic_extraction", "person_answer_substitute_entailment",
          "interest_map", "interest_map_complement_entailment",
          "provisional_valuations"}

Texts == Good \cup Bad

ASSUME CacheAssumption ==
    /\ \A r \in Requests : r.kind \in Kinds
    /\ Modes \subseteq {"off", "read-write", "read-only", "refresh"}
    /\ Good \cap Bad = {} /\ NoText \notin Texts /\ "rejected" \notin Texts \cup {NoText}
    /\ MaxParseRetries \in Nat /\ MapAttempts \in Nat \ {0}
    /\ Bad \subseteq Unwelcome /\ MaxMishaps \in Nat

\* Attempts of the retry loop of each caller; the verifier and the audit have none.
Attempts(kind) ==
    CASE kind = "interest_map" -> MapAttempts
      [] kind \in {"value_query", "demand_query", "person_nl_response",
                   "provisional_valuations"} -> MaxParseRetries + 1
      [] OTHER -> 1

\* Callers that quote the malformed response in the prompt of the retry.
Repairing == {"value_query", "person_nl_response", "interest_map"}

\* Mutated: malformed interest maps are evicted too.
EvictingMaps == {"provisional_valuations", "person_nl_response", "interest_map"}

\* Callers that evict a response they reject.
Evicting == {"provisional_valuations", "person_nl_response"}

VARIABLES
    store,      \* the llm_cache table: cache key -> raw response
    mode,       \* the mode of the running session, "none" between sessions
    call,       \* the call in progress
    lastKey,    \* _last_cache_key of the client of each evicting caller
    settled,    \* what the latest finished call answered, with its attempt
    crashes,    \* sessions killed so far
    failures,   \* calls the provider failed so far
    unwelcome   \* unwelcome responses it gave so far

mishaps == <<crashes, failures, unwelcome>>
cacheVars == <<store, mode, call, lastKey, settled, mishaps>>

MayGoWrong == crashes + failures + unwelcome < MaxMishaps

NoKey   == <<>>
NoKeys  == [kind \in Evicting |-> NoKey]
NoCall  == [stage |-> "idle"]
NoQuote == <<>>

\* The cache key: the request, the repair attempt and the prompt, which is told
\* from the original one by what it quotes: a rejected response, and why.
Key(r, attempt, quoted) == <<r, attempt, quoted>>

CacheInit ==
    /\ store = [k \in {} |-> NoText]
    /\ mode = "none"
    /\ call = NoCall
    /\ lastKey = NoKeys
    /\ settled = [r \in {} |-> NoText]
    /\ crashes = 0 /\ failures = 0 /\ unwelcome = 0

\* A run of the script: fresh clients on the same database.
StartSession ==
    /\ mode = "none"
    /\ mode' \in Modes
    /\ UNCHANGED <<store, call, lastKey, settled, mishaps>>

EndSession ==
    /\ mode # "none" /\ call = NoCall
    /\ mode' = "none"
    /\ lastKey' = NoKeys
    /\ UNCHANGED <<store, call, settled, mishaps>>

\* The script is killed; every statement on the database was committed.
Crash ==
    /\ mode # "none" /\ MayGoWrong
    /\ mode' = "none"
    /\ call' = NoCall
    /\ lastKey' = NoKeys
    /\ crashes' = crashes + 1
    /\ UNCHANGED <<store, settled, failures, unwelcome>>

\* A caller starts a call; a refresh gives up what was settled.
Begin(r) ==
    /\ mode # "none" /\ call = NoCall
    /\ call' = [stage |-> "ask", request |-> r, attempt |-> 1, quoted |-> NoQuote]
    /\ settled' = IF mode = "refresh" THEN Restrict(settled, DOMAIN settled \ {r}) ELSE settled
    /\ UNCHANGED <<store, mode, lastKey, mishaps>>

CallKey == Key(call.request, call.attempt, call.quoted)

\* The text reaches the caller.  A client of a session without the cache is not
\* wrapped: it has nothing to evict.
Returned(text) ==
    /\ call' = [stage |-> "parse", request |-> call.request, attempt |-> call.attempt,
                quoted |-> call.quoted, text |-> text]
    /\ lastKey' = IF mode # "off" /\ call.request.kind \in Evicting
                  THEN [lastKey EXCEPT ![call.request.kind] = CallKey] ELSE lastKey

\* get_or_call finds the response in the cache.
Hit ==
    /\ call.stage = "ask"
    /\ mode \in {"read-write", "read-only"} /\ CallKey \in DOMAIN store
    /\ Returned(store[CallKey])
    /\ UNCHANGED <<store, mode, settled, mishaps>>

\* CacheMissError: the call is given up.
Miss ==
    /\ call.stage = "ask"
    /\ mode = "read-only" /\ CallKey \notin DOMAIN store
    /\ call' = NoCall
    /\ UNCHANGED <<store, mode, lastKey, settled, mishaps>>

\* Mutated: read-write does not look the response up.
MustAskAlways == mode # "read-only"

\* get_or_call goes to the provider.
MustAsk ==
    \/ mode \in {"off", "refresh"}
    \/ mode = "read-write" /\ CallKey \notin DOMAIN store

\* The provider answers with one of texts; unless the mode is off the response is
\* stored.
AskProvider(texts) ==
    /\ call.stage = "ask" /\ MustAsk
    /\ \E text \in texts :
          /\ Returned(text)
          /\ store' = IF mode = "off" THEN store
                      ELSE [k \in DOMAIN store \cup {CallKey} |->
                              IF k = CallKey THEN text ELSE store[k]]
          /\ text \in Unwelcome => MayGoWrong
          /\ unwelcome' = IF text \in Unwelcome THEN unwelcome + 1 ELSE unwelcome
    /\ UNCHANGED <<mode, settled, crashes, failures>>

\* The provider raises: the caller logs and raises, nothing is stored.
ProviderFails ==
    /\ call.stage = "ask" /\ MustAsk /\ MayGoWrong
    /\ call' = NoCall
    /\ failures' = failures + 1
    /\ UNCHANGED <<store, mode, lastKey, settled, crashes, unwelcome>>

\* What is settled once call c is taken; nothing is without the cache.
Settled(c) ==
    IF mode = "off" THEN settled
    ELSE [r \in DOMAIN settled \cup {c.request} |->
            IF r = c.request THEN [text |-> c.text, attempt |-> c.attempt] ELSE settled[r]]

\* The response parses.
Accept ==
    /\ call.stage = "parse" /\ call.text \in Good
    /\ settled' = Settled(call)
    /\ call' = NoCall
    /\ UNCHANGED <<store, mode, lastKey, mishaps>>

\* Mutated: rejected responses are kept.
EvictedNever(kind) == store

\* invalidate_last of the caching client, whatever its mode.
Evicted(kind) ==
    IF kind \in Evicting THEN Restrict(store, DOMAIN store \ {lastKey[kind]}) ELSE store

\* The prompt of the next attempt quotes the complaint, or does not.
QuotedNext(kind, complaint) == IF kind \in Repairing THEN complaint ELSE NoQuote

\* The response of call c is turned down: it may be evicted, and the call is
\* retried or given up.
TurnDown(c, complaint) ==
    LET kind == c.request.kind
    IN  /\ store' = Evicted(kind)
        /\ lastKey' = IF kind \in Evicting THEN [lastKey EXCEPT ![kind] = NoKey] ELSE lastKey
        /\ call' = IF c.attempt >= Attempts(kind) THEN NoCall
                   ELSE [stage |-> "ask", request |-> c.request, attempt |-> c.attempt + 1,
                         quoted |-> QuotedNext(kind, complaint)]

\* The response does not parse.
Reject ==
    /\ call.stage = "parse" /\ call.text \in Bad
    /\ TurnDown(call, <<call.text>>)
    /\ UNCHANGED <<mode, settled, mishaps>>

CacheNext ==
    \/ StartSession \/ EndSession \/ Crash
    \/ \E r \in Requests : Begin(r)
    \/ Hit \/ Miss \/ AskProvider(Texts) \/ ProviderFails
    \/ Accept \/ Reject

CacheSpec == CacheInit /\ [][CacheNext]_cacheVars

-----------------------------------------------------------------------------

\* What a prompt of a caller may quote when it meets only malformed responses.
Quotes == {NoQuote} \cup {<<t>> : t \in Bad}

\* What a read-only session makes of request r: the text it takes, NoText when a
\* response is missing, "rejected" when all attempts are malformed.
Replay(r) ==
    LET last == Attempts(r.kind)
        from[n \in 1..last + 1] ==
            [q \in Quotes |->
                IF n > last THEN "rejected"
                ELSE IF Key(r, n, q) \notin DOMAIN store THEN NoText
                ELSE IF store[Key(r, n, q)] \in Good THEN store[Key(r, n, q)]
                ELSE from[n + 1][QuotedNext(r.kind, <<store[Key(r, n, q)]>>)]]
    IN  from[1][NoQuote]

\* Replays are faithful: once a call has answered, and until it is refreshed, a
\* read-only session returns the same answer, through crashes, retries and
\* evictions by this and other requests, if its caller keeps what it rejects or
\* accepted the first response.
AnswersReplay ==
    \A r \in DOMAIN settled :
        r.kind \notin Evicting \/ settled[r].attempt = 1 => Replay(r) = settled[r].text

\* llm/cache.py:4-8: identical responses are replayed, whoever called.
EveryAnswerReplays ==
    \A r \in DOMAIN settled : Replay(r) = settled[r].text
=============================================================================
