----------------------------- MODULE Concierge ------------------------------
(***************************************************************************)
(* The AI concierge (aiService): every call asks one language model after  *)
(* the other, with retries, behind one circuit breaker, and ends with an   *)
(* answer of its own if neither has one.                                   *)
(*                                                                         *)
(* The breaker is two numbers that all requests load and store atomically, *)
(* but one at a time.  A request to a provider and what comes of it is one *)
(* step, with the first of the loads and stores it leads to.               *)
(***************************************************************************)
EXTENDS Integers

CONSTANTS
    Call,
    MenuKey,        \* cache keys of menu suggestions: time of day, hash of preferences
    Threshold,      \* failures that open the breaker
    Attempts,       \* requests to a provider in a row
    Recovery,       \* how long a failure keeps the breaker open
    None

Provider == {"cerebras", "groq"}

ASSUME ConciergeAssumption ==
    /\ Threshold \in Nat /\ Attempts \in Nat \ {0} /\ Attempts < Threshold
    /\ Recovery \in Nat \ {0}
    /\ MenuKey \cap {"chat", "analysis"} = {}
    /\ None \notin Call \cup {"cache", "fallback"} \cup Provider

VARIABLES
    keys,           \* the providers with an API key
    asks,           \* what each call asks for: an analysis returns JSON, a menu is cached too
    failures,       \* the breaker: failures since the last success
    cool,           \* time until lastFailure is recoveryNanos ago
    cache,          \* the call whose answer an entry holds
    at, leg,        \* where a call is, and at which provider
    tries,          \* its requests to each provider
    source,         \* where its answer is from
    giver,          \* the call to which a provider gave that answer

    \* History variables: no guard reads them.
    refused,        \* the providers the breaker has kept a call from
    seen,           \* what happened while a call asks whether the breaker is open
    hit             \* calls that have recorded a failure

breaker == <<failures, cool>>
mine == <<at, leg, tries>>
answer == <<source, giver>>
history == <<refused, seen, hit>>
vars == <<keys, asks, breaker, cache, mine, answer, history>>

At == {"start", "failures", "last", "request", "stamp", "answer", "save", "done"}

TypeOK ==
    /\ keys \subseteq Provider
    /\ asks \in [Call -> {"chat", "analysis"} \cup MenuKey]
    /\ failures \in Nat /\ cool \in 0..Recovery
    /\ cache \in [MenuKey -> Call \cup {None}]
    /\ at \in [Call -> At] /\ leg \in [Call -> Provider]
    /\ tries \in [Call -> [Provider -> 0..Attempts]]
    /\ source \in [Call -> Provider \cup {"cache", "fallback", None}]
    /\ giver \in [Call -> Call \cup {None}]
    /\ refused \in [Call -> SUBSET Provider]
    /\ seen \in [Call -> SUBSET {"open", "success"}]
    /\ hit \subseteq Call

Init ==
    /\ keys \in SUBSET Provider
    /\ asks \in [Call -> {"chat", "analysis"} \cup MenuKey]
    /\ failures = 0 /\ cool = 0
    /\ cache = [k \in MenuKey |-> None]
    /\ at = [c \in Call |-> "start"] /\ leg = [c \in Call |-> "cerebras"]
    /\ tries = [c \in Call |-> [p \in Provider |-> 0]]
    /\ source = [c \in Call |-> None] /\ giver = [c \in Call |-> None]
    /\ refused = [c \in Call |-> {}] /\ seen = [c \in Call |-> {}] /\ hit = {}

Menu(c) == asks[c] \in MenuKey

-----------------------------------------------------------------------------

Goto(c, from, to) ==
    /\ at[c] = from
    /\ at' = [at EXCEPT ![c] = to]

Return(c, from, s, giving) ==
    /\ Goto(c, from, "done")
    /\ source' = [source EXCEPT ![c] = s]
    /\ giver' = [giver EXCEPT ![c] = giving]

\* What the requests that are asking about the breaker will have seen.
Witness(what) == seen' = [c \in Call |-> IF at[c] = "last" THEN seen[c] \cup what ELSE seen[c]]

IsOpen == failures >= Threshold /\ cool > 0

\* callAI, callGroq: Cerebras comes first if it has a key, and Groq is tried unless
\* neither has one.
Start(c) ==
    /\ IF keys = {}
       THEN Return(c, "start", "fallback", None) /\ UNCHANGED leg
       ELSE /\ Goto(c, "start", "failures") /\ UNCHANGED answer
            /\ leg' = [leg EXCEPT ![c] = IF "cerebras" \in keys THEN "cerebras" ELSE "groq"]
    /\ UNCHANGED <<keys, asks, breaker, cache, tries, history>>

\* MenuSuggestions: an entry answers, unless the cache fails.
ReadCache(c) ==
    /\ Menu(c) /\ cache[asks[c]] # None
    /\ Return(c, "start", "cache", cache[asks[c]])
    /\ UNCHANGED <<keys, asks, breaker, cache, leg, tries, history>>

\* A provider has failed: callAI turns to Groq, or the caller to its own answer.
NextLeg(c, from) ==
    IF leg[c] = "cerebras"
    THEN /\ Goto(c, from, "failures") /\ UNCHANGED answer
         /\ leg' = [leg EXCEPT ![c] = "groq"]
    ELSE Return(c, from, "fallback", None) /\ UNCHANGED leg

-----------------------------------------------------------------------------
(* The breaker.                                                            *)

\* Mutant: the breaker opens one failure early.
LoadFailuresEarly(c) ==
    /\ IF failures < Threshold - 1 THEN Goto(c, "failures", "request") ELSE Goto(c, "failures", "last")
    /\ seen' = [seen EXCEPT ![c] = IF IsOpen THEN {"open"} ELSE {}]
    /\ UNCHANGED <<keys, asks, breaker, cache, leg, tries, answer, refused, hit>>

\* Mutant: the breaker opens as soon as one call has failed with one provider.
LoadFailuresOfOne(c) ==
    /\ IF failures < Attempts THEN Goto(c, "failures", "request") ELSE Goto(c, "failures", "last")
    /\ seen' = [seen EXCEPT ![c] = IF IsOpen THEN {"open"} ELSE {}]
    /\ UNCHANGED <<keys, asks, breaker, cache, leg, tries, answer, refused, hit>>

\* isOpen loads the failures,
LoadFailures(c) ==
    /\ IF failures < Threshold THEN Goto(c, "failures", "request") ELSE Goto(c, "failures", "last")
    /\ seen' = [seen EXCEPT ![c] = IF IsOpen THEN {"open"} ELSE {}]
    /\ UNCHANGED <<keys, asks, breaker, cache, leg, tries, answer, refused, hit>>

\* Mutant: a call waits until the breaker lets it go on.
LoadLastWaits(c) ==
    /\ cool = 0
    /\ Goto(c, "last", "request")
    /\ UNCHANGED <<keys, asks, breaker, cache, leg, tries, answer, history>>

\* and then the time of the last one.
LoadLast(c) ==
    /\ IF cool > 0
       THEN /\ NextLeg(c, "last")
            /\ refused' = [refused EXCEPT ![c] = @ \cup {leg[c]}]
       ELSE Goto(c, "last", "request") /\ UNCHANGED <<leg, answer, refused>>
    /\ UNCHANGED <<keys, asks, breaker, cache, tries, seen, hit>>

-----------------------------------------------------------------------------
(* Requests to a provider.                                                 *)

\* Mutant: the loop runs once more.
RetryOnceMore(c, from) ==
    /\ tries' = [tries EXCEPT ![c][leg[c]] = @ + 1]
    /\ IF tries[c][leg[c]] < Attempts
       THEN Goto(c, from, "request") /\ UNCHANGED <<leg, answer>>
       ELSE NextLeg(c, from)

\* The attempt is over without an answer; the last one ends the loop.
Retry(c, from) ==
    /\ tries' = [tries EXCEPT ![c][leg[c]] = @ + 1]
    /\ IF tries[c][leg[c]] + 1 < Attempts
       THEN Goto(c, from, "request") /\ UNCHANGED <<leg, answer>>
       ELSE NextLeg(c, from)

\* No response, or not status 200: recordFailure counts it,
Fails(c) ==
    /\ Goto(c, "request", "stamp")
    /\ failures' = failures + 1
    /\ hit' = hit \cup {c}
    /\ Witness(IF failures + 1 >= Threshold /\ cool > 0 THEN {"open"} ELSE {})
    /\ UNCHANGED <<keys, asks, cool, cache, leg, tries, answer, refused>>

\* and then notes the time.
Stamp(c) ==
    /\ Retry(c, "stamp")
    /\ cool' = Recovery
    /\ Witness(IF failures >= Threshold THEN {"open"} ELSE {})
    /\ UNCHANGED <<keys, asks, failures, cache, refused, hit>>

\* Status 200 without an answer in it, or the context of the request, which is
\* cancelled before the body is read, took the body away: not recorded.
Shapeless(c) ==
    /\ Retry(c, "request")
    /\ UNCHANGED <<keys, asks, breaker, cache, history>>

\* A provider answers who has a key; recordSuccess closes the breaker.
Succeeds(c) ==
    /\ leg[c] \in keys
    /\ Goto(c, "request", "answer")
    /\ failures' = 0
    /\ Witness({"success"})
    /\ UNCHANGED <<keys, asks, cool, cache, leg, tries, answer, refused, hit>>

\* The server is being shut down while the call waits for its next attempt.
Interrupted(c) ==
    /\ tries[c][leg[c]] > 0
    /\ NextLeg(c, "request")
    /\ UNCHANGED <<keys, asks, breaker, cache, tries, history>>

-----------------------------------------------------------------------------
(* Answers.                                                                *)

Reply(c) ==
    /\ ~Menu(c)
    /\ Return(c, "answer", leg[c], c)
    /\ UNCHANGED <<keys, asks, breaker, cache, leg, tries, history>>

\* Mutant: what cannot be parsed is kept for others, too.
GarbledKept(c) ==
    /\ asks[c] # "chat"
    /\ Return(c, "answer", "fallback", None)
    /\ cache' = IF Menu(c) THEN [cache EXCEPT ![asks[c]] = c] ELSE cache
    /\ UNCHANGED <<keys, asks, breaker, leg, tries, history>>

\* An answer that should be JSON is not.
Garbled(c) ==
    /\ asks[c] # "chat"
    /\ Return(c, "answer", "fallback", None)
    /\ UNCHANGED <<keys, asks, breaker, cache, leg, tries, history>>

Parse(c) ==
    /\ Menu(c)
    /\ Goto(c, "answer", "save")
    /\ UNCHANGED <<keys, asks, breaker, cache, leg, tries, answer, history>>

\* The cache may fail to keep it.
Save(c) ==
    /\ Return(c, "save", leg[c], c)
    /\ cache' \in {cache, [cache EXCEPT ![asks[c]] = c]}
    /\ UNCHANGED <<keys, asks, breaker, leg, tries, history>>

-----------------------------------------------------------------------------

Lapse(k) ==
    /\ cache[k] # None
    /\ cache' = [cache EXCEPT ![k] = None]
    /\ UNCHANGED <<keys, asks, breaker, mine, answer, history>>

Tick ==
    /\ cool > 0
    /\ cool' = cool - 1
    /\ UNCHANGED <<keys, asks, failures, cache, mine, answer, history>>

Idle == (\A c \in Call : at[c] = "done") /\ UNCHANGED vars

Serve(c) ==
    \/ Start(c) \/ ReadCache(c) \/ LoadFailures(c) \/ LoadLast(c)
    \/ Fails(c) \/ Stamp(c) \/ Shapeless(c) \/ Succeeds(c) \/ Interrupted(c)
    \/ Reply(c) \/ Garbled(c) \/ Parse(c) \/ Save(c)

Next == (\E c \in Call : Serve(c)) \/ (\E k \in MenuKey : Lapse(k)) \/ Tick \/ Idle

Spec == Init /\ [][Next]_vars

\* Every request to a provider has a timeout, every wait between two of them an end.
FairSpec == Spec /\ \A c \in Call : WF_vars(Serve(c))

-----------------------------------------------------------------------------
(* Properties.                                                             *)

\* isOpen: a call is kept from a provider only if the breaker was open at some time while
\* the call asked, its two loads notwithstanding, or another call closed it meanwhile.
RefusedWhenOpen == [][\A c \in Call : refused'[c] # refused[c] => seen[c] # {}]_vars

\* newCircuitBreaker(5, ...), three attempts: the failures of a call with one provider
\* never keep it from the other, it takes another call that failed.
NotRefusedAlone == \A c \in Call : refused[c] # {} => hit \ {c} # {}

\* MenuSuggestions: an answer from the cache was given by a provider, to a call with the
\* same key; it is never another answer from the cache, nor the local one.
CachedAnswersAreGiven ==
    \A c \in Call : source[c] = "cache" =>
        /\ giver[c] \in Call /\ source[giver[c]] \in keys
        /\ asks[giver[c]] = asks[c]

\* Neither the failures of a call nor a local answer in the cache keep a call from what the
\* providers have to say.
ProvidersAreHeard == NotRefusedAlone /\ CachedAnswersAreGiven

\* Whatever the providers, the cache and the other calls do, every call has an answer.
EveryCallAnswers == \A c \in Call : <>(source[c] # None)

=============================================================================
