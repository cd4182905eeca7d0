--------------------------- MODULE ConciergeProofs --------------------------
(* Theorems about Concierge, for any calls, threshold, attempts and recovery. *)
EXTENDS Concierge, TLAPS

\* Where a call is in its loop: it has attempts left, none of them used before it has asked
\* the breaker, and none with Groq before it has given up Cerebras.
Trying ==
    \A c \in Call :
        /\ at[c] \in {"request", "stamp"} => tries[c][leg[c]] < Attempts
        /\ at[c] \in {"failures", "last"} => tries[c][leg[c]] = 0
        /\ at[c] = "start" => leg[c] = "cerebras" /\ tries[c]["cerebras"] = 0
        /\ at[c] # "done" /\ leg[c] = "cerebras" => tries[c]["groq"] = 0

\* Failures of a call that are in the count, if there are only its own.
Own(c) == tries[c]["cerebras"] + tries[c]["groq"] + (IF at[c] = "stamp" THEN 1 ELSE 0)

\* If only one call has failed, the count is no larger than its attempts.
OwnFailures == \A c \in Call : hit \subseteq {c} => failures <= Own(c)

\* Who finds too many failures is not the only one who failed.
NotAlone == \A c \in Call : at[c] = "last" \/ refused[c] # {} => hit \ {c} # {}

\* While a call is between the two loads and has seen nothing, the breaker is as it was.
StillClosed ==
    \A c \in Call : at[c] = "last" /\ seen[c] = {} => failures >= Threshold /\ cool = 0

\* What the cache has, and what a call has from it, a provider gave.
Given ==
    /\ \A c \in Call : at[c] \in {"answer", "save"} => leg[c] \in keys
    /\ \A c \in Call : at[c] = "save" => asks[c] \in MenuKey
    /\ \A c \in Call : source[c] # None => at[c] = "done"
    /\ \A k \in MenuKey : cache[k] # None =>
          source[cache[k]] \in keys /\ asks[cache[k]] = k
    /\ \A c \in Call : source[c] = "cache" =>
          /\ giver[c] \in Call /\ source[giver[c]] \in keys
          /\ asks[giver[c]] = asks[c]

IInv == TypeOK /\ Trying /\ OwnFailures /\ NotAlone /\ StillClosed /\ Given

LEMMA InitInvariant == Init => IInv
BY ConciergeAssumption
   DEF Init, IInv, TypeOK, Trying, OwnFailures, Own, NotAlone, StillClosed, Given, Provider, At

-----------------------------------------------------------------------------
(* The steps.                                                              *)

\* Steps that only go on to another place, perhaps with an answer.
Moves(c) ==
    Start(c) \/ ReadCache(c) \/ Interrupted(c) \/ Reply(c) \/ Garbled(c) \/ Parse(c) \/ Save(c)

Attempted(c) == Fails(c) \/ Stamp(c) \/ Shapeless(c) \/ Succeeds(c)

Around == (\E k \in MenuKey : Lapse(k)) \/ Tick \/ UNCHANGED vars

LEMMA Steps ==
  ASSUME [Next]_vars
  PROVE  \/ \E c \in Call : Moves(c) \/ LoadFailures(c) \/ LoadLast(c) \/ Attempted(c)
         \/ Around
BY DEF Next, Serve, Moves, Attempted, Around, Idle

\* A step of one call leaves the others where they are.
LEMMA OthersStay ==
  ASSUME TypeOK, NEW c \in Call, Serve(c), NEW d \in Call, d # c
  PROVE  /\ at'[d] = at[d] /\ leg'[d] = leg[d] /\ tries'[d] = tries[d]
         /\ source'[d] = source[d] /\ giver'[d] = giver[d] /\ refused'[d] = refused[d]
BY DEF TypeOK, Serve, Start, ReadCache, LoadFailures, LoadLast, Fails, Stamp, Shapeless, Succeeds,
       Interrupted, Reply, Garbled, Parse, Save, Goto, Return, Retry, NextLeg, mine, answer, history

\* Turning to the next provider.
LEMMA NextLegStep ==
  ASSUME TypeOK, NEW c \in Call, NEW from, NextLeg(c, from)
  PROVE  /\ at[c] = from
         /\ \/ /\ leg[c] = "cerebras" /\ leg'[c] = "groq" /\ at'[c] = "failures"
               /\ source'[c] = source[c] /\ giver'[c] = giver[c]
            \/ /\ leg[c] = "groq" /\ leg'[c] = "groq" /\ at'[c] = "done"
               /\ source'[c] = "fallback" /\ giver'[c] = None
BY DEF TypeOK, NextLeg, Goto, Return, Provider, answer

\* What the step of a call does to its place and its answer.
LEMMA SelfStep ==
  ASSUME TypeOK, NEW c \in Call, Serve(c)
  PROVE  /\ at[c] # "done"
         /\ \/ ReadCache(c)
            \/ /\ at[c] \in {"answer", "save"} /\ at'[c] = "done" /\ source'[c] = leg[c]
            \/ at'[c] = "done" /\ source'[c] = "fallback"
            \/ Parse(c) /\ at'[c] = "save" /\ leg'[c] = leg[c] /\ source'[c] = source[c]
            \/ Succeeds(c) /\ at'[c] = "answer" /\ leg'[c] = leg[c] /\ source'[c] = source[c]
            \/ at'[c] \notin {"answer", "save", "done"} /\ source'[c] = source[c]
<1> USE DEF TypeOK
<1>1. CASE Start(c)
  BY <1>1 DEF Start, Goto, Return, answer
<1>2. CASE ReadCache(c)
  BY <1>2 DEF ReadCache, Goto, Return
<1>3. CASE LoadFailures(c) \/ Fails(c) \/ Succeeds(c) \/ Parse(c)
  BY <1>3 DEF LoadFailures, Fails, Succeeds, Parse, Goto, answer
<1>4. CASE LoadLast(c) \/ Interrupted(c)
  BY <1>4, NextLegStep DEF LoadLast, Interrupted, Goto, answer
<1>5. CASE Stamp(c) \/ Shapeless(c)
  BY <1>5, NextLegStep DEF Stamp, Shapeless, Retry, Goto, answer
<1>6. CASE Reply(c) \/ Garbled(c) \/ Save(c)
  BY <1>6 DEF Reply, Garbled, Save, Goto, Return
<1> QED
  BY <1>1, <1>2, <1>3, <1>4, <1>5, <1>6 DEF Serve

-----------------------------------------------------------------------------
(* The invariant is preserved.                                             *)

LEMMA TypePreserved == IInv /\ [Next]_vars => TypeOK'
<1> SUFFICES ASSUME IInv, [Next]_vars PROVE TypeOK'
  OBVIOUS
<1> USE ConciergeAssumption DEF IInv, TypeOK
<1>1. keys' \subseteq Provider /\ asks' \in [Call -> {"chat", "analysis"} \cup MenuKey]
  BY DEF Next, Serve, vars, breaker, mine, answer, history, Start, ReadCache, LoadFailures, LoadLast,
         Fails, Stamp, Shapeless, Succeeds, Interrupted, Reply, Garbled, Parse, Save, Lapse, Tick, Idle
<1>2. failures' \in Nat /\ cool' \in 0..Recovery
  BY DEF Next, Serve, vars, breaker, mine, answer, history, Start, ReadCache, LoadFailures, LoadLast,
         Fails, Stamp, Shapeless, Succeeds, Interrupted, Reply, Garbled, Parse, Save, Lapse, Tick, Idle
<1>3. cache' \in [MenuKey -> Call \cup {None}]
  BY DEF Next, Serve, vars, breaker, mine, answer, history, Start, ReadCache, LoadFailures, LoadLast,
         Fails, Stamp, Shapeless, Succeeds, Interrupted, Reply, Garbled, Parse, Save, Lapse, Tick, Idle
<1>4. at' \in [Call -> At] /\ leg' \in [Call -> Provider]
  <2>1. ASSUME NEW c \in Call, NEW from, NextLeg(c, from)
        PROVE  at' \in [Call -> At] /\ leg' \in [Call -> Provider]
    BY <2>1 DEF NextLeg, Goto, Return, At, Provider
  <2>2. ASSUME NEW c \in Call, LoadLast(c) \/ Interrupted(c) \/ Stamp(c) \/ Shapeless(c)
        PROVE  at' \in [Call -> At] /\ leg' \in [Call -> Provider]
    BY <2>1, <2>2 DEF LoadLast, Interrupted, Stamp, Shapeless, Retry, Goto, At
  <2>3. ASSUME NEW c \in Call,
               Start(c) \/ ReadCache(c) \/ LoadFailures(c) \/ Fails(c) \/ Succeeds(c) \/ Reply(c)
               \/ Garbled(c) \/ Parse(c) \/ Save(c)
        PROVE  at' \in [Call -> At] /\ leg' \in [Call -> Provider]
    BY <2>3 DEF Start, ReadCache, LoadFailures, Fails, Succeeds, Reply, Garbled, Parse, Save,
                Goto, Return, At, Provider
  <2> QED
    BY <2>2, <2>3 DEF Next, Serve, vars, mine, Lapse, Tick, Idle
<1>5. tries' \in [Call -> [Provider -> 0..Attempts]]
  <2>1. ASSUME NEW c \in Call, NEW from, at[c] \in {"request", "stamp"}, Retry(c, from)
        PROVE  tries' \in [Call -> [Provider -> 0..Attempts]]
    BY <2>1 DEF Retry, Trying
  <2>2. ASSUME NEW c \in Call, Stamp(c) \/ Shapeless(c)
        PROVE  tries' \in [Call -> [Provider -> 0..Attempts]]
    BY <2>1, <2>2 DEF Stamp, Shapeless, Retry, Goto, NextLeg, Return
  <2> QED
    BY <2>2
       DEF Next, Serve, vars, mine, Start, ReadCache, LoadFailures, LoadLast, Fails, Succeeds,
           Interrupted, Reply, Garbled, Parse, Save, Lapse, Tick, Idle
<1>6. /\ source' \in [Call -> Provider \cup {"cache", "fallback", None}]
      /\ giver' \in [Call -> Call \cup {None}]
  <2> DEFINE Typed == /\ source \in [Call -> Provider \cup {"cache", "fallback", None}]
                      /\ giver \in [Call -> Call \cup {None}]
  <2>1. ASSUME NEW c \in Call, NEW from, NextLeg(c, from) PROVE Typed'
    BY <2>1 DEF NextLeg, Return, answer
  <2>2. ASSUME NEW c \in Call, LoadLast(c) \/ Interrupted(c) \/ Stamp(c) \/ Shapeless(c) PROVE Typed'
    BY <2>1, <2>2 DEF LoadLast, Interrupted, Stamp, Shapeless, Retry, answer
  <2>3. ASSUME NEW c \in Call, NEW from, NEW s \in Provider \cup {"cache", "fallback", None},
               NEW g \in Call \cup {None}, Return(c, from, s, g)
        PROVE  Typed'
    BY <2>3 DEF Return
  <2>4. ASSUME NEW c \in Call, Start(c) \/ ReadCache(c) PROVE Typed'
    BY <2>3, <2>4 DEF Start, ReadCache, Menu, answer
  <2>5. ASSUME NEW c \in Call, Reply(c) \/ Garbled(c) \/ Save(c) PROVE Typed'
    BY <2>3, <2>5 DEF Reply, Garbled, Save
  <2> QED
    BY <2>2, <2>4, <2>5
       DEF Next, Serve, vars, answer, LoadFailures, Fails, Succeeds, Parse, Lapse, Tick, Idle
<1>7. refused' \in [Call -> SUBSET Provider] /\ hit' \subseteq Call
  <2>1. ASSUME NEW c \in Call, LoadLast(c) PROVE refused' \in [Call -> SUBSET Provider]
    BY <2>1 DEF LoadLast
  <2> QED
    BY <2>1 DEF Next, Serve, vars, breaker, mine, answer, history, Start, ReadCache, LoadFailures, LoadLast,
         Fails, Stamp, Shapeless, Succeeds, Interrupted, Reply, Garbled, Parse, Save, Lapse, Tick, Idle
<1>8. seen' \in [Call -> SUBSET {"open", "success"}]
  BY DEF Next, Serve, vars, breaker, mine, answer, history, Start, ReadCache, LoadFailures, LoadLast,
         Fails, Stamp, Shapeless, Succeeds, Interrupted, Reply, Garbled, Parse, Save, Lapse, Tick, Idle,
         Witness
<1> QED
  BY <1>1, <1>2, <1>3, <1>4, <1>5, <1>6, <1>7, <1>8

LEMMA TryingPreserved == IInv /\ [Next]_vars => Trying'
<1> SUFFICES ASSUME IInv, [Next]_vars, NEW c \in Call
             PROVE  /\ at'[c] \in {"request", "stamp"} => tries'[c][leg'[c]] < Attempts
                    /\ at'[c] \in {"failures", "last"} => tries'[c][leg'[c]] = 0
                    /\ at'[c] = "start" => leg'[c] = "cerebras" /\ tries'[c]["cerebras"] = 0
                    /\ at'[c] # "done" /\ leg'[c] = "cerebras" => tries'[c]["groq"] = 0
  BY DEF Trying
<1> USE ConciergeAssumption DEF IInv, TypeOK, Trying
<1>1. CASE Around
  BY <1>1 DEF Around, Lapse, Tick, vars, mine
<1>2. ASSUME NEW d \in Call, Serve(d), d # c
      PROVE  at'[c] = at[c] /\ leg'[c] = leg[c] /\ tries'[c] = tries[c]
  BY <1>2, OthersStay
<1>3. CASE Start(c) \/ ReadCache(c) \/ LoadFailures(c) \/ Fails(c) \/ Succeeds(c) \/ Reply(c)
           \/ Garbled(c) \/ Parse(c) \/ Save(c)
  BY <1>3 DEF Start, ReadCache, LoadFailures, Fails, Succeeds, Reply, Garbled, Parse, Save,
              Goto, Return, answer, Provider
<1>4. CASE LoadLast(c) \/ Interrupted(c)
  BY <1>4, NextLegStep DEF LoadLast, Interrupted, Goto, Provider
<1>5. CASE Stamp(c) \/ Shapeless(c)
  <2>1. PICK from \in {"stamp", "request"} : Retry(c, from) /\ at[c] = from
    BY <1>5 DEF Stamp, Shapeless, Retry, NextLeg, Goto, Return
  <2>2. /\ tries'[c][leg[c]] = tries[c][leg[c]] + 1
        /\ \A p \in Provider : p # leg[c] => tries'[c][p] = tries[c][p]
    BY <2>1 DEF Retry
  <2>3. CASE tries[c][leg[c]] + 1 < Attempts
    BY <2>1, <2>2, <2>3 DEF Retry, Goto, Provider
  <2>4. CASE ~(tries[c][leg[c]] + 1 < Attempts)
    BY <2>1, <2>2, <2>4, NextLegStep DEF Retry, Provider
  <2> QED
    BY <2>3, <2>4
<1> QED
  BY <1>1, <1>2, <1>3, <1>4, <1>5 DEF Next, Serve, Around, Idle

LEMMA OwnFailuresPreserved == IInv /\ [Next]_vars => OwnFailures'
<1> SUFFICES ASSUME IInv, [Next]_vars, NEW c \in Call, hit' \subseteq {c} PROVE failures' <= Own(c)'
  BY DEF OwnFailures
<1> USE ConciergeAssumption DEF IInv, TypeOK, Own
<1>1. hit \subseteq hit'
  BY DEF Next, Serve, vars, history, Start, ReadCache, LoadFailures, LoadLast, Fails, Stamp, Shapeless,
         Succeeds, Interrupted, Reply, Garbled, Parse, Save, Lapse, Tick, Idle
<1>2. failures <= Own(c)
  BY <1>1 DEF OwnFailures
<1>3. tries[c]["cerebras"] \in 0..Attempts /\ tries[c]["groq"] \in 0..Attempts
  BY DEF Provider
<1>4. CASE Around
  BY <1>2, <1>4 DEF Around, Lapse, Tick, vars, breaker, mine
<1>5. ASSUME NEW d \in Call, Serve(d), d # c PROVE failures' <= Own(c)'
  <2>1. ~Fails(d)
    BY <1>5 DEF Fails
  <2>2. failures' = failures \/ failures' = 0
    BY <1>5, <2>1
       DEF Serve, breaker, Start, ReadCache, LoadFailures, LoadLast, Stamp, Shapeless,
           Succeeds, Interrupted, Reply, Garbled, Parse, Save
  <2>3. Own(c)' = Own(c)
    BY <1>5, OthersStay
  <2> QED
    BY <1>2, <1>3, <2>2, <2>3
<1>6. CASE Start(c) \/ ReadCache(c) \/ LoadFailures(c) \/ LoadLast(c) \/ Interrupted(c) \/ Reply(c)
           \/ Garbled(c) \/ Parse(c) \/ Save(c)
  <2>1. failures' = failures /\ tries' = tries /\ at[c] # "stamp"
    BY <1>6 DEF Start, ReadCache, LoadFailures, LoadLast, Interrupted, Reply, Garbled, Parse, Save,
                breaker, Goto, Return, NextLeg
  <2> QED
    BY <1>2, <1>3, <2>1
<1>7. CASE Fails(c)
  BY <1>2, <1>3, <1>7 DEF Fails, Goto
<1>8. CASE Succeeds(c)
  BY <1>3, <1>8 DEF Succeeds
<1>9. CASE Stamp(c) \/ Shapeless(c)
  <2>1. failures' = failures /\ at[c] \in {"stamp", "request"} /\ at'[c] # "stamp"
    BY <1>9, NextLegStep DEF Stamp, Shapeless, Retry, Goto, breaker
  <2>2. /\ tries'[c][leg[c]] = tries[c][leg[c]] + 1
        /\ \A p \in Provider : p # leg[c] => tries'[c][p] = tries[c][p]
    BY <1>9 DEF Stamp, Shapeless, Retry
  <2>3. tries'[c]["cerebras"] + tries'[c]["groq"] = tries[c]["cerebras"] + tries[c]["groq"] + 1
    BY <1>3, <2>2 DEF Provider
  <2> QED
    BY <1>2, <1>3, <2>1, <2>3
<1> QED
  BY <1>4, <1>5, <1>6, <1>7, <1>8, <1>9 DEF Next, Serve, Around, Idle

LEMMA NotAlonePreserved == IInv /\ [Next]_vars => NotAlone'
<1> SUFFICES ASSUME IInv, [Next]_vars, NEW c \in Call, at'[c] = "last" \/ refused'[c] # {}
             PROVE  hit' \ {c} # {}
  BY DEF NotAlone
<1> USE ConciergeAssumption DEF IInv, TypeOK
<1>1. hit \subseteq hit'
  BY DEF Next, Serve, vars, history, Start, ReadCache, LoadFailures, LoadLast, Fails, Stamp, Shapeless,
         Succeeds, Interrupted, Reply, Garbled, Parse, Save, Lapse, Tick, Idle
<1>2. CASE at[c] = "last" \/ refused[c] # {}
  BY <1>1, <1>2 DEF NotAlone
<1>3. CASE at[c] # "last" /\ refused[c] = {}
  <2>1. at'[c] = "last" => LoadFailures(c)
    BY <1>3, OthersStay
       DEF Next, Serve, vars, mine, Start, ReadCache, LoadLast, Fails, Stamp, Shapeless, Succeeds,
           Interrupted, Reply, Garbled, Parse, Save, Lapse, Tick, Idle, Goto, Return, Retry, NextLeg
  <2>2. refused'[c] = {}
    BY <1>3, OthersStay
       DEF Next, Serve, vars, history, Start, ReadCache, LoadFailures, LoadLast, Fails, Stamp, Shapeless,
           Succeeds, Interrupted, Reply, Garbled, Parse, Save, Lapse, Tick, Idle, Goto, Return, NextLeg
  <2>3. failures >= Threshold /\ at[c] = "failures"
    BY <2>1, <2>2 DEF LoadFailures, Goto
  <2>4. tries[c]["groq"] = 0 /\ tries[c]["cerebras"] \in 0..Attempts
    BY <2>3 DEF Trying, Provider
  <2>5. ~(hit \subseteq {c})
    BY <2>3, <2>4 DEF OwnFailures, Own
  <2> QED
    BY <1>1, <2>5
<1> QED
  BY <1>2, <1>3

LEMMA StillClosedPreserved == IInv /\ [Next]_vars => StillClosed'
<1> SUFFICES ASSUME IInv, [Next]_vars, NEW c \in Call, at'[c] = "last", seen'[c] = {}
             PROVE  failures' >= Threshold /\ cool' = 0
  BY DEF StillClosed
<1> USE ConciergeAssumption DEF IInv, TypeOK
<1>1. CASE LoadFailures(c)
  BY <1>1 DEF LoadFailures, Goto, IsOpen, breaker
<1>2. CASE ~LoadFailures(c)
  <2>1. at[c] = "last"
    BY <1>2, OthersStay
       DEF Next, Serve, vars, mine, Start, ReadCache, LoadLast, Fails, Stamp, Shapeless, Succeeds,
           Interrupted, Reply, Garbled, Parse, Save, Lapse, Tick, Idle, Goto, Return, Retry, NextLeg
  <2>2. seen[c] = {}
    BY <1>2, <2>1
       DEF Next, Serve, vars, history, Start, ReadCache, LoadFailures, LoadLast, Fails, Stamp, Shapeless,
           Succeeds, Interrupted, Reply, Garbled, Parse, Save, Lapse, Tick, Idle, Witness
  <2>3. failures >= Threshold /\ cool = 0
    BY <2>1, <2>2 DEF StillClosed
  <2>4. ASSUME NEW d \in Call, Fails(d) PROVE failures' >= Threshold /\ cool' = 0
    BY <2>3, <2>4 DEF Fails
  <2>5. ASSUME NEW d \in Call, Stamp(d) PROVE FALSE
    BY <2>1, <2>3, <2>5 DEF Stamp, Witness
  <2>6. ASSUME NEW d \in Call, Succeeds(d) PROVE FALSE
    BY <2>1, <2>6 DEF Succeeds, Witness
  <2> QED
    BY <2>3, <2>4, <2>5, <2>6
       DEF Next, Serve, vars, breaker, Start, ReadCache, LoadFailures, LoadLast, Shapeless, Interrupted,
           Reply, Garbled, Parse, Save, Lapse, Tick, Idle
<1> QED
  BY <1>1, <1>2

LEMMA GivenPreserved == IInv /\ [Next]_vars => Given'
<1> SUFFICES ASSUME IInv, [Next]_vars PROVE Given'
  OBVIOUS
<1> USE ConciergeAssumption DEF IInv, TypeOK
<1>1. keys' = keys /\ asks' = asks
  BY DEF Next, Serve, vars, Start, ReadCache, LoadFailures, LoadLast, Fails, Stamp, Shapeless, Succeeds,
         Interrupted, Reply, Garbled, Parse, Save, Lapse, Tick, Idle
<1> DEFINE Same(c) == at'[c] = at[c] /\ leg'[c] = leg[c] /\ source'[c] = source[c] /\ giver'[c] = giver[c]
<1>a. ASSUME NEW c \in Call, ~Serve(c) PROVE Same(c)
  BY <1>a, OthersStay DEF Next, Lapse, Tick, Idle, vars, mine, answer
<1>2. ASSUME NEW c \in Call, source[c] # None
      PROVE  source'[c] = source[c] /\ giver'[c] = giver[c] /\ at'[c] = "done"
  BY <1>a, <1>2, SelfStep DEF Given
<1>3. ASSUME NEW c \in Call, source'[c] # None, source[c] = None
      PROVE  at'[c] = "done" /\ (ReadCache(c) \/ source'[c] \in {"fallback", leg[c]})
  <2>1. Serve(c)
    BY <1>a, <1>3
  <2>2. ReadCache(c) => at'[c] = "done"
    BY DEF ReadCache, Return, Goto
  <2> QED
    BY <1>3, <2>1, <2>2, SelfStep
<1>4. ASSUME NEW c \in Call, at'[c] \in {"answer", "save"} PROVE leg'[c] \in keys
  <2>1. ~ReadCache(c)
    BY <1>4 DEF ReadCache, Return, Goto
  <2>2. Succeeds(c) => leg[c] \in keys
    BY DEF Succeeds
  <2>3. Parse(c) => at[c] = "answer"
    BY DEF Parse, Goto
  <2> QED
    BY <1>a, <1>4, <2>1, <2>2, <2>3, SelfStep DEF Given
<1>5. ASSUME NEW c \in Call, at'[c] = "save" PROVE asks[c] \in MenuKey
  <2>1. ~ReadCache(c)
    BY <1>5 DEF ReadCache, Return, Goto
  <2>2. Parse(c) => asks[c] \in MenuKey
    BY DEF Parse, Menu
  <2> QED
    BY <1>a, <1>5, <2>1, <2>2, SelfStep DEF Given
<1>6. ASSUME NEW k \in MenuKey, cache'[k] # None
      PROVE  source'[cache'[k]] \in keys /\ asks[cache'[k]] = k
  <2>1. CASE cache'[k] = cache[k]
    <3>1. cache[k] \in Call /\ source[cache[k]] \in keys /\ asks[cache[k]] = k
      BY <1>6, <2>1 DEF Given
    <3>2. source[cache[k]] # None
      BY <3>1
    <3> QED
      BY <1>2, <2>1, <3>1, <3>2
  <2>2. ASSUME NEW c \in Call, Save(c), cache'[k] # cache[k]
        PROVE  source'[cache'[k]] \in keys /\ asks[cache'[k]] = k
    <3>1. cache'[k] = c /\ asks[c] = k /\ source'[c] = leg[c] /\ at[c] = "save"
      BY <2>2 DEF Save, Return, Goto
    <3> QED
      BY <3>1 DEF Given
  <2> QED
    BY <1>6, <2>1, <2>2
       DEF Next, Serve, Start, ReadCache, LoadFailures, LoadLast, Fails, Stamp, Shapeless, Succeeds,
           Interrupted, Reply, Garbled, Parse, Lapse, Tick, Idle, vars
<1>7. ASSUME NEW c \in Call, source'[c] = "cache"
      PROVE  /\ giver'[c] \in Call /\ source'[giver'[c]] \in keys
             /\ asks[giver'[c]] = asks[c]
  <2>1. CASE source[c] # None
    <3>1. source[c] = "cache" /\ giver'[c] = giver[c]
      BY <1>2, <1>7, <2>1
    <3>2. giver[c] \in Call /\ source[giver[c]] \in keys /\ asks[giver[c]] = asks[c]
      BY <3>1 DEF Given
    <3>3. source[giver[c]] # None
      BY <3>2
    <3> QED
      BY <1>2, <3>1, <3>2, <3>3
  <2>2. CASE source[c] = None
    <3>1. ReadCache(c)
      BY <1>3, <1>7, <2>2 DEF Provider
    <3>2. giver'[c] = cache[asks[c]] /\ cache[asks[c]] # None /\ asks[c] \in MenuKey
      BY <3>1 DEF ReadCache, Return, Menu
    <3>3. source[giver'[c]] \in keys /\ asks[giver'[c]] = asks[c] /\ giver'[c] \in Call
      BY <3>2 DEF Given
    <3> QED
      BY <1>2, <3>3 DEF Provider
  <2> QED
    BY <2>1, <2>2
<1> QED
  BY <1>1, <1>2, <1>3, <1>4, <1>5, <1>6, <1>7 DEF Given

-----------------------------------------------------------------------------
(* The theorems.                                                           *)

\* Calls, breaker and cache stay related as the lemmas say.
THEOREM Invariant == Spec => []IInv
<1>1. IInv /\ [Next]_vars => IInv'
  BY TypePreserved, TryingPreserved, OwnFailuresPreserved, NotAlonePreserved, StillClosedPreserved,
     GivenPreserved DEF IInv
<1> QED
  BY InitInvariant, <1>1, PTL DEF Spec

\* Calls, breaker and cache keep their types, and no provider is asked too often.
THEOREM TypeCorrect == Spec => []TypeOK
BY Invariant, PTL DEF IInv

\* isOpen: it takes another call's failure for the breaker to refuse a call.
THEOREM NobodyRefusesHimself == Spec => []NotRefusedAlone
<1>1. IInv => NotRefusedAlone
  BY DEF IInv, NotAlone, NotRefusedAlone
<1> QED
  BY <1>1, Invariant, PTL

\* isOpen: its two loads refuse a call only if the breaker was open, or has just been closed.
THEOREM RefusalsAreEarned == Spec => RefusedWhenOpen
<1>1. IInv /\ [Next]_vars => [\A c \in Call : refused'[c] # refused[c] => seen[c] # {}]_vars
  <2> SUFFICES ASSUME IInv, [Next]_vars, NEW c \in Call, refused'[c] # refused[c] PROVE seen[c] # {}
    OBVIOUS
  <2>1. LoadLast(c) /\ cool > 0
    BY OthersStay
       DEF IInv, TypeOK, Next, Serve, Start, ReadCache, LoadFailures, LoadLast, Fails, Stamp, Shapeless,
           Succeeds, Interrupted, Reply, Garbled, Parse, Save, Lapse, Tick, Idle, vars, history
  <2>2. at[c] = "last"
    BY <2>1 DEF LoadLast, NextLeg, Goto, Return
  <2> QED
    BY <2>1, <2>2 DEF IInv, StillClosed
<1> QED
  BY <1>1, Invariant, PTL DEF Spec, RefusedWhenOpen

\* MenuSuggestions: what the cache answers, a provider gave to a call with the same key.
THEOREM CacheIsHonest == Spec => []CachedAnswersAreGiven
<1>1. IInv => CachedAnswersAreGiven
  BY DEF IInv, Given, CachedAnswersAreGiven
<1> QED
  BY <1>1, Invariant, PTL

\* Neither a call's own failures nor a local answer in the cache keep it from the providers.
THEOREM ProvidersHeard == Spec => []ProvidersAreHeard
BY NobodyRefusesHimself, CacheIsHonest, PTL DEF ProvidersAreHeard

=============================================================================
