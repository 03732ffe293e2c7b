------------------------- MODULE CompileFlight_proofs -------------------------
(***************************************************************************)
(* Proofs about CompileFlight, for any callers, keys, pool of calls and    *)
(* capacity.  FlightInv is the inductive invariant: besides the properties *)
(* themselves it says to which key a call belongs, who leads it, and that  *)
(* a call nothing points to is blank.                                      *)
(***************************************************************************)
EXTENDS CompileFlight, LruCache_proofs

Holding(c) == pc[c] \notin {"idle", "join"}

\* Past the first Get a caller has a key, and a call exactly while it holds one.
CallersHoldCalls ==
  \A c \in Callers :
    /\ pc[c] # "idle" => key[c] \in Keys
    /\ call[c] # NoCall <=> Holding(c)

\* A leader's call is the registered one of its key, and nobody else leads it.
LeadersAreRegistered ==
  \A c \in Callers : pc[c] \in Leading =>
    /\ flights[key[c]] = call[c]
    /\ \A d \in Callers : pc[d] \in Leading /\ key[d] = key[c] => d = c

\* Whoever points to a call asks for the same key.
OneKeyPerCall ==
  /\ \A j, k \in Keys : flights[j] = flights[k] /\ flights[j] # NoCall => j = k
  /\ \A c \in Callers, k \in Keys : flights[k] = call[c] /\ Holding(c) => k = key[c]
  /\ \A c, d \in Callers : call[c] = call[d] /\ Holding(c) => key[c] = key[d]

\* A published outcome is what the key of the call compiles to.
OutcomesAreOwn ==
  /\ \A k \in Keys : flights[k] # NoCall => outcome[flights[k]] \in {Compiled[k], Nothing}
  /\ \A c \in Callers : Holding(c) => outcome[call[c]] \in {Compiled[key[c]], Nothing}

\* A call nothing points to is blank, as a new one is.
FreeCallsAreBlank == \A x \in Calls \ Live(flights, call) : outcome[x] = Nothing

\* At the end of Do the leader has its answer in hand and then in the call.
LeadersHaveTheAnswer ==
  \A c \in Callers :
    /\ pc[c] \in {"publish", "forget"} => result[c] = Compiled[key[c]]
    /\ pc[c] = "forget" => outcome[call[c]] = Compiled[key[c]]

\* The closure's second Get has found nothing, and nobody has stored it since.
CompilesUncached == \A c \in Callers : pc[c] = "compile" => key[c] \notin Resident

\* A registered call is published, or has a leader, or its leader panicked.
FlightsHaveALeader ==
  \A k \in Keys : flights[k] # NoCall =>
    \/ outcome[flights[k]] = Compiled[k]
    \/ \E d \in Callers : pc[d] \in Leading /\ call[d] = flights[k] /\ key[d] = k
    \/ flights[k] \in panicked

FlightInv ==
  /\ TypeOK /\ ListMatchesMap
  /\ CachesOnlyOwnPrograms /\ AnswersOwnKey
  /\ CallersHoldCalls /\ LeadersAreRegistered /\ OneKeyPerCall
  /\ OutcomesAreOwn /\ FreeCallsAreBlank
  /\ LeadersHaveTheAnswer /\ CompilesUncached
  /\ FlightsHaveALeader /\ WaitersHaveALeader

-----------------------------------------------------------------------------
\* A hit answers with the program cached for the key.
LEMMA AskHitKeepsInv ==
  ASSUME FlightInv, NEW c \in Callers, NEW k \in Keys, AskHit(c, k)
  PROVE  FlightInv'
<1> USE FlightAssumption DEF Outcomes, Leading, Steps, Holding, Goto, callerVars, flightVars
<1>1. CacheInv
  BY DEF FlightInv, TypeOK, CacheInv
<1>2. CacheInv' /\ entries' = entries /\ Resident' = Resident
  BY <1>1, HitKeepsInv, HitChangesNoEntry DEF AskHit, FlightInv
<1>3. result'[c] = Compiled[k] /\ Compiled[k] \in Values
  BY DEF AskHit, Hit, FlightInv, TypeOK, CachesOnlyOwnPrograms
<1>4. TypeOK' /\ ListMatchesMap'
  BY <1>2, <1>3 DEF FlightInv, TypeOK, CacheInv, AskHit
<1>5. CachesOnlyOwnPrograms'
  BY <1>2 DEF FlightInv, CachesOnlyOwnPrograms
<1>6. AnswersOwnKey'
  BY <1>3 DEF FlightInv, TypeOK, AskHit, AnswersOwnKey
<1>7. CallersHoldCalls'
  BY DEF FlightInv, AskHit, CallersHoldCalls
<1>8. LeadersAreRegistered'
  BY DEF FlightInv, AskHit, LeadersAreRegistered
<1>9. OneKeyPerCall'
  BY DEF FlightInv, AskHit, OneKeyPerCall, CallersHoldCalls
<1>10. OutcomesAreOwn'
  BY DEF FlightInv, AskHit, OutcomesAreOwn
<1>11. FreeCallsAreBlank'
  BY DEF FlightInv, AskHit, FreeCallsAreBlank
<1>12. LeadersHaveTheAnswer'
  BY DEF FlightInv, AskHit, LeadersHaveTheAnswer
<1>13. CompilesUncached'
  BY <1>2 DEF FlightInv, AskHit, CompilesUncached
<1>14. FlightsHaveALeader'
  BY DEF FlightInv, AskHit, FlightsHaveALeader
<1>15. WaitersHaveALeader'
  BY DEF FlightInv, AskHit, WaitersHaveALeader
<1> QED BY <1>4, <1>5, <1>6, <1>7, <1>8, <1>9, <1>10, <1>11, <1>12, <1>13, <1>14,
   <1>15 DEF FlightInv

\* A miss takes the caller to the table.
LEMMA AskMissKeepsInv ==
  ASSUME FlightInv, NEW c \in Callers, NEW k \in Keys, AskMiss(c, k)
  PROVE  FlightInv'
<1> USE FlightAssumption DEF Outcomes, Leading, Steps, Holding, Goto, callerVars, flightVars
<1>1. CacheInv
  BY DEF FlightInv, TypeOK, CacheInv
<1>2. CacheInv' /\ entries' = entries /\ Resident' = Resident
  BY <1>1, UnchangedKeepsInv DEF AskMiss, Miss, cacheVars, Resident
<1>3. TypeOK' /\ ListMatchesMap'
  BY <1>2 DEF FlightInv, TypeOK, CacheInv, AskMiss
<1>4. CachesOnlyOwnPrograms'
  BY <1>2 DEF FlightInv, CachesOnlyOwnPrograms
<1>5. AnswersOwnKey'
  BY DEF FlightInv, TypeOK, AskMiss, AnswersOwnKey
<1>6. CallersHoldCalls'
  BY DEF FlightInv, TypeOK, AskMiss, CallersHoldCalls
<1>7. LeadersAreRegistered'
  BY DEF FlightInv, AskMiss, LeadersAreRegistered
<1>8. OneKeyPerCall'
  BY DEF FlightInv, AskMiss, OneKeyPerCall, CallersHoldCalls
<1>9. OutcomesAreOwn'
  BY DEF FlightInv, AskMiss, OutcomesAreOwn
<1>10. FreeCallsAreBlank'
  BY DEF FlightInv, AskMiss, FreeCallsAreBlank
<1>11. LeadersHaveTheAnswer'
  BY DEF FlightInv, AskMiss, LeadersHaveTheAnswer
<1>12. CompilesUncached'
  BY <1>2 DEF FlightInv, AskMiss, CompilesUncached
<1>13. FlightsHaveALeader'
  BY DEF FlightInv, AskMiss, FlightsHaveALeader
<1>14. WaitersHaveALeader'
  BY DEF FlightInv, AskMiss, WaitersHaveALeader
<1> QED BY <1>3, <1>4, <1>5, <1>6, <1>7, <1>8, <1>9, <1>10, <1>11, <1>12, <1>13,
   <1>14 DEF FlightInv

\* A caller that finds a registered call waits for it.
LEMMA JoinKeepsInv ==
  ASSUME FlightInv, NEW c \in Callers, Join(c)
  PROVE  FlightInv'
<1> USE FlightAssumption DEF Outcomes, Leading, Steps, Holding, Goto, callerVars, flightVars
<1>1. CacheInv
  BY DEF FlightInv, TypeOK, CacheInv
<1>2. CacheInv' /\ entries' = entries /\ Resident' = Resident
  BY <1>1, UnchangedKeepsInv DEF Join, cacheVars, Resident
<1>3. TypeOK' /\ ListMatchesMap'
  BY <1>2 DEF FlightInv, TypeOK, CacheInv, Join, CallersHoldCalls
<1>4. CachesOnlyOwnPrograms'
  BY <1>2 DEF FlightInv, CachesOnlyOwnPrograms
<1>5. AnswersOwnKey'
  BY DEF FlightInv, Join, AnswersOwnKey
<1>6. CallersHoldCalls'
  BY DEF FlightInv, TypeOK, Join, CallersHoldCalls
<1>7. LeadersAreRegistered'
  BY DEF FlightInv, Join, LeadersAreRegistered
<1>8. OneKeyPerCall'
  BY DEF FlightInv, TypeOK, Join, OneKeyPerCall, CallersHoldCalls
<1>9. OutcomesAreOwn'
  BY DEF FlightInv, TypeOK, Join, OutcomesAreOwn, CallersHoldCalls
<1>10. FreeCallsAreBlank'
  BY DEF FlightInv, Join, FreeCallsAreBlank, CallersHoldCalls, Live
<1>11. LeadersHaveTheAnswer'
  BY DEF FlightInv, Join, LeadersHaveTheAnswer
<1>12. CompilesUncached'
  BY <1>2 DEF FlightInv, Join, CompilesUncached
<1>13. FlightsHaveALeader'
  BY DEF FlightInv, Join, FlightsHaveALeader
<1>14. WaitersHaveALeader'
  BY DEF FlightInv, TypeOK, Join, WaitersHaveALeader, CallersHoldCalls, FlightsHaveALeader
<1> QED BY <1>3, <1>4, <1>5, <1>6, <1>7, <1>8, <1>9, <1>10, <1>11, <1>12, <1>13,
   <1>14 DEF FlightInv

\* A new call is a blank one, and its key had no leader.
LEMMA LeadKeepsInv ==
  ASSUME FlightInv, NEW c \in Callers, Lead(c)
  PROVE  FlightInv'
<1> USE FlightAssumption DEF Outcomes, Leading, Steps, Holding, Goto, callerVars, flightVars
<1>1. CacheInv
  BY DEF FlightInv, TypeOK, CacheInv
<1>2. CacheInv' /\ entries' = entries /\ Resident' = Resident
  BY <1>1, UnchangedKeepsInv DEF Lead, cacheVars, Resident
<1>3. /\ Fresh \in Calls /\ outcome[Fresh] = Nothing
      /\ \A k \in Keys : flights[k] # Fresh
      /\ \A d \in Callers : call[d] # Fresh
  BY DEF Lead, FlightInv, FreeCallsAreBlank, Fresh, Live
<1>4. TypeOK' /\ ListMatchesMap'
  BY <1>2, <1>3 DEF FlightInv, TypeOK, CacheInv, Lead
<1>5. CachesOnlyOwnPrograms'
  BY <1>2 DEF FlightInv, CachesOnlyOwnPrograms
<1>6. AnswersOwnKey'
  BY DEF FlightInv, Lead, AnswersOwnKey
<1>7. CallersHoldCalls'
  BY <1>3 DEF FlightInv, TypeOK, Lead, CallersHoldCalls
<1>8. LeadersAreRegistered'
  BY DEF FlightInv, TypeOK, Lead, LeadersAreRegistered, CallersHoldCalls
<1>9. OneKeyPerCall'
  BY <1>3 DEF FlightInv, TypeOK, Lead, OneKeyPerCall
<1>10. OutcomesAreOwn'
  BY <1>3 DEF FlightInv, TypeOK, Lead, OutcomesAreOwn
<1>11. FreeCallsAreBlank'
  BY DEF FlightInv, Lead, FreeCallsAreBlank, CallersHoldCalls, Live
<1>12. LeadersHaveTheAnswer'
  BY DEF FlightInv, Lead, LeadersHaveTheAnswer
<1>13. CompilesUncached'
  BY <1>2 DEF FlightInv, Lead, CompilesUncached
<1>14. FlightsHaveALeader'
  BY DEF FlightInv, TypeOK, Lead, FlightsHaveALeader
<1>15. WaitersHaveALeader'
  BY DEF FlightInv, Lead, WaitersHaveALeader
<1> QED BY <1>4, <1>5, <1>6, <1>7, <1>8, <1>9, <1>10, <1>11, <1>12, <1>13, <1>14,
   <1>15 DEF FlightInv

\* The second Get answers the leader.
LEMMA RecheckHitKeepsInv ==
  ASSUME FlightInv, NEW c \in Callers, RecheckHit(c)
  PROVE  FlightInv'
<1> USE FlightAssumption DEF Outcomes, Leading, Steps, Holding, Goto, callerVars, flightVars
<1>1. CacheInv
  BY DEF FlightInv, TypeOK, CacheInv
<1>2. CacheInv' /\ entries' = entries /\ Resident' = Resident
  BY <1>1, HitKeepsInv, HitChangesNoEntry DEF RecheckHit, FlightInv, CallersHoldCalls
<1>3. result'[c] = Compiled[key[c]] /\ Compiled[key[c]] \in Values
  BY DEF RecheckHit, Hit, FlightInv, TypeOK, CachesOnlyOwnPrograms, Resident
<1>4. TypeOK' /\ ListMatchesMap'
  BY <1>2, <1>3 DEF FlightInv, TypeOK, CacheInv, RecheckHit
<1>5. CachesOnlyOwnPrograms'
  BY <1>2 DEF FlightInv, CachesOnlyOwnPrograms
<1>6. AnswersOwnKey'
  BY DEF FlightInv, RecheckHit, AnswersOwnKey
<1>7. CallersHoldCalls'
  BY DEF FlightInv, RecheckHit, CallersHoldCalls
<1>8. LeadersAreRegistered'
  BY DEF FlightInv, RecheckHit, LeadersAreRegistered
<1>9. OneKeyPerCall'
  BY DEF FlightInv, RecheckHit, OneKeyPerCall
<1>10. OutcomesAreOwn'
  BY DEF FlightInv, RecheckHit, OutcomesAreOwn
<1>11. FreeCallsAreBlank'
  BY DEF FlightInv, RecheckHit, FreeCallsAreBlank
<1>12. LeadersHaveTheAnswer'
  BY <1>3 DEF FlightInv, RecheckHit, LeadersHaveTheAnswer
<1>13. CompilesUncached'
  BY <1>2 DEF FlightInv, RecheckHit, CompilesUncached
<1>14. FlightsHaveALeader'
  BY DEF FlightInv, RecheckHit, FlightsHaveALeader
<1>15. WaitersHaveALeader'
  BY DEF FlightInv, RecheckHit, WaitersHaveALeader
<1> QED BY <1>4, <1>5, <1>6, <1>7, <1>8, <1>9, <1>10, <1>11, <1>12, <1>13, <1>14,
   <1>15 DEF FlightInv

\* The leader compiles what it has found absent.
LEMMA RecheckMissKeepsInv ==
  ASSUME FlightInv, NEW c \in Callers, RecheckMiss(c)
  PROVE  FlightInv'
<1> USE FlightAssumption DEF Outcomes, Leading, Steps, Holding, Goto, callerVars, flightVars
<1>1. CacheInv
  BY DEF FlightInv, TypeOK, CacheInv
<1>2. CacheInv' /\ entries' = entries /\ Resident' = Resident
  BY <1>1, UnchangedKeepsInv DEF RecheckMiss, Miss, cacheVars, Resident
<1>3. key[c] \notin Resident
  BY <1>1, MissMeansAbsent DEF RecheckMiss, FlightInv, CallersHoldCalls
<1>4. TypeOK' /\ ListMatchesMap'
  BY <1>2 DEF FlightInv, TypeOK, CacheInv, RecheckMiss
<1>5. CachesOnlyOwnPrograms'
  BY <1>2 DEF FlightInv, CachesOnlyOwnPrograms
<1>6. AnswersOwnKey'
  BY DEF FlightInv, RecheckMiss, AnswersOwnKey
<1>7. CallersHoldCalls'
  BY DEF FlightInv, RecheckMiss, CallersHoldCalls
<1>8. LeadersAreRegistered'
  BY DEF FlightInv, RecheckMiss, LeadersAreRegistered
<1>9. OneKeyPerCall'
  BY DEF FlightInv, RecheckMiss, OneKeyPerCall
<1>10. OutcomesAreOwn'
  BY DEF FlightInv, RecheckMiss, OutcomesAreOwn
<1>11. FreeCallsAreBlank'
  BY DEF FlightInv, RecheckMiss, FreeCallsAreBlank
<1>12. LeadersHaveTheAnswer'
  BY DEF FlightInv, RecheckMiss, LeadersHaveTheAnswer
<1>13. CompilesUncached'
  BY <1>2, <1>3 DEF FlightInv, RecheckMiss, CompilesUncached
<1>14. FlightsHaveALeader'
  BY DEF FlightInv, RecheckMiss, FlightsHaveALeader
<1>15. WaitersHaveALeader'
  BY DEF FlightInv, RecheckMiss, WaitersHaveALeader
<1> QED BY <1>4, <1>5, <1>6, <1>7, <1>8, <1>9, <1>10, <1>11, <1>12, <1>13, <1>14,
   <1>15 DEF FlightInv

\* Only the leader's own key is stored: no other compilation becomes redundant.
LEMMA CompileSucceedsKeepsInv ==
  ASSUME FlightInv, NEW c \in Callers, CompileSucceeds(c)
  PROVE  FlightInv'
<1> USE FlightAssumption DEF Outcomes, Leading, Steps, Holding, Goto, callerVars, flightVars
<1>1. CacheInv
  BY DEF FlightInv, TypeOK, CacheInv
<1>2. key[c] \in Keys /\ Compiled[key[c]] \in Values /\ Put(key[c], Compiled[key[c]])
  BY DEF CompileSucceeds, FlightInv, CallersHoldCalls
<1>3. CacheInv'
  BY <1>1, <1>2, PutKeepsInv
<1>4. \A q \in Resident' : \/ q = key[c] /\ entries'[q] = Compiled[key[c]]
                           \/ q \in Resident /\ entries'[q] = entries[q]
  BY <1>1, <1>2, PutStoresOwnKey
<1>5. TypeOK' /\ ListMatchesMap'
  BY <1>3 DEF FlightInv, TypeOK, CacheInv, CompileSucceeds, CallersHoldCalls
<1>6. CachesOnlyOwnPrograms'
  BY <1>4 DEF FlightInv, CompileSucceeds, CachesOnlyOwnPrograms
<1>7. AnswersOwnKey'
  BY DEF FlightInv, CompileSucceeds, AnswersOwnKey
<1>8. CallersHoldCalls'
  BY DEF FlightInv, CompileSucceeds, CallersHoldCalls
<1>9. LeadersAreRegistered'
  BY DEF FlightInv, CompileSucceeds, LeadersAreRegistered
<1>10. OneKeyPerCall'
  BY DEF FlightInv, CompileSucceeds, OneKeyPerCall
<1>11. OutcomesAreOwn'
  BY DEF FlightInv, CompileSucceeds, OutcomesAreOwn
<1>12. FreeCallsAreBlank'
  BY DEF FlightInv, CompileSucceeds, FreeCallsAreBlank
<1>13. LeadersHaveTheAnswer'
  BY DEF FlightInv, TypeOK, CompileSucceeds, LeadersHaveTheAnswer
<1>14. CompilesUncached'
  BY <1>4 DEF FlightInv, TypeOK, CompileSucceeds, CompilesUncached, LeadersAreRegistered
<1>15. FlightsHaveALeader'
  BY DEF FlightInv, CompileSucceeds, FlightsHaveALeader
<1>16. WaitersHaveALeader'
  BY DEF FlightInv, CompileSucceeds, WaitersHaveALeader
<1> QED BY <1>5, <1>6, <1>7, <1>8, <1>9, <1>10, <1>11, <1>12, <1>13, <1>14, <1>15,
   <1>16 DEF FlightInv

\* A failed compilation stores nothing.
LEMMA CompileFailsKeepsInv ==
  ASSUME FlightInv, NEW c \in Callers, CompileFails(c)
  PROVE  FlightInv'
<1> USE FlightAssumption DEF Outcomes, Leading, Steps, Holding, Goto, callerVars, flightVars
<1>1. CacheInv
  BY DEF FlightInv, TypeOK, CacheInv
<1>2. CacheInv' /\ entries' = entries /\ Resident' = Resident
  BY <1>1, UnchangedKeepsInv DEF CompileFails, cacheVars, Resident
<1>3. TypeOK' /\ ListMatchesMap'
  BY <1>2 DEF FlightInv, TypeOK, CacheInv, CompileFails
<1>4. CachesOnlyOwnPrograms'
  BY <1>2 DEF FlightInv, CachesOnlyOwnPrograms
<1>5. AnswersOwnKey'
  BY DEF FlightInv, CompileFails, AnswersOwnKey
<1>6. CallersHoldCalls'
  BY DEF FlightInv, CompileFails, CallersHoldCalls
<1>7. LeadersAreRegistered'
  BY DEF FlightInv, CompileFails, LeadersAreRegistered
<1>8. OneKeyPerCall'
  BY DEF FlightInv, CompileFails, OneKeyPerCall
<1>9. OutcomesAreOwn'
  BY DEF FlightInv, CompileFails, OutcomesAreOwn
<1>10. FreeCallsAreBlank'
  BY DEF FlightInv, CompileFails, FreeCallsAreBlank
<1>11. LeadersHaveTheAnswer'
  BY DEF FlightInv, TypeOK, CompileFails, LeadersHaveTheAnswer
<1>12. CompilesUncached'
  BY <1>2 DEF FlightInv, CompileFails, CompilesUncached
<1>13. FlightsHaveALeader'
  BY DEF FlightInv, CompileFails, FlightsHaveALeader
<1>14. WaitersHaveALeader'
  BY DEF FlightInv, CompileFails, WaitersHaveALeader
<1> QED BY <1>3, <1>4, <1>5, <1>6, <1>7, <1>8, <1>9, <1>10, <1>11, <1>12, <1>13,
   <1>14 DEF FlightInv

\* A panic leaves the call registered without a leader.
LEMMA CompilePanicsKeepsInv ==
  ASSUME FlightInv, NEW c \in Callers, CompilePanics(c)
  PROVE  FlightInv'
<1> USE FlightAssumption DEF Outcomes, Leading, Steps, Holding, Goto, callerVars, flightVars
<1>1. CacheInv
  BY DEF FlightInv, TypeOK, CacheInv
<1>2. CacheInv' /\ entries' = entries /\ Resident' = Resident
  BY <1>1, UnchangedKeepsInv DEF CompilePanics, cacheVars, Resident
<1>3. TypeOK' /\ ListMatchesMap'
  BY <1>2 DEF FlightInv, TypeOK, CacheInv, CompilePanics, CallersHoldCalls, Holding
<1>4. CachesOnlyOwnPrograms'
  BY <1>2 DEF FlightInv, CachesOnlyOwnPrograms
<1>5. AnswersOwnKey'
  BY DEF FlightInv, TypeOK, CompilePanics, AnswersOwnKey
<1>6. CallersHoldCalls'
  BY DEF FlightInv, TypeOK, CompilePanics, CallersHoldCalls
<1>7. LeadersAreRegistered'
  BY DEF FlightInv, TypeOK, CompilePanics, LeadersAreRegistered
<1>8. OneKeyPerCall'
  BY DEF FlightInv, TypeOK, CompilePanics, OneKeyPerCall, CallersHoldCalls
<1>9. OutcomesAreOwn'
  BY DEF FlightInv, TypeOK, CompilePanics, OutcomesAreOwn
<1>10. FreeCallsAreBlank'
  BY DEF FlightInv, CompilePanics, FreeCallsAreBlank, LeadersAreRegistered, Live
<1>11. LeadersHaveTheAnswer'
  BY DEF FlightInv, CompilePanics, LeadersHaveTheAnswer
<1>12. CompilesUncached'
  BY <1>2 DEF FlightInv, CompilePanics, CompilesUncached
<1>13. FlightsHaveALeader'
  BY DEF FlightInv, CompilePanics, FlightsHaveALeader
<1>14. WaitersHaveALeader'
  BY DEF FlightInv, CompilePanics, WaitersHaveALeader
<1> QED BY <1>3, <1>4, <1>5, <1>6, <1>7, <1>8, <1>9, <1>10, <1>11, <1>12, <1>13,
   <1>14 DEF FlightInv

\* The call gets the answer of its key.
LEMMA PublishKeepsInv ==
  ASSUME FlightInv, NEW c \in Callers, Publish(c)
  PROVE  FlightInv'
<1> USE FlightAssumption DEF Outcomes, Leading, Steps, Holding, Goto, callerVars, flightVars
<1>1. CacheInv
  BY DEF FlightInv, TypeOK, CacheInv
<1>2. CacheInv' /\ entries' = entries /\ Resident' = Resident
  BY <1>1, UnchangedKeepsInv DEF Publish, cacheVars, Resident
<1>3. TypeOK' /\ ListMatchesMap'
  BY <1>2 DEF FlightInv, TypeOK, CacheInv, Publish, CallersHoldCalls, LeadersHaveTheAnswer
<1>4. CachesOnlyOwnPrograms'
  BY <1>2 DEF FlightInv, CachesOnlyOwnPrograms
<1>5. AnswersOwnKey'
  BY DEF FlightInv, Publish, AnswersOwnKey
<1>6. CallersHoldCalls'
  BY DEF FlightInv, Publish, CallersHoldCalls
<1>7. LeadersAreRegistered'
  BY DEF FlightInv, Publish, LeadersAreRegistered
<1>8. OneKeyPerCall'
  BY DEF FlightInv, Publish, OneKeyPerCall
<1>9. OutcomesAreOwn'
  BY DEF FlightInv, Publish, OutcomesAreOwn, OneKeyPerCall, LeadersHaveTheAnswer
<1>10. FreeCallsAreBlank'
  BY DEF FlightInv, Publish, FreeCallsAreBlank, Live
<1>11. LeadersHaveTheAnswer'
  BY DEF FlightInv, TypeOK, Publish, LeadersHaveTheAnswer, CallersHoldCalls, OneKeyPerCall
<1>12. CompilesUncached'
  BY <1>2 DEF FlightInv, Publish, CompilesUncached
<1>13. FlightsHaveALeader'
  BY DEF FlightInv, Publish, FlightsHaveALeader, OneKeyPerCall
<1>14. WaitersHaveALeader'
  BY DEF FlightInv, Publish, WaitersHaveALeader, OneKeyPerCall
<1> QED BY <1>3, <1>4, <1>5, <1>6, <1>7, <1>8, <1>9, <1>10, <1>11, <1>12, <1>13,
   <1>14 DEF FlightInv

\* The leader returns its answer; its waiters keep the published call.
LEMMA ForgetKeepsInv ==
  ASSUME FlightInv, NEW c \in Callers, Forget(c)
  PROVE  FlightInv'
<1> USE FlightAssumption DEF Outcomes, Leading, Steps, Holding, Goto, callerVars, flightVars
<1>1. CacheInv
  BY DEF FlightInv, TypeOK, CacheInv
<1>2. CacheInv' /\ entries' = entries /\ Resident' = Resident
  BY <1>1, UnchangedKeepsInv DEF Forget, cacheVars, Resident
<1>3. TypeOK' /\ ListMatchesMap'
  BY <1>2 DEF FlightInv, TypeOK, CacheInv, Forget, Collected
<1>4. CachesOnlyOwnPrograms'
  BY <1>2 DEF FlightInv, CachesOnlyOwnPrograms
<1>5. AnswersOwnKey'
  BY DEF FlightInv, Forget, AnswersOwnKey, LeadersHaveTheAnswer
<1>6. CallersHoldCalls'
  BY DEF FlightInv, TypeOK, Forget, CallersHoldCalls
<1>7. LeadersAreRegistered'
  BY DEF FlightInv, TypeOK, Forget, LeadersAreRegistered
<1>8. OneKeyPerCall'
  BY DEF FlightInv, TypeOK, Forget, OneKeyPerCall, CallersHoldCalls
<1>9. OutcomesAreOwn'
  BY DEF FlightInv, TypeOK, Forget, OutcomesAreOwn, CallersHoldCalls, Collected
<1>10. FreeCallsAreBlank'
  BY DEF FlightInv, Forget, FreeCallsAreBlank, Collected
<1>11. LeadersHaveTheAnswer'
  BY DEF FlightInv, TypeOK, Forget, LeadersHaveTheAnswer, CallersHoldCalls, Live, Collected
<1>12. CompilesUncached'
  BY <1>2 DEF FlightInv, Forget, CompilesUncached
<1>13. FlightsHaveALeader'
  BY DEF FlightInv, TypeOK, Forget, FlightsHaveALeader, Live, Collected
<1>14. WaitersHaveALeader'
  BY DEF FlightInv, TypeOK, Forget, WaitersHaveALeader, CallersHoldCalls, LeadersHaveTheAnswer,
         Live, Collected
<1> QED BY <1>3, <1>4, <1>5, <1>6, <1>7, <1>8, <1>9, <1>10, <1>11, <1>12, <1>13,
   <1>14 DEF FlightInv

\* A waiter returns the outcome of its call.
LEMMA ReceiveKeepsInv ==
  ASSUME FlightInv, NEW c \in Callers, Receive(c)
  PROVE  FlightInv'
<1> USE FlightAssumption DEF Outcomes, Leading, Steps, Holding, Goto, callerVars, flightVars
<1>1. CacheInv
  BY DEF FlightInv, TypeOK, CacheInv
<1>2. CacheInv' /\ entries' = entries /\ Resident' = Resident
  BY <1>1, UnchangedKeepsInv DEF Receive, cacheVars, Resident
<1>3. TypeOK' /\ ListMatchesMap'
  BY <1>2 DEF FlightInv, TypeOK, CacheInv, Receive, CallersHoldCalls, Collected
<1>4. CachesOnlyOwnPrograms'
  BY <1>2 DEF FlightInv, CachesOnlyOwnPrograms
<1>5. AnswersOwnKey'
  BY DEF FlightInv, TypeOK, Receive, AnswersOwnKey, OutcomesAreOwn
<1>6. CallersHoldCalls'
  BY DEF FlightInv, TypeOK, Receive, CallersHoldCalls
<1>7. LeadersAreRegistered'
  BY DEF FlightInv, Receive, LeadersAreRegistered
<1>8. OneKeyPerCall'
  BY DEF FlightInv, TypeOK, Receive, OneKeyPerCall, CallersHoldCalls
<1>9. OutcomesAreOwn'
  BY DEF FlightInv, TypeOK, Receive, OutcomesAreOwn, CallersHoldCalls, Collected
<1>10. FreeCallsAreBlank'
  BY DEF FlightInv, Receive, FreeCallsAreBlank, Collected
<1>11. LeadersHaveTheAnswer'
  BY DEF FlightInv, TypeOK, Receive, LeadersHaveTheAnswer, CallersHoldCalls, Live, Collected
<1>12. CompilesUncached'
  BY <1>2 DEF FlightInv, Receive, CompilesUncached
<1>13. FlightsHaveALeader'
  BY DEF FlightInv, TypeOK, Receive, FlightsHaveALeader, Live, Collected
<1>14. WaitersHaveALeader'
  BY DEF FlightInv, TypeOK, Receive, WaitersHaveALeader, CallersHoldCalls, Live, Collected
<1> QED BY <1>3, <1>4, <1>5, <1>6, <1>7, <1>8, <1>9, <1>10, <1>11, <1>12, <1>13,
   <1>14 DEF FlightInv

-----------------------------------------------------------------------------
LEMMA InitInv == Init => FlightInv
<1> SUFFICES ASSUME Init PROVE FlightInv
  OBVIOUS
<1>1. CacheInv
  BY CacheInitInv DEF Init
<1>2. Resident = {}
  BY DEF Init, CacheInit, Resident
<1> QED BY <1>1, <1>2, FlightAssumption
        DEF Init, FlightInv, TypeOK, CacheInv, CachesOnlyOwnPrograms, AnswersOwnKey,
            CallersHoldCalls, LeadersAreRegistered, OneKeyPerCall, OutcomesAreOwn,
            FreeCallsAreBlank, LeadersHaveTheAnswer, CompilesUncached, FlightsHaveALeader,
            WaitersHaveALeader, Holding, Leading, Steps, Outcomes

LEMMA StepKeepsInv == FlightInv /\ [Next]_vars => FlightInv'
<1> SUFFICES ASSUME FlightInv, [Next]_vars PROVE FlightInv'
  OBVIOUS
<1>1. CASE UNCHANGED vars
  <2>1. CacheInv' /\ entries' = entries /\ Resident' = Resident
    BY <1>1, UnchangedKeepsInv DEF FlightInv, TypeOK, CacheInv, vars, cacheVars, Resident
  <2> QED BY <1>1, <2>1
          DEF vars, FlightInv, TypeOK, CacheInv, CachesOnlyOwnPrograms, AnswersOwnKey,
              CallersHoldCalls, LeadersAreRegistered, OneKeyPerCall, OutcomesAreOwn,
              FreeCallsAreBlank, LeadersHaveTheAnswer, CompilesUncached, FlightsHaveALeader,
              WaitersHaveALeader, Holding, Live
<1>2. ASSUME NEW c \in Callers, NEW k \in Keys, AskHit(c, k) \/ AskMiss(c, k)
      PROVE  FlightInv'
  BY <1>2, AskHitKeepsInv, AskMissKeepsInv
<1>3. ASSUME NEW c \in Callers, Step(c) PROVE FlightInv'
  BY <1>3, JoinKeepsInv, LeadKeepsInv, RecheckHitKeepsInv, RecheckMissKeepsInv,
     CompileSucceedsKeepsInv, CompileFailsKeepsInv, CompilePanicsKeepsInv,
     PublishKeepsInv, ForgetKeepsInv, ReceiveKeepsInv DEF Step
<1> QED BY <1>1, <1>2, <1>3 DEF Next

LEMMA FlightInvariant == Spec => []FlightInv
BY InitInv, StepKeepsInv, PTL DEF Spec

-----------------------------------------------------------------------------
\* Every variable of the cache, the table and the callers keeps its type.
THEOREM TypeCorrect == Spec => []TypeOK
BY FlightInvariant, PTL DEF FlightInv

\* However many goroutines ask, no key is ever compiled twice at a time, nor
\* while its program is cached.
THEOREM OneCompilationPerKey == Spec => []NoDuplicateCompile
<1>1. FlightInv => NoDuplicateCompile
  BY DEF FlightInv, NoDuplicateCompile, LeadersAreRegistered, CompilesUncached, Leading
<1> QED BY <1>1, FlightInvariant, PTL

\* Every answer of getOrCompile is what its own key compiles to, or that the
\* compiler panicked.
THEOREM AnswersAreOwn == Spec => []AnswersOwnKey
BY FlightInvariant, PTL DEF FlightInv

\* Nothing but successful compilations is cached, each under its own key.
THEOREM CachedAreOwn == Spec => []CachesOnlyOwnPrograms
BY FlightInvariant, PTL DEF FlightInv

\* A waiter's call is published, or has a leader, or its own leader has panicked.
THEOREM NoWaiterIsLost == Spec => []WaitersHaveALeader
BY FlightInvariant, PTL DEF FlightInv


-----------------------------------------------------------------------------
\* The refinement, one lemma per step of the service.

LEMMA InitRefines == Init => Service!Init
BY DEF Init, CacheInit, Service!Init, Asked, Answered, Busy, Resident

LEMMA AskHitRefines ==
  ASSUME FlightInv, NEW c \in Callers, NEW k \in Keys, AskHit(c, k)
  PROVE  Service!Reuse(c, k)
<1>1. Resident' = Resident /\ k \in Resident /\ entries[k] = Compiled[k]
  BY HitChangesNoEntry DEF AskHit, Hit, FlightInv, CachesOnlyOwnPrograms
<1>2. Asked[c] = NoKey /\ Asked' = Asked
  BY DEF AskHit, Asked, FlightInv, TypeOK
<1>3. Answered' = [Answered EXCEPT ![c] = Compiled[k]]
  BY <1>1 DEF AskHit, Answered, FlightInv, TypeOK
<1>4. Busy' = Busy
  BY DEF AskHit, Busy, FlightInv, TypeOK
<1> QED BY <1>1, <1>2, <1>3, <1>4 DEF Service!Reuse

LEMMA AskMissRefines ==
  ASSUME FlightInv, NEW c \in Callers, NEW k \in Keys, AskMiss(c, k)
  PROVE  Service!Request(c, k)
<1>1. Resident' = Resident
  BY DEF AskMiss, Miss, cacheVars, Resident
<1>2. Asked[c] = NoKey /\ Asked' = [Asked EXCEPT ![c] = k]
  BY DEF AskMiss, Goto, Asked, FlightInv, TypeOK
<1>3. Answered' = [Answered EXCEPT ![c] = Nothing]
  BY DEF AskMiss, Goto, Answered, FlightInv, TypeOK
<1>4. Busy' = Busy
  BY DEF AskMiss, Goto, Busy, FlightInv, TypeOK
<1> QED BY <1>1, <1>2, <1>3, <1>4 DEF Service!Request

\* Registering, joining, the second Get's hit and filling in the call are
\* invisible to the callers.
LEMMA InnerStepsRefine ==
  ASSUME FlightInv, NEW c \in Callers, Join(c) \/ Lead(c) \/ RecheckHit(c) \/ Publish(c)
  PROVE  UNCHANGED <<Asked, Answered, Busy, Resident>>
<1>1. Resident' = Resident
  <2>1. CASE RecheckHit(c)
    BY <2>1, HitChangesNoEntry DEF RecheckHit, Goto, FlightInv, CallersHoldCalls
  <2> QED BY <2>1 DEF Join, Lead, Publish, cacheVars, Resident
<1>2. Asked' = Asked
  BY DEF Join, Lead, RecheckHit, Publish, Goto, Asked, FlightInv, TypeOK
<1>3. Answered' = Answered
  BY DEF Join, Lead, RecheckHit, Publish, Goto, Answered, FlightInv, TypeOK
<1>4. Busy' = Busy
  BY DEF Join, Lead, RecheckHit, Publish, Goto, Busy, FlightInv, TypeOK
<1> QED BY <1>1, <1>2, <1>3, <1>4

\* The end of a compilation of c: no other caller compiles its key, so the
\* key is no longer busy.
LEMMA CompilationEnds ==
  ASSUME FlightInv, NEW c \in Callers, pc[c] = "compile", key' = key,
         NEW to \in {"publish", "idle"}, pc' = [pc EXCEPT ![c] = to]
  PROVE  key[c] \in Busy /\ Busy' = Busy \ {key[c]}
BY DEF FlightInv, TypeOK, LeadersAreRegistered, Leading, Busy

LEMMA RecheckMissRefines ==
  ASSUME FlightInv, NEW c \in Callers, RecheckMiss(c)
  PROVE  Service!Start(key[c])
<1>1. key[c] \notin Resident /\ Resident' = Resident
  BY MissMeansAbsent DEF RecheckMiss, Goto, Miss, cacheVars, Resident, FlightInv, TypeOK,
                         CacheInv, CallersHoldCalls
<1>2. key[c] \notin Busy
  BY DEF RecheckMiss, Goto, Busy, FlightInv, LeadersAreRegistered, Leading
<1>3. Asked[c] = key[c] /\ Asked' = Asked
  BY DEF RecheckMiss, Goto, Asked, FlightInv, TypeOK
<1>4. Answered' = Answered
  BY DEF RecheckMiss, Goto, Answered, FlightInv, TypeOK
<1>5. Busy' = Busy \cup {key[c]}
  BY DEF RecheckMiss, Goto, Busy, FlightInv, TypeOK
<1> QED BY <1>1, <1>2, <1>3, <1>4, <1>5 DEF Service!Start

LEMMA CompileSucceedsRefines ==
  ASSUME FlightInv, NEW c \in Callers, CompileSucceeds(c)
  PROVE  Service!Succeed(key[c])
<1>1. /\ key[c] \in Keys /\ Compiled[key[c]] \in Values /\ Put(key[c], Compiled[key[c]])
      /\ CacheInv
  BY FlightAssumption
     DEF CompileSucceeds, Goto, FlightInv, TypeOK, CacheInv, CallersHoldCalls
<1>2. key[c] \in Busy /\ Busy' = Busy \ {key[c]}
  BY CompilationEnds DEF CompileSucceeds, Goto
<1>3. Resident' \subseteq Resident \cup {key[c]}
  BY <1>1, PutStoresOwnKey
<1>4. Capacity > 0 => key[c] \in Resident'
  BY <1>1, InsertKeepsInv, CacheAssumption, CapacityNat
     DEF Put, Replace, Resident, CacheInv, CacheTypeOK
<1>5. Cardinality(Resident') <= Capacity
  <2>1. CacheInv'
    BY <1>1, PutKeepsInv
  <2>2. order' \in Seq(Keys) /\ Resident' = ElementsOf(order') /\ Len(order') <= Capacity
    BY <2>1 DEF CacheInv, CacheTypeOK, ListMatchesMap, ElementsOf
  <2>3. IsFiniteSet(Resident') /\ Cardinality(Resident') <= Len(order')
    BY <2>2, ElementsBounded
  <2>4. Cardinality(Resident') \in Nat /\ Len(order') \in Nat
    BY <2>2, <2>3, FS_CardinalityType, LenProperties
  <2> QED BY <2>2, <2>3, <2>4, CapacityNat
<1>6. Asked' = Asked
  BY DEF CompileSucceeds, Goto, Asked, FlightInv, TypeOK
<1>7. Answered' = Answered
  BY DEF CompileSucceeds, Goto, Answered, FlightInv, TypeOK
<1>8. Compiled[key[c]] # CompileError
  BY DEF CompileSucceeds
<1>9. Service!Cardinality(Resident') = Cardinality(Resident')
  BY Zenon DEF Service!Cardinality, Cardinality
<1> QED BY <1>2, <1>3, <1>4, <1>5, <1>6, <1>7, <1>8, <1>9 DEF Service!Succeed

LEMMA CompileFailsRefines ==
  ASSUME FlightInv, NEW c \in Callers, CompileFails(c)
  PROVE  Service!Fail(key[c])
<1>1. key[c] \in Busy /\ Busy' = Busy \ {key[c]}
  BY CompilationEnds DEF CompileFails, Goto
<1>2. Asked' = Asked
  BY DEF CompileFails, Goto, Asked, FlightInv, TypeOK
<1>3. Answered' = Answered
  BY DEF CompileFails, Goto, Answered, FlightInv, TypeOK
<1>4. Resident' = Resident /\ Compiled[key[c]] = CompileError
  BY DEF CompileFails, cacheVars, Resident
<1> QED BY <1>1, <1>2, <1>3, <1>4 DEF Service!Fail

LEMMA CompilePanicsRefines ==
  ASSUME FlightInv, NEW c \in Callers, CompilePanics(c)
  PROVE  Service!Panic(c)
<1>1. key[c] \in Busy /\ Busy' = Busy \ {key[c]}
  BY CompilationEnds DEF CompilePanics, Goto
<1>2. Asked[c] = key[c] /\ key[c] \in Panicking
  BY DEF CompilePanics, Goto, Asked
<1>3. Asked' = [Asked EXCEPT ![c] = NoKey]
  BY DEF CompilePanics, Goto, Asked, FlightInv, TypeOK
<1>4. Answered' = [Answered EXCEPT ![c] = InternalError]
  BY DEF CompilePanics, Goto, Answered, FlightInv, TypeOK
<1>5. Resident' = Resident
  BY DEF CompilePanics, cacheVars, Resident
<1> QED BY <1>1, <1>2, <1>3, <1>4, <1>5 DEF Service!Panic

LEMMA ReturnsRefine ==
  ASSUME FlightInv, NEW c \in Callers, Forget(c) \/ Receive(c)
  PROVE  Service!Answer(c)
<1>1. Asked[c] = key[c] /\ key[c] \in Keys /\ key[c] # NoKey
  BY FlightAssumption DEF Forget, Receive, Goto, Asked, FlightInv, CallersHoldCalls
<1>2. result'[c] = Compiled[key[c]]
  BY DEF Forget, Receive, Goto, FlightInv, TypeOK, LeadersHaveTheAnswer, OutcomesAreOwn, Holding
<1>3. Asked' = [Asked EXCEPT ![c] = NoKey]
  BY DEF Forget, Receive, Goto, Asked, FlightInv, TypeOK
<1>4. Answered' = [Answered EXCEPT ![c] = Compiled[key[c]]]
  BY <1>2 DEF Forget, Receive, Goto, Answered, FlightInv, TypeOK
<1>5. Busy' = Busy
  BY DEF Forget, Receive, Goto, Busy, FlightInv, TypeOK
<1>6. Resident' = Resident
  BY DEF Forget, Receive, cacheVars, Resident
<1> QED BY <1>1, <1>3, <1>4, <1>5, <1>6 DEF Service!Answer

\* getOrCompile, its cache, its flight table and their races included, is the
\* memoising service: at most one compilation per key at a time and none of a
\* key that is kept, at most Capacity programs kept, each request answered
\* with what its key compiles to.
THEOREM FlightRefinesService == Spec => ServiceSpec
<1>1. FlightInv /\ [Next]_vars => [Service!Next]_(Service!serviceVars)
  <2> SUFFICES ASSUME FlightInv, [Next]_vars
               PROVE  Service!Next \/ UNCHANGED <<Asked, Answered, Busy, Resident>>
    BY DEF Service!serviceVars
  <2>1. CASE UNCHANGED vars
    BY <2>1 DEF vars, Asked, Answered, Busy, Resident
  <2>2. ASSUME NEW c \in Callers, NEW k \in Keys, AskHit(c, k) \/ AskMiss(c, k)
        PROVE  Service!Next
    BY <2>2, AskHitRefines, AskMissRefines DEF Service!Next
  <2>3. ASSUME NEW c \in Callers, Join(c) \/ Lead(c) \/ RecheckHit(c) \/ Publish(c)
        PROVE  UNCHANGED <<Asked, Answered, Busy, Resident>>
    BY <2>3, InnerStepsRefine
  <2>4. ASSUME NEW c \in Callers, RecheckMiss(c) \/ CompileSucceeds(c) \/ CompileFails(c)
        PROVE  Service!Next
    <3>1. key[c] \in Keys
      BY <2>4 DEF RecheckMiss, CompileSucceeds, CompileFails, Goto, FlightInv, CallersHoldCalls
    <3> QED BY <2>4, <3>1, RecheckMissRefines, CompileSucceedsRefines, CompileFailsRefines
            DEF Service!Next
  <2>5. ASSUME NEW c \in Callers, CompilePanics(c) \/ Forget(c) \/ Receive(c)
        PROVE  Service!Next
    BY <2>5, CompilePanicsRefines, ReturnsRefine DEF Service!Next
  <2> QED BY <2>1, <2>2, <2>3, <2>4, <2>5 DEF Next, Step
<1> QED BY <1>1, InitRefines, FlightInvariant, PTL DEF Spec, ServiceSpec, Service!Spec

=============================================================================
