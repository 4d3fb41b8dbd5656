--------------------------- MODULE JwksCacheProofs ---------------------------
(***************************************************************************)
(* Theorems of JwksCache, for every set of requests and keys, every window *)
(* and every shorter time of a fetch.                                      *)
(***************************************************************************)
EXTENDS JwksCache, TLAPS

\* Nothing is held that the endpoint has not served, and a key's tenure is zero
\* while it is not served.
Past ==
  /\ cache.version <= served.version
  /\ \A r \in Requests : request[r].answer.version <= served.version
  /\ \A k \in Usable : tenure[k] > 0 => k \in served.keys

\* An answer has every key that was served all the time since the request began.
AnswersComplete ==
  \A r \in Requests : request[r].pc = "store" =>
    \A k \in Usable : tenure[k] > request[r].busy => k \in request[r].answer.keys

\* A cache that is not due has every key served since before its fetch.
CacheComplete ==
  age < Window =>
    \A k \in Usable : tenure[k] > age + FetchTime => k \in cache.keys

\* The same for a request that has been told not to fetch, or has fetched.
SecondLookupComplete ==
  \A r \in Requests : request[r].pc = "again" =>
    \A k \in Usable :
      tenure[k] + 1 > Window + FetchTime + request[r].busy => k \in cache.keys

\* An answer that was overtaken was overtaken while its request was under way.
OvertakenLately ==
  \A r \in Requests :
    request[r].pc = "store" /\ request[r].answer.version < cache.version
      => age <= request[r].busy

\* The inductive invariant.
IInv ==
  /\ TypeOK
  /\ Past
  /\ AnswersComplete /\ CacheComplete /\ SecondLookupComplete
  /\ OvertakenLately

LEMMA InitInv == Init => IInv
BY KidsAssumption, TimesAssumption
   DEF Init, IInv, TypeOK, Past, AnswersComplete, CacheComplete,
       SecondLookupComplete, OvertakenLately, KeySets, KeyMaps, RequestRows, Pcs, Idle,
       Empty, Settled

\* What the step of a request does to its slot and to the other ones.
LEMMA Slot ==
  ASSUME TypeOK, NEW r \in Requests, NEW q \in RequestRows,
         request' = [request EXCEPT ![r] = q]
  PROVE  /\ request' \in [Requests -> RequestRows]
         /\ request'[r] = q
         /\ \A s \in Requests \ {r} : request'[s] = request[s]
BY DEF TypeOK

\* A step that writes a row without an answer, and neither cache nor endpoint.
LEMMA RestKeeps ==
  ASSUME IInv, NEW r \in Requests, NEW q \in RequestRows,
         q.pc \notin {"store", "again"}, q.answer.version <= served.version,
         request' = [request EXCEPT ![r] = q],
         UNCHANGED <<served, tenure, cache, age>>
  PROVE  IInv'
<1>1. TypeOK'
  BY Slot DEF IInv, TypeOK
<1>2. Past'
  BY Slot DEF IInv, Past
<1>3. AnswersComplete' /\ CacheComplete'
  BY Slot DEF IInv, AnswersComplete, CacheComplete
<1>4. SecondLookupComplete' /\ OvertakenLately'
  BY Slot DEF IInv, SecondLookupComplete, OvertakenLately
<1> QED
  BY <1>1, <1>2, <1>3, <1>4 DEF IInv

-----------------------------------------------------------------------------
(* Every step keeps the invariant.                                          *)

LEMMA LookupKeeps ==
  ASSUME IInv, NEW r \in Requests, NEW k \in Kids, Lookup(r, k)
  PROVE  IInv'
<1> DEFINE q == [pc |-> IF k \in cache.keys THEN "accepted" ELSE "check",
                 kid |-> k, answer |-> Empty, busy |-> 0]
<1>1. q \in RequestRows /\ q.pc \notin {"store", "again"}
  BY TimesAssumption DEF RequestRows, Pcs, Empty, KeySets, KeyMaps
<1>2. q.answer.version <= served.version
  BY DEF Empty, IInv, TypeOK, KeySets, KeyMaps
<1>3. request' = [request EXCEPT ![r] = q] /\ UNCHANGED <<served, tenure, cache, age>>
  BY DEF Lookup
<1> HIDE DEF q
<1> QED
  BY <1>1, <1>2, <1>3, RestKeeps

\* The end of a request.
LEMMA EndKeeps ==
  ASSUME IInv, NEW r \in Requests, NEW outcome \in {"accepted", "notFound", "failed"},
         End(r, outcome), UNCHANGED <<served, tenure, cache, age>>
  PROVE  IInv'
<1> DEFINE q == [pc |-> outcome, kid |-> request[r].kid, answer |-> Empty, busy |-> 0]
<1>1. q \in RequestRows /\ q.pc \notin {"store", "again"}
  BY TimesAssumption DEF RequestRows, Pcs, Empty, KeySets, KeyMaps, IInv, TypeOK
<1>2. q.answer.version <= served.version
  BY DEF Empty, IInv, TypeOK, KeySets, KeyMaps
<1>3. request' = [request EXCEPT ![r] = q]
  BY DEF End
<1> HIDE DEF q
<1> QED
  BY <1>1, <1>2, <1>3, RestKeeps

LEMMA CheckKeeps ==
  ASSUME IInv, NEW r \in Requests, CheckRecent(r)
  PROVE  IInv'
<1> DEFINE q == [pc |-> IF Recent THEN "again" ELSE "fetch", kid |-> request[r].kid,
                 answer |-> request[r].answer, busy |-> request[r].busy]
<1>1. request[r] \in RequestRows
  BY DEF IInv, TypeOK
<1>2. q \in RequestRows
  BY <1>1 DEF RequestRows, Pcs
<1>3. request' = [request EXCEPT ![r] = q] /\ UNCHANGED <<served, tenure, cache, age>>
  BY DEF CheckRecent, Goto
<1>4. q.answer = request[r].answer /\ q.pc # "store" /\ q.busy \in Nat
  BY <1>1, TimesAssumption DEF RequestRows
<1>5. ASSUME q.pc = "again", NEW k \in Usable,
             tenure[k] + 1 > Window + FetchTime + q.busy
      PROVE  k \in cache.keys
  <2>1. age < Window
    BY <1>5 DEF Recent
  <2>2. tenure[k] \in Nat /\ age \in Nat
    BY TimesAssumption DEF IInv, TypeOK, Settled
  <2>3. tenure[k] > age + FetchTime
    BY <1>4, <1>5, <2>1, <2>2, TimesAssumption
  <2> QED
    BY <2>1, <2>3 DEF IInv, CacheComplete
<1> HIDE DEF q
<1>6. TypeOK'
  BY <1>2, <1>3, Slot DEF IInv, TypeOK
<1>7. Past'
  BY <1>2, <1>3, <1>4, Slot DEF IInv, Past
<1>8. AnswersComplete' /\ CacheComplete'
  BY <1>2, <1>3, <1>4, Slot DEF IInv, AnswersComplete, CacheComplete
<1>9. SecondLookupComplete' /\ OvertakenLately'
  BY <1>2, <1>3, <1>4, <1>5, Slot DEF IInv, SecondLookupComplete, OvertakenLately
<1> QED
  BY <1>6, <1>7, <1>8, <1>9 DEF IInv

LEMMA AnswerKeeps ==
  ASSUME IInv, NEW r \in Requests, Answer(r)
  PROVE  IInv'
<1> DEFINE q == [pc |-> "store", kid |-> request[r].kid, answer |-> Parsed(served),
                 busy |-> request[r].busy]
<1>1. request[r] \in RequestRows /\ served \in KeySets
  BY DEF IInv, TypeOK
<1>2. Parsed(served) \in KeyMaps /\ Parsed(served).version = served.version
  BY <1>1 DEF Parsed, KeySets, KeyMaps
<1>3. q \in RequestRows
  BY <1>1, <1>2 DEF RequestRows, Pcs
<1>4. request' = [request EXCEPT ![r] = q] /\ UNCHANGED <<served, tenure, cache, age>>
  BY DEF Answer
<1>5. q.answer.version = served.version /\ q.pc = "store" /\ q.busy \in Nat
  BY <1>1, <1>2, TimesAssumption DEF RequestRows
<1>6. ASSUME NEW k \in Usable, tenure[k] > q.busy PROVE k \in q.answer.keys
  <2>1. tenure[k] > 0
    BY <1>5, <1>6, TimesAssumption DEF IInv, TypeOK, Settled
  <2> QED
    BY <2>1 DEF IInv, Past, Parsed
<1>7. ~(q.answer.version < cache.version)
  BY <1>1, <1>5 DEF IInv, Past, TypeOK, KeySets, KeyMaps
<1>8. served.version <= served.version
  BY <1>1 DEF KeySets, KeyMaps
<1> HIDE DEF q
<1>9. TypeOK'
  BY <1>3, <1>4, Slot DEF IInv, TypeOK
<1>10. Past'
  BY <1>3, <1>4, <1>5, <1>8, Slot DEF IInv, Past
<1>11. AnswersComplete' /\ CacheComplete'
  BY <1>3, <1>4, <1>6, Slot DEF IInv, AnswersComplete, CacheComplete
<1>12. SecondLookupComplete' /\ OvertakenLately'
  BY <1>3, <1>4, <1>5, <1>7, Slot DEF IInv, SecondLookupComplete, OvertakenLately
<1> QED
  BY <1>9, <1>10, <1>11, <1>12 DEF IInv

LEMMA StoreKeeps ==
  ASSUME IInv, NEW r \in Requests, Store(r)
  PROVE  IInv'
<1> DEFINE q == [pc |-> "again", kid |-> request[r].kid, answer |-> request[r].answer,
                 busy |-> request[r].busy]
<1>1. request \in [Requests -> RequestRows] /\ request[r] \in RequestRows
  BY DEF IInv, TypeOK
<1>2. q \in RequestRows
  BY <1>1 DEF RequestRows, Pcs
<1>3. request' = [request EXCEPT ![r] = q] /\ UNCHANGED <<served, tenure>>
  BY DEF Store, Goto
<1>4. /\ q.answer = request[r].answer /\ q.pc = "again" /\ q.busy = request[r].busy
      /\ \A s \in Requests : request[s].busy \in 0..FetchTime
      /\ tenure \in [Usable -> Nat] /\ age \in Nat
  BY <1>1, TimesAssumption DEF RequestRows, IInv, TypeOK, Settled
<1> HIDE DEF q
<1>5. CASE Recent /\ UNCHANGED <<cache, age>>
  <2>1. TypeOK' /\ Past'
    BY <1>2, <1>3, <1>4, <1>5, Slot DEF IInv, TypeOK, Past
  <2>2. AnswersComplete' /\ CacheComplete'
    BY <1>2, <1>3, <1>4, <1>5, Slot DEF IInv, AnswersComplete, CacheComplete
  <2>3. ASSUME NEW k \in Usable, tenure[k] + 1 > Window + FetchTime + q.busy
        PROVE  k \in cache.keys
    <3>1. age < Window
      BY <1>5 DEF Recent
    <3>2. tenure[k] > age + FetchTime
      BY <1>4, <2>3, <3>1, TimesAssumption
    <3> QED
      BY <3>1, <3>2 DEF IInv, CacheComplete
  <2>4. SecondLookupComplete' /\ OvertakenLately'
    BY <1>2, <1>3, <1>4, <1>5, <2>3, Slot DEF IInv, SecondLookupComplete, OvertakenLately
  <2> QED
    BY <2>1, <2>2, <2>4 DEF IInv
<1>6. CASE cache' = request[r].answer /\ age' = 0
  <2>1. \A k \in Usable : tenure[k] > FetchTime => k \in cache'.keys
    BY <1>4, <1>6, TimesAssumption DEF IInv, AnswersComplete, Store
  <2>2. request[r].answer \in KeyMaps
    BY <1>1 DEF RequestRows
  <2>3. TypeOK'
    BY <1>2, <1>3, <1>6, <2>2, TimesAssumption, Slot DEF IInv, TypeOK
  <2>4. Past'
    BY <1>2, <1>3, <1>4, <1>6, Slot DEF IInv, Past
  <2>5. AnswersComplete' /\ CacheComplete'
    BY <1>2, <1>3, <1>4, <1>6, <2>1, TimesAssumption, Slot
       DEF IInv, AnswersComplete, CacheComplete
  <2>6. SecondLookupComplete'
    <3> SUFFICES ASSUME NEW s \in Requests, request'[s].pc = "again",
                        NEW k \in Usable,
                        tenure[k] + 1 > Window + FetchTime + request'[s].busy
                 PROVE  k \in cache'.keys
      BY <1>3 DEF SecondLookupComplete
    <3>1. request'[s].busy \in 0..FetchTime
      BY <1>2, <1>3, <1>4, Slot DEF IInv
    <3> QED
      BY <1>4, <2>1, <3>1, TimesAssumption
  <2>7. OvertakenLately'
    BY <1>2, <1>3, <1>4, <1>6, TimesAssumption, Slot DEF IInv, OvertakenLately
  <2> QED
    BY <2>3, <2>4, <2>5, <2>6, <2>7 DEF IInv
<1> QED
  BY <1>5, <1>6 DEF Store

LEMMA RotateKeeps == ASSUME IInv, Rotate PROVE IInv'
<1>1. PICK keys \in Published :
        /\ served' = [version |-> served.version + 1, keys |-> keys]
        /\ tenure' = [k \in Usable |-> IF k \in keys \cap served.keys
                                      THEN tenure[k] ELSE 0]
  BY DEF Rotate
<1>2. /\ served \in KeySets /\ served.version < MaxVersion
      /\ UNCHANGED <<cache, age, request>>
      /\ request \in [Requests -> RequestRows] /\ cache \in KeyMaps /\ age \in Nat
      /\ tenure \in [Usable -> 0..Settled]
  BY TimesAssumption DEF Rotate, IInv, TypeOK
<1>3. served' \in KeySets /\ served'.version = served.version + 1
  BY <1>1, <1>2, KidsAssumption, TimesAssumption DEF KeySets
<1>4. tenure' \in [Usable -> 0..Settled]
  BY <1>1, <1>2, TimesAssumption DEF Settled
<1>5. \A k \in Usable : /\ tenure'[k] = tenure[k] \/ tenure'[k] = 0
                        /\ tenure'[k] > 0 => k \in served'.keys
  BY <1>1
<1>6. TypeOK'
  BY <1>2, <1>3, <1>4 DEF IInv, TypeOK
<1>7. Past'
  <2>1. cache'.version <= served'.version
    BY <1>2, <1>3 DEF IInv, Past, KeySets, KeyMaps
  <2>2. \A r \in Requests : request'[r].answer.version <= served'.version
    BY <1>2, <1>3 DEF IInv, Past, KeySets, KeyMaps, RequestRows
  <2> QED
    BY <1>5, <2>1, <2>2 DEF Past
<1>8. AnswersComplete'
  BY <1>2, <1>5, TimesAssumption DEF IInv, AnswersComplete, RequestRows
<1>9. CacheComplete'
  BY <1>2, <1>5, TimesAssumption DEF IInv, CacheComplete
<1>10. SecondLookupComplete'
  BY <1>2, <1>5, TimesAssumption DEF IInv, SecondLookupComplete, RequestRows
<1>11. OvertakenLately'
  BY <1>2 DEF IInv, OvertakenLately
<1> QED
  BY <1>6, <1>7, <1>8, <1>9, <1>10, <1>11 DEF IInv

LEMMA TickKeeps == ASSUME IInv, Tick PROVE IInv'
<1>1. /\ request \in [Requests -> RequestRows] /\ age \in 0..Window
      /\ tenure \in [Usable -> 0..Settled] /\ UNCHANGED <<served, cache>>
  BY DEF IInv, TypeOK, Tick
<1>2. age' \in 0..Window /\ age <= age' /\ age' <= age + 1
      /\ (age' < Window => age' = age + 1)
  BY <1>1, TimesAssumption DEF Tick
<1>3. /\ tenure' \in [Usable -> 0..Settled]
      /\ \A k \in Usable : /\ tenure'[k] > 0 => k \in served.keys
                           /\ tenure'[k] <= tenure[k] + 1
                           /\ tenure'[k] < Settled \/ tenure[k] + 1 >= Settled
  BY <1>1, TimesAssumption DEF Tick, Settled, IInv, Past
<1>4. \A r \in Requests :
        /\ request'[r].pc = request[r].pc /\ request'[r].answer = request[r].answer
        /\ UnderWay(r) => /\ request'[r].busy = request[r].busy + 1
                          /\ request[r].busy < FetchTime
  BY DEF Tick
<1>5. request' \in [Requests -> RequestRows]
  BY <1>1, TimesAssumption DEF Tick, RequestRows
<1>6. TypeOK' /\ Past'
  BY <1>1, <1>2, <1>3, <1>4, <1>5 DEF IInv, TypeOK, Past
<1>7. \A r \in Requests : request[r].busy \in 0..FetchTime
  BY <1>1 DEF RequestRows
<1>8. AnswersComplete'
  BY <1>1, <1>3, <1>4, <1>7, TimesAssumption DEF IInv, AnswersComplete, UnderWay
<1>9. CacheComplete'
  BY <1>1, <1>2, <1>3, TimesAssumption DEF IInv, CacheComplete
<1>10. SecondLookupComplete'
  BY <1>1, <1>3, <1>4, <1>7, TimesAssumption DEF IInv, SecondLookupComplete, UnderWay
<1>11. OvertakenLately'
  BY <1>1, <1>2, <1>4, <1>7, TimesAssumption DEF IInv, OvertakenLately, UnderWay
<1> QED
  BY <1>6, <1>8, <1>9, <1>10, <1>11 DEF IInv

LEMMA RestartKeeps == ASSUME IInv, Restart PROVE IInv'
BY TimesAssumption
   DEF IInv, Restart, TypeOK, Past, AnswersComplete, CacheComplete,
       SecondLookupComplete, OvertakenLately, KeySets, KeyMaps, RequestRows, Pcs,
       Idle, Empty

LEMMA StepKeeps == IInv /\ [Next]_vars => IInv'
<1> SUFFICES ASSUME IInv, [Next]_vars PROVE IInv'
  OBVIOUS
<1>1. ASSUME NEW r \in Requests, Serve(r) PROVE IInv'
  <2>1. CASE FetchFails(r)
    BY <2>1, EndKeeps DEF FetchFails
  <2>2. CASE LookupAgain(r)
    BY <2>2, EndKeeps DEF LookupAgain
  <2> QED
    BY <1>1, <2>1, <2>2, CheckKeeps, AnswerKeeps, StoreKeeps DEF Serve
<1>2. CASE UNCHANGED vars
  BY <1>2
     DEF vars, IInv, TypeOK, Past, AnswersComplete, CacheComplete,
         SecondLookupComplete, OvertakenLately
<1> QED
  BY <1>1, <1>2, LookupKeeps, RotateKeeps, TickKeeps, RestartKeeps DEF Next

LEMMA Invariant == Spec => []IInv
BY InitInv, StepKeeps, PTL DEF Spec

-----------------------------------------------------------------------------
(* The theorems.                                                            *)

\* What is cached, answered and counted has its type: no key of another type
\* than RSA, nor one that cannot be decoded, is in the map.
THEOREM TypeCorrect == Spec => []TypeOK
<1>1. IInv => TypeOK
  BY DEF IInv
<1> QED
  BY <1>1, Invariant, PTL

\* Of answers that overtake one another the older is never stored over the newer.
THEOREM KeysNeverStepBack == Spec => NoStepBack
<1>1. IInv /\ [Next]_vars => NoOlder
  <2> SUFFICES ASSUME IInv, [Next]_vars, age' = 0, cache' # cache, cache.keys # {}
               PROVE  cache'.version >= cache.version
    BY DEF NoOlder
  <2>1. Window > 0 /\ cache \in KeyMaps
    BY TimesAssumption DEF IInv, TypeOK
  <2>2. PICK r \in Requests : Store(r)
    BY <2>1 DEF Next, Serve, vars, Lookup, CheckRecent, Answer, FetchFails,
                LookupAgain, Rotate, Tick, Restart
  <2>3. request[r].pc = "store" /\ cache' = request[r].answer /\ ~(age < Window)
    BY <2>2 DEF Store, Recent
  <2>4. request[r].busy < Window /\ age \in Nat /\ request[r].busy \in Nat
        /\ request[r].answer.version \in Nat /\ cache.version \in Nat
    BY TimesAssumption DEF IInv, TypeOK, RequestRows, KeyMaps
  <2> QED
    BY <2>3, <2>4, TimesAssumption DEF IInv, OvertakenLately
<1> QED
  BY <1>1, Invariant, PTL DEF Spec, NoStepBack

\* Only a key that was not yet served for the window and twice the time of a
\* request is refused as not found.
THEOREM OnlyNewKeysAreRefused == Spec => RefusedIsNew
<1>1. IInv /\ [Next]_vars => RefusesNew
  <2> SUFFICES ASSUME IInv, [Next]_vars, NEW r \in Requests,
                      request[r].pc = "again", request'[r].pc = "notFound",
                      request[r].kid \in Usable
               PROVE  tenure[request[r].kid] < Settled
    BY DEF RefusesNew
  <2>1. request \in [Requests -> RequestRows]
    BY DEF IInv, TypeOK
  <2>2. LookupAgain(r)
    BY <2>1 DEF Next, Serve, vars, Lookup, CheckRecent, Answer, FetchFails,
                Store, LookupAgain, Rotate, Tick, Restart, Goto, End, Idle
  <2>3. request[r].kid \notin cache.keys
    BY <2>1, <2>2 DEF LookupAgain, End
  <2>4. ~(tenure[request[r].kid] + 1 > Window + FetchTime + request[r].busy)
    BY <2>3 DEF IInv, SecondLookupComplete
  <2>5. request[r].busy \in 0..FetchTime /\ tenure[request[r].kid] \in Nat
    BY <2>1, TimesAssumption DEF RequestRows, IInv, TypeOK, Settled
  <2> QED
    BY <2>4, <2>5, TimesAssumption DEF Settled
<1> QED
  BY <1>1, Invariant, PTL DEF Spec, RefusedIsNew
=============================================================================
