------------------------------ MODULE JwksCache ------------------------------
(* The cache of the identity provider's public keys (middleware/auth.go):     *)
(* getPublicKey and fetchJWKS, run by any number of requests at once over one *)
(* RWMutex.  A step is a critical section, the answer of the endpoint, or its *)
(* failure; between two steps of a request others run, keys are rotated, time *)
(* passes or the process is restarted.                                        *)
EXTENDS Naturals

CONSTANTS
  Requests,     \* requests with an RS256 token
  Kids,         \* key ids
  Published,    \* the sets of them that the endpoint may serve
  Usable,       \* those of RSA keys that can be decoded
  Window,       \* ticks for which fetches are limited: the five minutes
  FetchTime,    \* ticks from the first check of a request to its end, at most:
                \* the client's five seconds, rounded up
  MaxVersion,   \* bound on the rotations
  NoKid

ASSUME KidsAssumption ==
  Usable \subseteq Kids /\ Published \subseteq SUBSET Kids /\ NoKid \notin Kids
ASSUME TimesAssumption ==
  /\ Window \in Nat /\ FetchTime \in Nat /\ MaxVersion \in Nat
  /\ FetchTime < Window /\ MaxVersion > 0

VARIABLES
  served,    \* the key set at the endpoint and how often it was replaced
  tenure,    \* ticks for which each key id has been served without a break
  cache,     \* jwksKeys, with the version it was built from
  age,       \* time.Since(lastFetch), at most Window
  request    \* the requests between two steps

vars == <<served, tenure, cache, age, request>>

-----------------------------------------------------------------------------
KeySets == [version : 1..MaxVersion, keys : SUBSET Kids]

\* A map that fetchJWKS has built, or the empty one.
KeyMaps == [version : 0..MaxVersion, keys : SUBSET Usable]

Empty == [version |-> 0, keys |-> {}]

Pcs == {"idle", "check", "fetch", "store", "again",
        "accepted", "notFound", "failed"}

RequestRows == [pc : Pcs, kid : Kids \cup {NoKid}, answer : KeyMaps,
                busy : 0..FetchTime]

Idle == [pc |-> "idle", kid |-> NoKid, answer |-> Empty, busy |-> 0]

\* Between the first check and the end of getPublicKey.
UnderWay(r) == request[r].pc \in {"fetch", "store", "again"}

\* A key served for so long is found: the window and twice the longest request.
Settled == Window + 2 * FetchTime

TypeOK ==
  /\ served \in KeySets
  /\ tenure \in [Usable -> 0..Settled]
  /\ cache \in KeyMaps
  /\ age \in 0..Window
  /\ request \in [Requests -> RequestRows]

\* lastFetch is the zero time, and jwksKeys an empty map.
Init ==
  /\ served \in [version : {1}, keys : Published]
  /\ tenure = [k \in Usable |-> 0]
  /\ cache = Empty
  /\ age = Window
  /\ request = [r \in Requests |-> Idle]

\* Slip of Parsed: the type of a key is not looked at.
ParsedAll(set) == set

\* What fetchJWKS makes of the endpoint's answer.
Parsed(set) == [version |-> set.version, keys |-> set.keys \cap Usable]

\* Slip of Recent: the time is forgotten.
RecentForever == cache.keys # {}

\* "time.Since(lastFetch) < 5*time.Minute && hasKeys", in both checks.
Recent == age < Window /\ cache.keys # {}

Goto(r, pc) ==
  request' = [request EXCEPT ![r] = [pc |-> pc, kid |-> request[r].kid,
              answer |-> request[r].answer, busy |-> request[r].busy]]

End(r, outcome) ==
  request' = [request EXCEPT ![r] = [pc |-> outcome, kid |-> request[r].kid,
              answer |-> Empty, busy |-> 0]]

-----------------------------------------------------------------------------
(* getPublicKey.                                                             *)

\* A new request: the first lookup, under RLock.
Lookup(r, k) ==
  /\ request[r].pc \in {"idle", "accepted", "notFound", "failed"}
  /\ request' = [request EXCEPT ![r] =
                   [pc |-> IF k \in cache.keys THEN "accepted" ELSE "check",
                    kid |-> k, answer |-> Empty, busy |-> 0]]
  /\ UNCHANGED <<served, tenure, cache, age>>

\* fetchJWKS, the first check under RLock.
CheckRecent(r) ==
  /\ request[r].pc = "check"
  /\ Goto(r, IF Recent THEN "again" ELSE "fetch")
  /\ UNCHANGED <<served, tenure, cache, age>>

\* The endpoint answers 200 with its keys of this moment.  That a body of JSON
\* with status 200 is its key set is assumed: {} would be stored as one without
\* keys.
Answer(r) ==
  /\ request[r].pc = "fetch"
  /\ request' = [request EXCEPT ![r] =
                   [pc |-> "store", kid |-> request[r].kid,
                    answer |-> Parsed(served), busy |-> request[r].busy]]
  /\ UNCHANGED <<served, tenure, cache, age>>

\* No answer in five seconds, another status, or a body that cannot be decoded.
FetchFails(r) ==
  /\ request[r].pc = "fetch"
  /\ End(r, "failed")
  /\ UNCHANGED <<served, tenure, cache, age>>

\* Slip of Store: no second check.
StoreUnchecked(r) ==
  /\ request[r].pc = "store"
  /\ cache' = request[r].answer
  /\ age' = 0
  /\ Goto(r, "again")
  /\ UNCHANGED <<served, tenure>>

\* Slip of Store: a discarded answer counts as a fetch.
StoreTouches(r) ==
  /\ request[r].pc = "store"
  /\ cache' = IF Recent THEN cache ELSE request[r].answer
  /\ age' = 0
  /\ Goto(r, "again")
  /\ UNCHANGED <<served, tenure>>

\* The second check and the update, under Lock.
Store(r) ==
  /\ request[r].pc = "store"
  /\ \/ /\ Recent
        /\ UNCHANGED <<cache, age>>
     \/ /\ ~Recent
        /\ cache' = request[r].answer
        /\ age' = 0
  /\ Goto(r, "again")
  /\ UNCHANGED <<served, tenure>>

\* The second lookup, under RLock.
LookupAgain(r) ==
  /\ request[r].pc = "again"
  /\ End(r, IF request[r].kid \in cache.keys THEN "accepted" ELSE "notFound")
  /\ UNCHANGED <<served, tenure, cache, age>>

-----------------------------------------------------------------------------
(* The rest of the world.                                                    *)

Rotate ==
  /\ served.version < MaxVersion
  /\ \E keys \in Published :
       /\ served' = [version |-> served.version + 1, keys |-> keys]
       /\ tenure' = [k \in Usable |-> IF k \in keys \cap served.keys
                                    THEN tenure[k] ELSE 0]
  /\ UNCHANGED <<cache, age, request>>

\* A tick passes; no request outlives its FetchTime.
Tick ==
  /\ \A r \in Requests : UnderWay(r) => request[r].busy < FetchTime
  /\ age' = IF age < Window THEN age + 1 ELSE age
  /\ tenure' = [k \in Usable |-> IF k \in served.keys /\ tenure[k] < Settled
                               THEN tenure[k] + 1 ELSE tenure[k]]
  /\ request' = [r \in Requests |->
                   [pc |-> request[r].pc, kid |-> request[r].kid,
                    answer |-> request[r].answer,
                    busy |-> IF UnderWay(r) THEN request[r].busy + 1
                             ELSE request[r].busy]]
  /\ UNCHANGED <<served, cache>>

\* The process is stopped, or crashes, and is started again.
Restart ==
  /\ cache' = Empty
  /\ age' = Window
  /\ request' = [r \in Requests |-> Idle]
  /\ UNCHANGED <<served, tenure>>

Serve(r) ==
  \/ CheckRecent(r)
  \/ Answer(r)
  \/ FetchFails(r)
  \/ Store(r)
  \/ LookupAgain(r)

Next ==
  \/ \E r \in Requests, k \in Kids : Lookup(r, k)
  \/ \E r \in Requests : Serve(r)
  \/ Rotate
  \/ Tick
  \/ Restart

Spec == Init /\ [][Next]_vars

(* Goroutines run and time passes.  Not every fetch fails, and the process is *)
(* not restarted each time that a request waits at one step.                  *)
FairSpec ==
  /\ Spec
  /\ WF_vars(Tick)
  /\ \A r \in Requests : SF_vars(Serve(r))
  /\ SF_vars(\E r \in Requests : Answer(r))
  /\ SF_vars(\E r \in Requests : Store(r))

-----------------------------------------------------------------------------
(* Properties.                                                               *)

\* An answer that is stored is no older than the set it replaces.
NoOlder ==
  age' = 0 /\ cache' # cache /\ cache.keys # {}
    => cache'.version >= cache.version

\* Requests fetch outside the lock, so answers overtake one another.  A set of
\* keys is nevertheless never replaced by one the endpoint served earlier: of
\* two fetches that overlapped only the first to come back is stored.
NoStepBack == [][NoOlder]_vars

\* A request whose second lookup fails asked for a key that is new or unknown.
RefusesNew ==
  \A r \in Requests :
    /\ request[r].pc = "again" /\ request'[r].pc = "notFound"
    /\ request[r].kid \in Usable
    => tenure[request[r].kid] < Settled

\* A key is refused as "not found in JWKS" only in its first minutes: not once
\* it has been served for the five minutes and twice the time of a request,
\* whatever was fetched, discarded or overtaken in between.
RefusedIsNew == [][RefusesNew]_vars

\* A key that is served from some time on comes to be cached, again and again
\* if need be, when requests that miss it keep coming.
ServedIsFound ==
  \A k \in Usable :
    /\ <>[](k \in served.keys)
    /\ []<>(\E r \in Requests : request[r].pc = "check" /\ request[r].kid = k)
    => []<>(k \in cache.keys)
=============================================================================
