--------------------------- MODULE JwksCacheProofs ---------------------------
(***************************************************************************)
(* Theorems about JwksCache, for any set of requests and of keys and any   *)
(* times.                                                                  *)
(*                                                                         *)
(* A document is as old as the answer it came with, not as its store: what *)
(* bounds its use is that the lock is held from the request to GitHub to   *)
(* the store (HolderInv), so that a store never falls into another fetch   *)
(* (FetchInv), and that a fetch does not take longer than FetchTime.       *)
(***************************************************************************)
EXTENDS JwksCache, TLAPS

Fetching(r) == request[r].phase \in {"fetching", "answered"}

(* Every key of a document that was read at time t is still published, or  *)
(* was so at t.                                                            *)
Timely(keys, t) == \A k \in keys : k \in document \/ t <= retired[k]

(* The cache was stored soon after it was read.                            *)
CacheInv ==
    /\ cache.sampled <= cache.at /\ cache.at <= now
    /\ cache.at <= cache.sampled + FetchTime
    /\ Timely(cache.keys, cache.sampled)

HolderInv == \A r \in Requests : Fetching(r) => holder = r

(* The cache has not changed since the fetch began, and that is not long.  *)
FetchInv ==
    \A r \in Requests : Fetching(r) =>
        /\ cache.at <= request[r].since /\ request[r].since <= now
        /\ now <= request[r].since + FetchTime

AnswerInv ==
    \A r \in Requests : request[r].phase = "answered" =>
        /\ request[r].since <= request[r].sampled /\ request[r].sampled <= now
        /\ Timely(request[r].keys, request[r].sampled)

(* A key that has been published all the time is in the answer.            *)
SteadyInv ==
    \A r \in Requests :
        /\ request[r].phase \in {"idle", "first"} => ~request[r].force
        /\ request[r].phase \in {"first", "forced", "fetching", "answered"} /\ request[r].steady
            => request[r].token.kid \in document
        /\ request[r].phase = "answered" /\ request[r].steady
            => request[r].token.kid \in request[r].keys
        /\ request[r].phase = "rejected" /\ request[r].reason = "key" => ~request[r].steady

KeyInv == TypeOK /\ CacheInv /\ HolderInv /\ FetchInv /\ AnswerInv /\ SteadyInv

-----------------------------------------------------------------------------
(* What becomes of a request.                                              *)

(* Become changes one request.                                             *)
LEMMA Update ==
    ASSUME TypeOK, NEW r \in Requests, NEW q \in Request, Become(r, q)
    PROVE  /\ request' \in [Requests -> Request]
           /\ request'[r] = q
           /\ \A t \in Requests \ {r} : request'[t] = request[t]
BY DEF TypeOK, Become

(* A request that is refused keeps its key, and that it was steady only if *)
(* it was refused for the key.                                             *)
LEMMA RejectForm ==
    ASSUME NEW q \in Request, NEW reason \in Reasons
    PROVE  /\ Reject(q, reason) \in Request
           /\ Reject(q, reason).phase = "rejected"
           /\ Reject(q, reason).reason = reason
           /\ Reject(q, reason).token.kid = q.token.kid
           /\ Reject(q, reason).steady => q.steady /\ reason = "key"
BY DEF Reject, Waiting, Request, Token, Phases, Reasons

(* Nothing else is refused for the key than a key that is not in a         *)
(* document that was fetched for it, and only a key in it is accepted.     *)
LEMMA JudgeForm ==
    ASSUME NEW q \in Request, NEW keys \in SUBSET Keys
    PROVE  /\ Judge(q, keys) \in Request
           /\ Judge(q, keys).phase \in {"forced", "rejected", "accepted"}
           /\ Judge(q, keys).token.kid = q.token.kid
           /\ Judge(q, keys).phase = "forced" /\ Judge(q, keys).steady => q.steady
           /\ Judge(q, keys).phase = "accepted" => q.token.kid \in keys
           /\ Judge(q, keys).phase = "rejected" /\ Judge(q, keys).reason = "key"
                /\ Judge(q, keys).steady => q.steady /\ q.force /\ q.token.kid \notin keys
<1> USE CacheAssumption
<1>1. CASE q.token.kid \notin keys /\ q.force
  BY <1>1, RejectForm DEF Judge, Reasons
<1>2. CASE q.token.kid \notin keys /\ ~q.force
  <2> DEFINE j == [q EXCEPT !.phase = "forced", !.force = TRUE]
  <2>1. j \in Request
    BY DEF Request, Phases
  <2>2. j.phase = "forced" /\ j.token = q.token /\ j.steady = q.steady
    BY DEF Request
  <2>3. Judge(q, keys) = j
    BY <1>2 DEF Judge
  <2>. QED BY <2>1, <2>2, <2>3
<1>3. CASE q.token.kid \in keys /\ q.token.fails # "nothing"
  <2>1. q.token.fails \in Reasons /\ q.token.fails # "key"
    BY <1>3 DEF Request, Token, Reasons
  <2>2. Judge(q, keys) = Reject(q, q.token.fails)
    BY <1>3 DEF Judge
  <2>. QED BY <2>1, <2>2, RejectForm
<1>4. CASE q.token.kid \in keys /\ q.token.fails = "nothing"
  <2> DEFINE n == Reject(q, "none")
             j == [n EXCEPT !.phase = "accepted"]
  <2>1. n \in Request /\ n.token.kid = q.token.kid
    BY RejectForm DEF Reasons
  <2> HIDE DEF n
  <2>2. j \in Request
    BY <2>1 DEF Request, Phases
  <2>3. j.phase = "accepted" /\ j.token = n.token
    BY <2>1 DEF Request
  <2>4. Judge(q, keys) = j
    BY <1>4 DEF Judge, n
  <2>. QED BY <1>4, <2>1, <2>2, <2>3, <2>4
<1>. QED BY <1>1, <1>2, <1>3, <1>4

(* What a step of a request leaves to the others.                          *)
Others(r) ==
    /\ request' \in [Requests -> Request]
    /\ \A t \in Requests \ {r} : request'[t] = request[t]

(* A request begins with what GitHub publishes, or ends at its header.     *)
LEMMA BeginEffect ==
    ASSUME TypeOK, NEW r \in Requests, Begin(r)
    PROVE  /\ Others(r)
           /\ request[r].phase = "idle"
           /\ \/ /\ request'[r].phase = "first"
                 /\ request'[r].force = request[r].force
                 /\ request'[r].steady => request'[r].token.kid \in document
              \/ request'[r].phase = "rejected" /\ request'[r].reason = "header"
<1> USE CacheAssumption
<1>0. request[r] \in Request /\ request[r].phase = "idle"
  BY DEF TypeOK, Begin
<1>1. PICK fails \in Defects :
        Become(r, IF fails = "header" THEN Reject(request[r], "header")
                  ELSE [request[r] EXCEPT !.phase = "first",
                                          !.token = [kid |-> @.kid, fails |-> fails],
                                          !.steady = request[r].token.kid \in document])
  BY DEF Begin
<1>2. CASE fails = "header"
  <2>1. Become(r, Reject(request[r], "header"))
    BY <1>1, <1>2
  <2>2. "header" \in Reasons
    BY DEF Reasons
  <2>. QED BY <1>0, <2>1, <2>2, RejectForm, Update DEF Others
<1>3. CASE fails # "header"
  <2> DEFINE known == request[r].token.kid \in document
             token == [kid |-> request[r].token.kid, fails |-> fails]
             next == [request[r] EXCEPT !.phase = "first", !.token = token, !.steady = known]
  <2>1. token \in Token /\ known \in BOOLEAN /\ token.kid = request[r].token.kid
    BY <1>0 DEF Request, Token
  <2>2. Become(r, next)
    BY <1>1, <1>3
  <2>3. known => token.kid \in document
    BY <2>1
  <2> HIDE DEF known, token
  <2>4. next \in Request
    BY <1>0, <2>1 DEF Request, Phases
  <2>5. next.phase = "first" /\ next.force = request[r].force /\ next.token = token
    BY <1>0 DEF Request
  <2>6. next.steady = known
    BY <1>0 DEF Request
  <2> HIDE DEF next
  <2>. QED BY <1>0, <2>2, <2>3, <2>4, <2>5, <2>6, Update DEF Others
<1>. QED BY <1>2, <1>3

(* What a request makes of the keys it was given.                          *)
Judged(r, keys) ==
    /\ Others(r)
    /\ request'[r].phase \in {"forced", "rejected", "accepted"}
    /\ request'[r].token.kid = request[r].token.kid
    /\ request'[r].phase = "forced" /\ request'[r].steady => request[r].steady
    /\ request'[r].phase = "accepted" => request[r].token.kid \in keys
    /\ request'[r].phase = "rejected" /\ request'[r].reason = "key" /\ request'[r].steady
        => request[r].steady /\ request[r].force /\ request[r].token.kid \notin keys

(* The keys of the cache are judged by while they are fresh.               *)
LEMMA UseCacheEffect ==
    ASSUME TypeOK, NEW r \in Requests, UseCache(r)
    PROVE  /\ Judged(r, cache.keys)
           /\ request[r].phase = "first" /\ Fresh
           /\ UNCHANGED <<now, document, retired, cache, holder, rotations>>
<1>1. request[r] \in Request /\ cache.keys \in SUBSET Keys
  BY DEF TypeOK
<1>2. Become(r, Judge(request[r], cache.keys))
  BY DEF UseCache
<1>. QED BY <1>1, <1>2, JudgeForm, Update DEF UseCache, Judged, Others

(* A fetch takes the lock.                                                 *)
LEMMA StartFetchEffect ==
    ASSUME TypeOK, NEW r \in Requests, StartFetch(r)
    PROVE  /\ Others(r)
           /\ holder = Nobody /\ holder' = r
           /\ request[r].phase \in {"first", "forced"} /\ request'[r].phase = "fetching"
           /\ request'[r].since = now
           /\ request'[r].token = request[r].token /\ request'[r].steady = request[r].steady
           /\ UNCHANGED <<now, document, retired, cache, rotations>>
<1> USE CacheAssumption
<1>0. request[r] \in Request /\ now \in Nat
  BY DEF TypeOK
<1> DEFINE next == [request[r] EXCEPT !.phase = "fetching", !.since = now]
<1>1. Become(r, next)
  BY DEF StartFetch
<1>2. next \in Request
  BY <1>0 DEF Request, Phases
<1>3. /\ next.phase = "fetching" /\ next.since = now
      /\ next.token = request[r].token /\ next.steady = request[r].steady
  BY <1>0 DEF Request
<1> HIDE DEF next
<1>. QED BY <1>1, <1>2, <1>3, Update DEF StartFetch, Others

(* An answer is what GitHub publishes at the time.                         *)
LEMMA AnswerEffect ==
    ASSUME TypeOK, NEW r \in Requests, Answer(r)
    PROVE  /\ Others(r)
           /\ request[r].phase = "fetching" /\ request'[r].phase = "answered"
           /\ request'[r].since = request[r].since
           /\ request'[r].sampled = now /\ request'[r].keys = document
           /\ request'[r].token = request[r].token /\ request'[r].steady = request[r].steady
           /\ UNCHANGED <<now, document, retired, cache, holder, rotations>>
<1> USE CacheAssumption
<1>0. request[r] \in Request /\ now \in Nat /\ document \in SUBSET Keys
  BY DEF TypeOK
<1> DEFINE next == [request[r] EXCEPT !.phase = "answered", !.keys = document, !.sampled = now]
<1>1. Become(r, next)
  BY DEF Answer
<1>2. next \in Request
  BY <1>0 DEF Request, Phases
<1>3. /\ next.phase = "answered" /\ next.since = request[r].since
      /\ next.sampled = now /\ next.keys = document
      /\ next.token = request[r].token /\ next.steady = request[r].steady
  BY <1>0 DEF Request
<1> HIDE DEF next
<1>. QED BY <1>1, <1>2, <1>3, Update DEF Answer, Others

(* The answer becomes the cache and is judged by.                          *)
LEMMA StoreEffect ==
    ASSUME TypeOK, NEW r \in Requests, Store(r)
    PROVE  /\ Judged(r, request[r].keys)
           /\ request[r].phase = "answered" /\ holder' = Nobody
           /\ cache' = [at |-> now, keys |-> request[r].keys,
                        sampled |-> request[r].sampled, filled |-> TRUE]
           /\ UNCHANGED <<now, document, retired, rotations>>
<1>1. request[r] \in Request /\ request[r].keys \in SUBSET Keys
  BY DEF TypeOK, Request
<1>2. Become(r, Judge(request[r], request[r].keys))
  BY DEF Store
<1>. QED BY <1>1, <1>2, JudgeForm, Update DEF Store, Judged, Others

(* A fetch that fails gives the lock back and ends the request.            *)
LEMMA FetchFailsEffect ==
    ASSUME TypeOK, NEW r \in Requests, FetchFails(r)
    PROVE  /\ Others(r)
           /\ Fetching(r) /\ holder' = Nobody
           /\ request'[r].phase = "rejected" /\ request'[r].reason = "fetch"
           /\ UNCHANGED <<now, document, retired, cache, rotations>>
<1>1. request[r] \in Request /\ "fetch" \in Reasons
  BY DEF TypeOK, Reasons
<1>2. Become(r, Reject(request[r], "fetch"))
  BY DEF FetchFails
<1>. QED BY <1>1, <1>2, RejectForm, Update DEF FetchFails, Others, Fetching

(* A rotation leaves a request alone, but for what it is steady about.     *)
LEMMA RotateEffect ==
    ASSUME TypeOK, Rotate
    PROVE  /\ request' \in [Requests -> Request]
           /\ \A r \in Requests :
                /\ request'[r].phase = request[r].phase
                /\ request'[r].since = request[r].since
                /\ request'[r].sampled = request[r].sampled
                /\ request'[r].keys = request[r].keys
                /\ request'[r].token = request[r].token
                /\ request'[r].force = request[r].force
                /\ request'[r].reason = request[r].reason
                /\ request'[r].steady => request[r].steady
                /\ request[r].phase \notin {"accepted", "rejected"} /\ request'[r].steady
                    => request[r].token.kid \in document'
<1>1. PICK keys \in (SUBSET Keys) \ {{}, document} :
        /\ document' = keys
        /\ request' = [r \in Requests |->
                IF request[r].phase \in {"accepted", "rejected"} THEN request[r]
                ELSE [request[r] EXCEPT !.steady = @ /\ request[r].token.kid \in keys]]
  BY DEF Rotate
<1>2. ASSUME NEW r \in Requests
      PROVE  /\ request'[r] \in Request
             /\ request'[r].phase = request[r].phase
             /\ request'[r].since = request[r].since
             /\ request'[r].sampled = request[r].sampled
             /\ request'[r].keys = request[r].keys
             /\ request'[r].token = request[r].token
             /\ request'[r].force = request[r].force
             /\ request'[r].reason = request[r].reason
             /\ request'[r].steady => request[r].steady
             /\ request[r].phase \notin {"accepted", "rejected"} /\ request'[r].steady
                  => request[r].token.kid \in document'
  <2>0. request[r] \in Request
    BY DEF TypeOK
  <2>1. CASE request[r].phase \in {"accepted", "rejected"}
    <3>1. request'[r] = request[r]
      BY <1>1, <2>1
    <3>. QED BY <2>0, <2>1, <3>1
  <2>2. CASE request[r].phase \notin {"accepted", "rejected"}
    <3> DEFINE still == request[r].steady /\ request[r].token.kid \in keys
               next == [request[r] EXCEPT !.steady = still]
    <3>1. request'[r] = next
      BY <1>1, <2>2
    <3>2. still \in BOOLEAN /\ (still => request[r].steady)
            /\ (still => request[r].token.kid \in document')
      BY <1>1
    <3> HIDE DEF still
    <3>3. next \in Request
      BY <2>0, <3>2 DEF Request
    <3>4. /\ next.phase = request[r].phase /\ next.since = request[r].since
          /\ next.sampled = request[r].sampled /\ next.keys = request[r].keys
          /\ next.token = request[r].token /\ next.force = request[r].force
          /\ next.reason = request[r].reason
      BY <2>0 DEF Request
    <3>5. next.steady = still
      BY <2>0 DEF Request
    <3> HIDE DEF next
    <3>. QED BY <3>1, <3>2, <3>3, <3>4, <3>5
  <2>. QED BY <2>1, <2>2
<1>3. request' = [r \in Requests |-> request'[r]]
  BY <1>1
<1>. QED BY <1>2, <1>3

(* Every step is of a kind of its own.                                     *)
LEMMA Cases ==
    ASSUME Next
    PROVE  \/ Rotate \/ Tick
           \/ \E r \in Requests :
                \/ Begin(r) \/ UseCache(r) \/ StartFetch(r) \/ Answer(r) \/ Store(r) \/ FetchFails(r)
BY DEF Next, Proceed

(* Only the clock ticks, and only a store changes the cache.               *)
LEMMA Frame ==
    ASSUME Next
    PROVE  /\ now' = now \/ Tick
           /\ cache' = cache \/ \E r \in Requests : Store(r)
<1>1. Rotate \/ Tick => cache' = cache /\ (now' = now \/ Tick)
  BY DEF Rotate, Tick
<1>2. ASSUME NEW r \in Requests, Begin(r) \/ UseCache(r) \/ StartFetch(r)
      PROVE  cache' = cache /\ now' = now
  BY <1>2 DEF Begin, UseCache, StartFetch
<1>3. ASSUME NEW r \in Requests, Answer(r) \/ FetchFails(r)
      PROVE  cache' = cache /\ now' = now
  BY <1>3 DEF Answer, FetchFails
<1>4. ASSUME NEW r \in Requests, Store(r)
      PROVE  now' = now
  BY <1>4 DEF Store
<1>. QED BY <1>1, <1>2, <1>3, <1>4, Cases

-----------------------------------------------------------------------------
(* Types and times.                                                        *)

(* The clock and the times that are kept keep their ranges.                *)
LEMMA TypeOKStep ==
    ASSUME TypeOK, AnswerInv, Next
    PROVE  TypeOK'
<1> USE CacheAssumption
<1>1. CASE Rotate
  BY <1>1, RotateEffect DEF TypeOK, Rotate
<1>2. CASE Tick
  BY <1>2 DEF TypeOK, Tick
<1>3. ASSUME NEW r \in Requests, Begin(r) PROVE TypeOK'
  BY <1>3, BeginEffect DEF TypeOK, Begin, Others
<1>4. ASSUME NEW r \in Requests, UseCache(r) PROVE TypeOK'
  BY <1>4, UseCacheEffect DEF TypeOK, Judged, Others
<1>5. ASSUME NEW r \in Requests, StartFetch(r) PROVE TypeOK'
  BY <1>5, StartFetchEffect DEF TypeOK, Others
<1>6. ASSUME NEW r \in Requests, Answer(r) PROVE TypeOK'
  BY <1>6, AnswerEffect DEF TypeOK, Others
<1>7. ASSUME NEW r \in Requests, Store(r) PROVE TypeOK'
  <2>1. request[r].keys \in SUBSET Keys /\ request[r].sampled \in 0 .. MaxTime
    <3>1. request[r] \in Request /\ now \in 0 .. MaxTime /\ request[r].sampled <= now
      BY <1>7, StoreEffect DEF TypeOK, AnswerInv
    <3>. QED BY <3>1 DEF Request
  <2>2. cache' \in [at : 0 .. MaxTime, keys : SUBSET Keys, sampled : 0 .. MaxTime,
                    filled : BOOLEAN]
    <3>1. now \in 0 .. MaxTime
      BY DEF TypeOK
    <3>2. cache' = [at |-> now, keys |-> request[r].keys,
                    sampled |-> request[r].sampled, filled |-> TRUE]
      BY <1>7, StoreEffect
    <3>. QED BY <2>1, <3>1, <3>2
  <2>3. /\ request' \in [Requests -> Request] /\ holder' = Nobody
        /\ UNCHANGED <<now, document, retired, rotations>>
    BY <1>7, StoreEffect DEF Judged, Others
  <2>. QED BY <2>2, <2>3 DEF TypeOK
<1>8. ASSUME NEW r \in Requests, FetchFails(r) PROVE TypeOK'
  BY <1>8, FetchFailsEffect DEF TypeOK, Others
<1>. QED BY <1>1, <1>2, <1>3, <1>4, <1>5, <1>6, <1>7, <1>8, Cases

(* What was published at a time was so ever after.                         *)
LEMMA TimelyKept ==
    ASSUME TypeOK, Next, NEW keys \in SUBSET Keys, NEW t \in Nat, t <= now, Timely(keys, t)
    PROVE  /\ \A k \in keys : k \in document' \/ t <= retired'[k]
           /\ now <= now'
<1> USE CacheAssumption
<1>1. CASE Rotate
  <2>1. ASSUME NEW k \in keys PROVE k \in document' \/ t <= retired'[k]
    <3>1. retired'[k] = IF k \in document' THEN 0 ELSE IF k \in document THEN now ELSE retired[k]
      BY <1>1 DEF Rotate
    <3>. QED BY <3>1 DEF Timely
  <2>. QED BY <1>1, <2>1 DEF Rotate, TypeOK
<1>2. CASE Tick
  BY <1>2 DEF Tick, Timely, TypeOK
<1>3. ASSUME NEW r \in Requests,
             \/ Begin(r) \/ UseCache(r) \/ StartFetch(r) \/ Answer(r) \/ Store(r) \/ FetchFails(r)
      PROVE  now' = now /\ document' = document /\ retired' = retired
  BY <1>3 DEF Begin, UseCache, StartFetch, Answer, Store, FetchFails
<1>. QED BY <1>1, <1>2, <1>3, Cases DEF Timely, TypeOK

(* Who fetches has the lock.                                               *)
LEMMA HolderInvStep ==
    ASSUME TypeOK, HolderInv, Next
    PROVE  HolderInv'
<1> USE CacheAssumption
<1>1. CASE Rotate
  BY <1>1, RotateEffect DEF HolderInv, Fetching, Rotate
<1>2. CASE Tick
  BY <1>2 DEF HolderInv, Fetching, Tick
<1>3. ASSUME NEW r \in Requests, Begin(r) PROVE HolderInv'
  BY <1>3, BeginEffect DEF HolderInv, Fetching, Begin, Others
<1>4. ASSUME NEW r \in Requests, UseCache(r) PROVE HolderInv'
  BY <1>4, UseCacheEffect DEF HolderInv, Fetching, Judged, Others
<1>5. ASSUME NEW r \in Requests, StartFetch(r) PROVE HolderInv'
  BY <1>5, StartFetchEffect DEF HolderInv, Fetching, Others
<1>6. ASSUME NEW r \in Requests, Answer(r) PROVE HolderInv'
  BY <1>6, AnswerEffect DEF HolderInv, Fetching, Others
<1>7. ASSUME NEW r \in Requests, Store(r) PROVE HolderInv'
  BY <1>7, StoreEffect DEF HolderInv, Fetching, Judged, Others
<1>8. ASSUME NEW r \in Requests, FetchFails(r) PROVE HolderInv'
  BY <1>8, FetchFailsEffect DEF HolderInv, Fetching, Others
<1>. QED BY <1>1, <1>2, <1>3, <1>4, <1>5, <1>6, <1>7, <1>8, Cases

(* While one request has the lock no other one stores anything.            *)
LEMMA FetchInvStep ==
    ASSUME TypeOK, CacheInv, HolderInv, FetchInv, Next
    PROVE  FetchInv'
<1> USE CacheAssumption
<1>0. now \in Nat /\ cache.at \in Nat /\ FetchTime \in Nat
  BY DEF TypeOK
<1>1. CASE Rotate
  BY <1>1, RotateEffect DEF FetchInv, Fetching, Rotate
<1>2. CASE Tick
  <2>1. \A r \in Requests : request[r].since \in Nat
    BY DEF TypeOK, Request
  <2>. QED BY <1>0, <1>2, <2>1 DEF FetchInv, Fetching, Tick
<1>3. ASSUME NEW r \in Requests, Begin(r) PROVE FetchInv'
  BY <1>3, BeginEffect DEF FetchInv, Fetching, Begin, Others
<1>4. ASSUME NEW r \in Requests, UseCache(r) PROVE FetchInv'
  BY <1>4, UseCacheEffect DEF FetchInv, Fetching, Judged, Others
<1>5. ASSUME NEW r \in Requests, StartFetch(r) PROVE FetchInv'
  BY <1>0, <1>5, StartFetchEffect DEF CacheInv, FetchInv, Fetching, Others
<1>6. ASSUME NEW r \in Requests, Answer(r) PROVE FetchInv'
  BY <1>6, AnswerEffect DEF FetchInv, Fetching, Others
<1>7. ASSUME NEW r \in Requests, Store(r) PROVE FetchInv'
  <2>1. ASSUME NEW t \in Requests PROVE ~Fetching(t)'
    BY <1>7, StoreEffect DEF HolderInv, Fetching, Judged, Others
  <2>. QED BY <2>1 DEF FetchInv
<1>8. ASSUME NEW r \in Requests, FetchFails(r) PROVE FetchInv'
  BY <1>8, FetchFailsEffect DEF FetchInv, Fetching, Others
<1>. QED BY <1>1, <1>2, <1>3, <1>4, <1>5, <1>6, <1>7, <1>8, Cases

(* An answer is as old as its keys.                                        *)
LEMMA AnswerInvStep ==
    ASSUME TypeOK, FetchInv, AnswerInv, Next
    PROVE  AnswerInv'
<1> USE CacheAssumption
<1>0. now \in Nat /\ document \in SUBSET Keys
        /\ \A r \in Requests : request[r].since \in Nat /\ request[r].sampled \in Nat
                                /\ request[r].keys \in SUBSET Keys
  BY DEF TypeOK, Request
<1>1. ASSUME NEW r \in Requests, request[r].phase = "answered",
             request'[r].since = request[r].since, request'[r].sampled = request[r].sampled,
             request'[r].keys = request[r].keys
      PROVE  /\ request'[r].since <= request'[r].sampled /\ request'[r].sampled <= now'
             /\ \A k \in request'[r].keys : k \in document' \/ request'[r].sampled <= retired'[k]
  <2>1. now' \in Nat
    BY <1>0, Frame DEF Tick
  <2>. QED BY <1>0, <1>1, <2>1, TimelyKept DEF AnswerInv
<1>2. CASE Rotate \/ Tick
  <2>1. \A r \in Requests : /\ request'[r].phase = request[r].phase
                             /\ request'[r].since = request[r].since
                             /\ request'[r].sampled = request[r].sampled
                             /\ request'[r].keys = request[r].keys
    BY <1>2, RotateEffect DEF Tick
  <2>. QED BY <1>1, <2>1 DEF AnswerInv, Timely
<1>3. ASSUME NEW r \in Requests, Others(r), request'[r].phase # "answered" PROVE AnswerInv'
  BY <1>1, <1>3 DEF AnswerInv, Timely, Others
<1>4. ASSUME NEW r \in Requests, Answer(r) PROVE AnswerInv'
  <2>1. request'[r].since <= request'[r].sampled /\ request'[r].sampled <= now'
    BY <1>0, <1>4, AnswerEffect DEF FetchInv, Fetching
  <2>2. \A k \in request'[r].keys : k \in document' \/ request'[r].sampled <= retired'[k]
    BY <1>4, AnswerEffect
  <2>3. ASSUME NEW t \in Requests \ {r}, request'[t].phase = "answered"
        PROVE  /\ request'[t].since <= request'[t].sampled /\ request'[t].sampled <= now'
               /\ \A k \in request'[t].keys : k \in document' \/ request'[t].sampled <= retired'[k]
    BY <1>1, <1>4, <2>3, AnswerEffect DEF Others
  <2>. QED BY <2>1, <2>2, <2>3 DEF AnswerInv, Timely
<1>5. ASSUME NEW r \in Requests,
             \/ Begin(r) \/ UseCache(r) \/ StartFetch(r) \/ Store(r) \/ FetchFails(r)
      PROVE  Others(r) /\ request'[r].phase # "answered"
  BY <1>5, BeginEffect, UseCacheEffect, StartFetchEffect, StoreEffect, FetchFailsEffect DEF Judged
<1>. QED BY <1>2, <1>3, <1>4, <1>5, Cases

(* The cache was stored at most FetchTime after it was read.               *)
LEMMA CacheInvStep ==
    ASSUME TypeOK, CacheInv, FetchInv, AnswerInv, Next
    PROVE  CacheInv'
<1> USE CacheAssumption
<1>0. /\ now \in Nat /\ FetchTime \in Nat
      /\ cache.at \in Nat /\ cache.sampled \in Nat /\ cache.keys \in SUBSET Keys
      /\ \A r \in Requests : request[r].since \in Nat /\ request[r].sampled \in Nat
                              /\ request[r].keys \in SUBSET Keys
  BY DEF TypeOK, Request
<1>1. now' \in Nat
  BY <1>0, Frame DEF Tick
<1>2. CASE cache' = cache
  <2>1. /\ cache.sampled <= cache.at /\ cache.at <= now /\ cache.sampled <= now
        /\ cache.at <= cache.sampled + FetchTime
        /\ Timely(cache.keys, cache.sampled)
    BY <1>0 DEF CacheInv
  <2>2. /\ \A k \in cache.keys : k \in document' \/ cache.sampled <= retired'[k]
        /\ now <= now'
    BY <1>0, <2>1, TimelyKept
  <2>3. cache.at <= now'
    BY <1>0, <1>1, <2>1, <2>2
  <2>. QED BY <1>2, <2>1, <2>2, <2>3 DEF CacheInv, Timely
<1>3. ASSUME NEW r \in Requests, Store(r) PROVE CacheInv'
  <2>1. /\ cache'.at = now /\ cache'.keys = request[r].keys /\ cache'.sampled = request[r].sampled
        /\ now' = now /\ document' = document /\ retired' = retired
    BY <1>3, StoreEffect
  <2>2. /\ request[r].since <= request[r].sampled /\ request[r].sampled <= now
        /\ now <= request[r].since + FetchTime
        /\ Timely(request[r].keys, request[r].sampled)
    BY <1>3, StoreEffect DEF FetchInv, AnswerInv, Fetching
  <2>. QED BY <1>0, <2>1, <2>2 DEF CacheInv, Timely
<1>. QED BY <1>2, <1>3, Frame

-----------------------------------------------------------------------------
(* Keys that are published all the time.                                   *)

(* A fetch that begins after the token was first looked at finds its key.  *)
LEMMA SteadyInvStep ==
    ASSUME TypeOK, SteadyInv, Next
    PROVE  SteadyInv'
<1>1. CASE Rotate
  BY <1>1, RotateEffect DEF SteadyInv
<1>2. CASE Tick
  BY <1>2 DEF SteadyInv, Tick
<1>3. ASSUME NEW r \in Requests, Begin(r) PROVE SteadyInv'
  BY <1>3, BeginEffect DEF SteadyInv, Begin, Others
<1>4. ASSUME NEW r \in Requests, UseCache(r) PROVE SteadyInv'
  BY <1>4, UseCacheEffect DEF SteadyInv, Judged, Others
<1>5. ASSUME NEW r \in Requests, StartFetch(r) PROVE SteadyInv'
  BY <1>5, StartFetchEffect DEF SteadyInv, Others
<1>6. ASSUME NEW r \in Requests, Answer(r) PROVE SteadyInv'
  BY <1>6, AnswerEffect DEF SteadyInv, Others
<1>7. ASSUME NEW r \in Requests, Store(r) PROVE SteadyInv'
  BY <1>7, StoreEffect DEF SteadyInv, Judged, Others
<1>8. ASSUME NEW r \in Requests, FetchFails(r) PROVE SteadyInv'
  BY <1>8, FetchFailsEffect DEF SteadyInv, Others, Fetching
<1>. QED BY <1>1, <1>2, <1>3, <1>4, <1>5, <1>6, <1>7, <1>8, Cases

-----------------------------------------------------------------------------
(* The results.                                                            *)

(* How old the keys in use are, at every point of every verification.      *)
THEOREM KeyInvariant == Spec => []KeyInv
<1> USE CacheAssumption
<1>1. Init => KeyInv
  <2> SUFFICES ASSUME Init PROVE KeyInv
    OBVIOUS
  <2>1. \A k \in Keys : Waiting(k) \in Request /\ Waiting(k).phase = "idle" /\ ~Waiting(k).force
    BY DEF Waiting, Request, Token, Phases, Reasons
  <2>2. \A r \in Requests : /\ request[r] \in Request
                             /\ request[r].phase = "idle" /\ ~request[r].force
    BY <2>1 DEF Init
  <2>3. request \in [Requests -> Request]
    BY <2>2 DEF Init
  <2>4. TypeOK
    BY <2>3 DEF Init, TypeOK, Empty
  <2>5. CacheInv
    BY DEF Init, CacheInv, Timely, Empty
  <2>6. HolderInv /\ FetchInv /\ AnswerInv /\ SteadyInv
    BY <2>2 DEF HolderInv, FetchInv, AnswerInv, SteadyInv, Fetching
  <2>. QED BY <2>4, <2>5, <2>6 DEF KeyInv
<1>2. KeyInv /\ Next => KeyInv'
  BY TypeOKStep, CacheInvStep, HolderInvStep, FetchInvStep, AnswerInvStep, SteadyInvStep DEF KeyInv
<1>3. KeyInv /\ UNCHANGED vars => KeyInv'
  BY DEF KeyInv, TypeOK, CacheInv, HolderInv, FetchInv, AnswerInv, SteadyInv, Timely, Fetching, vars
<1>. QED BY <1>1, <1>2, <1>3, PTL DEF Spec

(* The key cache, the clock and the verifications keep their types.        *)
THEOREM TypeCorrect == Spec => []TypeOK
BY KeyInvariant, PTL DEF KeyInv

(* A token whose key GitHub publishes all the time is never refused for    *)
(* its key, whatever other threads fetch and however the keys rotate.      *)
THEOREM KnownKey == Spec => []KnownKeyIsFound
<1>1. KeyInv => KnownKeyIsFound
  BY DEF KeyInv, SteadyInv, KnownKeyIsFound
<1>. QED BY <1>1, KeyInvariant, PTL

(* A withdrawn key is accepted no longer than _JWKS_TTL and a fetch.       *)
THEOREM WithdrawnKey == Spec => WithdrawnKeyExpires
<1> DEFINE Expires ==
        \A r \in Requests :
            request[r].phase # "accepted" /\ request'[r].phase = "accepted" =>
                \/ request[r].token.kid \in document
                \/ now <= retired[request[r].token.kid] + TTL + FetchTime
<1>1. ASSUME KeyInv, Next, NEW r \in Requests,
             request[r].phase # "accepted", request'[r].phase = "accepted",
             request[r].token.kid \notin document
      PROVE  now <= retired[request[r].token.kid] + TTL + FetchTime
  <2> USE CacheAssumption
  <2>0. /\ now \in Nat /\ TTL \in Nat /\ FetchTime \in Nat
        /\ cache.at \in Nat /\ cache.sampled \in Nat
        /\ request[r].since \in Nat /\ request[r].sampled \in Nat
        /\ retired[request[r].token.kid] \in Nat
    BY <1>1 DEF KeyInv, TypeOK, Request, Token
  <2>1. UseCache(r) \/ Store(r)
    <3>1. TypeOK
      BY <1>1 DEF KeyInv
    <3>2. ASSUME NEW t \in Requests, Others(t), request'[t].phase # "accepted" PROVE FALSE
      BY <1>1, <3>2 DEF Others
    <3>3. ASSUME NEW t \in Requests, Others(t) PROVE t = r
      BY <1>1, <3>3 DEF Others
    <3>4. ~Rotate /\ ~Tick
      BY <1>1, <3>1, RotateEffect DEF Tick
    <3>5. \A t \in Requests : ~Begin(t) /\ ~StartFetch(t) /\ ~Answer(t) /\ ~FetchFails(t)
      BY <3>1, <3>2, BeginEffect, StartFetchEffect, AnswerEffect, FetchFailsEffect
    <3>6. \A t \in Requests : UseCache(t) \/ Store(t) => t = r
      BY <3>1, <3>3, UseCacheEffect, StoreEffect DEF Judged
    <3>. QED BY <1>1, <3>4, <3>5, <3>6, Cases
  <2>2. CASE UseCache(r)
    <3>1. request[r].token.kid \in cache.keys /\ now < cache.at + TTL
      BY <1>1, <2>2, UseCacheEffect DEF KeyInv, Judged, Fresh
    <3>2. cache.at <= cache.sampled + FetchTime
      BY <1>1 DEF KeyInv, CacheInv
    <3>3. cache.sampled <= retired[request[r].token.kid]
      BY <1>1, <3>1 DEF KeyInv, CacheInv, Timely
    <3>. QED BY <2>0, <3>1, <3>2, <3>3
  <2>3. CASE Store(r)
    <3>1. request[r].token.kid \in request[r].keys /\ request[r].phase = "answered"
      BY <1>1, <2>3, StoreEffect DEF KeyInv, Judged
    <3>2. now <= request[r].since + FetchTime /\ request[r].since <= request[r].sampled
      BY <1>1, <3>1 DEF KeyInv, FetchInv, AnswerInv, Fetching
    <3>3. request[r].sampled <= retired[request[r].token.kid]
      BY <1>1, <3>1 DEF KeyInv, AnswerInv, Timely
    <3>. QED BY <2>0, <3>2, <3>3
  <2>. QED BY <2>1, <2>2, <2>3
<1>2. KeyInv /\ [Next]_vars => [Expires]_vars
  BY <1>1
<1>. QED BY <1>2, KeyInvariant, PTL DEF Spec, WithdrawnKeyExpires

(* A slow answer never brings an older document back.                      *)
THEOREM NeverBack == Spec => CacheNeverGoesBack
<1>1. ASSUME KeyInv, Next PROVE cache'.sampled >= cache.sampled
  <2> USE CacheAssumption
  <2>0. /\ cache.at \in Nat /\ cache.sampled \in Nat
        /\ \A r \in Requests : request[r].since \in Nat /\ request[r].sampled \in Nat
    BY <1>1 DEF KeyInv, TypeOK, Request
  <2>1. ASSUME NEW r \in Requests, Store(r) PROVE cache'.sampled >= cache.sampled
    <3>1. cache'.sampled = request[r].sampled /\ request[r].phase = "answered"
      BY <1>1, <2>1, StoreEffect DEF KeyInv
    <3>2. /\ cache.sampled <= cache.at /\ cache.at <= request[r].since
          /\ request[r].since <= request[r].sampled
      BY <1>1, <3>1 DEF KeyInv, CacheInv, FetchInv, AnswerInv, Fetching
    <3>. QED BY <2>0, <3>1, <3>2
  <2>2. CASE ~\E r \in Requests : Store(r)
    <3>1. cache' = cache
      BY <1>1, <2>2, Frame
    <3>. QED BY <2>0, <3>1
  <2>. QED BY <2>1, <2>2
<1>2. KeyInv /\ [Next]_vars => [cache'.sampled >= cache.sampled]_vars
  BY <1>1
<1>. QED BY <1>2, KeyInvariant, PTL DEF Spec, CacheNeverGoesBack

=============================================================================
