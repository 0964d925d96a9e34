------------------------------ MODULE JwksCache ------------------------------
(***************************************************************************)
(* Verification of the OIDC token of an ingestion request, and the cache   *)
(* of GitHub's signing keys that the threads of one process share          *)
(* (publication.py: _jwks, verify_github_oidc; main.py:                    *)
(* ingest_publication).                                                    *)
(*                                                                         *)
(* The keys are fetched over the network with the lock of the cache held.  *)
(* Other threads, the rotation of the keys and the clock go on between the *)
(* request to GitHub, its answer and the store into the cache.             *)
(***************************************************************************)
EXTENDS Naturals

CONSTANTS
    Requests,
    Keys,        \* key IDs GitHub may publish
    Nobody,      \* no request holds the lock
    TTL,         \* _JWKS_TTL
    FetchTime,   \* longest time between a request to GitHub and the store of the answer
    Defects,     \* what the tokens of the requests may fail on, "nothing" included
    MaxTime,     \* bound of the clock
    MaxRotations \* bound of the changes of GitHub's document

ASSUME CacheAssumption ==
    /\ Nobody \notin Requests
    /\ {TTL, FetchTime, MaxTime, MaxRotations} \subseteq Nat
    /\ Defects \subseteq {"signature", "repository", "ref", "workflow_ref", "event_name",
                          "repository_owner", "subject", "header", "nothing"}

VARIABLES
    now,        \* the monotonic clock
    document,   \* the keys GitHub publishes
    retired,    \* when a key was last in the document, for keys that no longer are
    cache,      \* _jwks_cache: nothing, or one document with the time of its store
    holder,     \* request that holds _jwks_lock
    request,    \* per request: where it is, its token, what it has fetched
    rotations   \* how often the document has changed

vars == <<now, document, retired, cache, holder, request, rotations>>

(* A token names a key and fails one of the checks of verify_github_oidc,  *)
(* the first in their order, or none: its header is malformed, its         *)
(* signature, expiry, issuer or audience is not right, or a claim is not   *)
(* the one of the release environment of the repository.                   *)
Token == [kid : Keys, fails : Defects \cup {"nothing"}]

Phases == {"idle", "first", "forced", "fetching", "answered", "accepted", "rejected"}

(* Why a request was refused, if it was.                                   *)
Reasons == {"none", "key", "header", "fetch"} \cup Defects

Request == [phase : Phases, token : Token, force : BOOLEAN, since : Nat, keys : SUBSET Keys,
            sampled : Nat, steady : BOOLEAN, reason : Reasons]

Empty == [at |-> 0, keys |-> {}, sampled |-> 0, filled |-> FALSE]

TypeOK ==
    /\ now \in 0 .. MaxTime
    /\ document \in SUBSET Keys
    /\ retired \in [Keys -> 0 .. MaxTime]
    /\ cache \in [at : 0 .. MaxTime, keys : SUBSET Keys, sampled : 0 .. MaxTime, filled : BOOLEAN]
    /\ holder \in Requests \cup {Nobody}
    /\ request \in [Requests -> Request]
    /\ rotations \in 0 .. MaxRotations

Waiting(k) == [phase |-> "idle", token |-> [kid |-> k, fails |-> "nothing"], force |-> FALSE,
               since |-> 0, keys |-> {}, sampled |-> 0, steady |-> FALSE, reason |-> "none"]

Init ==
    /\ now = 0
    /\ document \in (SUBSET Keys) \ {{}}
    /\ retired = [k \in Keys |-> 0]
    /\ cache = Empty
    /\ holder = Nobody
    /\ request \in [Requests -> {Waiting(k) : k \in Keys}]
    /\ rotations = 0

-----------------------------------------------------------------------------
(* GitHub and time.                                                        *)

(* GitHub publishes another set of keys; `steady' keeps whether the key of *)
(* a token has been published since its verification began.                *)
Rotate ==
    /\ rotations < MaxRotations
    /\ rotations' = rotations + 1
    /\ \E keys \in (SUBSET Keys) \ {{}, document} :
        /\ document' = keys
        /\ retired' = [k \in Keys |->
                IF k \in keys THEN 0 ELSE IF k \in document THEN now ELSE retired[k]]
        /\ request' = [r \in Requests |->
                IF request[r].phase \in {"accepted", "rejected"} THEN request[r]
                ELSE [request[r] EXCEPT !.steady = @ /\ request[r].token.kid \in keys]]
    /\ UNCHANGED <<now, cache, holder>>

(* The timeout of the request to GitHub.                                   *)
Tick ==
    /\ now < MaxTime
    /\ \A r \in Requests : request[r].phase \in {"fetching", "answered"}
                                => now < request[r].since + FetchTime
    /\ now' = now + 1
    /\ UNCHANGED <<document, retired, cache, holder, request, rotations>>

-----------------------------------------------------------------------------
(* A request.                                                              *)

Become(r, q) == request' = [request EXCEPT ![r] = q]

(* What a request has read is of no interest once it is answered.          *)
Reject(q, reason) ==
    [Waiting(q.token.kid) EXCEPT !.phase = "rejected", !.reason = reason,
                                !.steady = q.steady /\ reason = "key"]

(* The header is looked at before the keys are.                            *)
Begin(r) ==
    /\ request[r].phase = "idle"
    /\ \E fails \in Defects :
        Become(r,
            IF fails = "header" THEN Reject(request[r], "header")
            ELSE [request[r] EXCEPT !.phase = "first",
                                    !.token = [kid |-> @.kid, fails |-> fails],
                                    !.steady = request[r].token.kid \in document])
    /\ UNCHANGED <<now, document, retired, cache, holder, rotations>>

Fresh == cache.filled /\ now < cache.at + TTL

(* Mutant: an unknown key is final.                                        *)
JudgeOnce(q, keys) ==
    IF q.token.kid \notin keys THEN Reject(q, "key")
    ELSE IF q.token.fails # "nothing" THEN Reject(q, q.token.fails)
    ELSE [Reject(q, "none") EXCEPT !.phase = "accepted"]

(* What verify_github_oidc does with the document _jwks returned: an       *)
(* unknown key makes it force a fetch once.                                *)
Judge(q, keys) ==
    IF q.token.kid \notin keys
    THEN IF q.force THEN Reject(q, "key") ELSE [q EXCEPT !.phase = "forced", !.force = TRUE]
    ELSE IF q.token.fails # "nothing" THEN Reject(q, q.token.fails)
    ELSE [Reject(q, "none") EXCEPT !.phase = "accepted"]

(* _jwks without a fetch.                                                  *)
UseCache(r) ==
    /\ request[r].phase = "first" /\ holder = Nobody
    /\ Fresh
    /\ Become(r, Judge(request[r], cache.keys))
    /\ UNCHANGED <<now, document, retired, cache, holder, rotations>>

(* Mutant: the lock only guards the cache, not the fetch.                  *)
StartFetchUnlocked(r) ==
    /\ holder = Nobody
    /\ request[r].phase = "forced" \/ (request[r].phase = "first" /\ ~Fresh)
    /\ Become(r, [request[r] EXCEPT !.phase = "fetching", !.since = now])
    /\ UNCHANGED <<now, document, retired, cache, holder, rotations>>

(* _jwks with a fetch, holding the lock from here on.                      *)
StartFetch(r) ==
    /\ holder = Nobody
    /\ request[r].phase = "forced" \/ (request[r].phase = "first" /\ ~Fresh)
    /\ holder' = r
    /\ Become(r, [request[r] EXCEPT !.phase = "fetching", !.since = now])
    /\ UNCHANGED <<now, document, retired, cache, rotations>>

(* GitHub answers; the answer is on its way.                               *)
Answer(r) ==
    /\ request[r].phase = "fetching"
    /\ Become(r, [request[r] EXCEPT !.phase = "answered", !.keys = document, !.sampled = now])
    /\ UNCHANGED <<now, document, retired, cache, holder, rotations>>

(* Mutant: a new document is added to what the cache had.                  *)
StoreMerged(r) ==
    /\ request[r].phase = "answered"
    /\ cache' = [at |-> now, keys |-> request[r].keys \cup cache.keys,
                 sampled |-> request[r].sampled, filled |-> TRUE]
    /\ holder' = Nobody
    /\ Become(r, Judge(request[r], cache'.keys))
    /\ UNCHANGED <<now, document, retired, rotations>>

(* Mutant: the document is stored without its time.                        *)
StoreUndated(r) ==
    /\ request[r].phase = "answered"
    /\ cache' = [keys |-> request[r].keys, sampled |-> request[r].sampled, filled |-> TRUE]
    /\ holder' = Nobody
    /\ Become(r, Judge(request[r], request[r].keys))
    /\ UNCHANGED <<now, document, retired, rotations>>

(* The answer replaces the cache, dated with the time of the store.        *)
Store(r) ==
    /\ request[r].phase = "answered"
    /\ cache' = [at |-> now, keys |-> request[r].keys,
                 sampled |-> request[r].sampled, filled |-> TRUE]
    /\ holder' = Nobody
    /\ Become(r, Judge(request[r], request[r].keys))
    /\ UNCHANGED <<now, document, retired, rotations>>

(* Mutant: an exception leaves the lock taken.                             *)
FetchFailsLocked(r) ==
    /\ request[r].phase \in {"fetching", "answered"}
    /\ Become(r, Reject(request[r], "fetch"))
    /\ UNCHANGED <<now, document, retired, cache, holder, rotations>>

(* No answer, an error status or a malformed document: the cache stays as  *)
(* it is and the request is refused.                                       *)
FetchFails(r) ==
    /\ request[r].phase \in {"fetching", "answered"}
    /\ holder' = Nobody
    /\ Become(r, Reject(request[r], "fetch"))
    /\ UNCHANGED <<now, document, retired, cache, rotations>>

Proceed(r) == UseCache(r) \/ StartFetch(r) \/ Answer(r) \/ Store(r) \/ FetchFails(r)

Next ==
    \/ Rotate \/ Tick
    \/ \E r \in Requests : Begin(r) \/ Proceed(r)

Spec == Init /\ [][Next]_vars

(* A thread that can go on does, and a fetch has a timeout.                *)
FairSpec == Spec /\ \A r \in Requests : WF_vars(Proceed(r))

-----------------------------------------------------------------------------
(* Properties.                                                             *)

(* A token is refused for its key only if GitHub did not publish that key  *)
(* all through the verification: a rotation while the cache is fresh, or   *)
(* other threads that refresh it at the same time, never cost a valid      *)
(* token its acceptance.                                                   *)
KnownKeyIsFound ==
    \A r \in Requests :
        request[r].phase = "rejected" /\ request[r].reason = "key" => ~request[r].steady

(* A token is accepted with a key only for so long after GitHub withdrew   *)
(* the key as a document is used plus as long as it may have been on its   *)
(* way.                                                                    *)
WithdrawnKeyExpires ==
    [][\A r \in Requests :
        request[r].phase # "accepted" /\ request'[r].phase = "accepted" =>
            \/ request[r].token.kid \in document
            \/ now <= retired[request[r].token.kid] + TTL + FetchTime]_vars

(* The cache never returns to a document that is older than the one it     *)
(* holds, however slowly the answers arrive.                               *)
CacheNeverGoesBack == [][cache'.sampled >= cache.sampled]_vars

(* Every verification ends, also if fetches fail while others wait for     *)
(* the lock.                                                               *)
EveryVerificationEnds ==
    \A r \in Requests :
        request[r].phase = "first" ~> request[r].phase \in {"accepted", "rejected"}

==============================================================================
