------------------------------ MODULE KeyCache ------------------------------
(***************************************************************************)
(* Validation of JSON Web Tokens and the cache of the identity provider's  *)
(* keys, internal/auth/jwt/jwks.go and validator.go: request goroutines in *)
(* ValidateToken, the cache they share, and a provider that changes its    *)
(* keys and fails.                                                         *)
(*                                                                         *)
(* A token is what its checks can tell apart: the checks it fails in       *)
(* itself, its times, its key id and the key it was signed with.  The      *)
(* provider is external.  A goroutine waits for an HTTP answer no longer   *)
(* than the client's timeout, and elsewhere stalls no longer than MaxStall.*)
(***************************************************************************)
EXTENDS Integers, FiniteSets

CONSTANTS
    Procs,          \* goroutines that call ValidateToken
    Kids,           \* key ids
    Jwks,           \* keys of the provider: [kty, form, n]
    Tokens,         \* tokens: [faults, exp, nbf, kid, alg, signedBy]
    None,           \* absence of a key or of a token
    CacheTTLMins,   \* auth.jwt.cache_ttl_mins; 0 counts as unset
    DefaultTTL,     \* the 1440 minutes of NewKeyCache
    Tolerance,      \* auth.jwt.tolerance_secs
    Timeout,        \* the HTTP client's timeout
    MaxStall,       \* longest pause of a goroutine between two steps
    MaxTime         \* bound: last instant of the clock

\* Checks a token fails whatever the time: in the order of ValidateToken and
\* validateStandardClaims, then the encoding of the signature.
Faults == {"parts", "header", "symmetric", "kid", "payload", "exp type", "nbf type",
           "issuer", "audience", "signature encoding"}

Jwk == [kty : {"RSA", "EC", "OKP", "other"}, form : {"ok", "unsupported", "undecodable"}, n : Nat]

\* exp and nbf hold at most one value: a token may lack them.
Token == [faults : SUBSET Faults, exp : SUBSET Int, nbf : SUBSET Int, kid : Kids,
          alg : {"RS", "PS", "ES", "EdDSA", "none"}, signedBy : Jwk]

ASSUME KeyAssumption ==
    /\ Jwks \subseteq Jwk
    /\ Tokens \subseteq Token
    /\ None \notin Jwk
    /\ None \notin Token
    /\ CacheTTLMins \in Int /\ DefaultTTL \in Nat
    /\ Tolerance \in Int
    /\ Timeout \in Nat /\ MaxStall \in Nat /\ MaxTime \in Nat

VARIABLES
    clock,          \* time.Now()
    published,      \* published[kid]: the provider's key under kid, or None
    cache,          \* kc.cache[kid]: a key and its expiry, or an absent entry
    pc,             \* pc[p]: where goroutine p is in ValidateToken
    token,          \* token[p]: the token p validates
    key,            \* key[p]: the key p was answered or holds
    since,          \* since[p]: when p came to pc[p]
    answer,         \* answer[p]: the status of p's response
    gone            \* history: gone[kid][j], the last instant the usable
                    \* key j was published under kid

calls == <<pc, token, key, since, answer>>
provider == <<published, gone>>
vars == <<clock, published, cache, pc, token, key, since, answer, gone>>

-----------------------------------------------------------------------------
(* Tokens and keys.                                                        *)

\* The checks before the key is looked up, in their order.
Checks == <<"parts", "header", "symmetric", "kid", "payload", "exp type", "expired",
            "nbf type", "early", "issuer", "audience">>

\* Mutant of Fails: the expiry is not looked at.
Fails_NoExpiry(t, check, now) ==
    \/ check = "early" /\ \E v \in t.nbf : now < v - Tolerance
    \/ check \in t.faults

Fails(t, check, now) ==
    \/ check = "expired" /\ \E v \in t.exp : now > v + Tolerance
    \/ check = "early" /\ \E v \in t.nbf : now < v - Tolerance
    \/ check \in t.faults

Sound(t, now) == \A i \in DOMAIN Checks : ~Fails(t, Checks[i], now)

\* The error of the first check that fails.
FirstFailure(t, now) ==
    Checks[CHOOSE i \in DOMAIN Checks :
              /\ Fails(t, Checks[i], now)
              /\ \A h \in 1..i - 1 : ~Fails(t, Checks[h], now)]

\* The type of key an algorithm takes; "none" and unknown ones take no key.
KeyType(alg) ==
    CASE alg \in {"RS", "PS"} -> "RSA"
      [] alg = "ES" -> "EC"
      [] alg = "EdDSA" -> "OKP"
      [] OTHER -> "no key"

VerifySignature(t, j) ==
    /\ "signature encoding" \notin t.faults
    /\ KeyType(t.alg) = j.kty
    /\ t.signedBy = j

\* What the conversion of the provider's key comes to.
jwkToPublicKey(j) == IF j.kty = "other" THEN "unsupported" ELSE j.form

Usable == {j \in Jwks : jwkToPublicKey(j) = "ok"}

\* mapJWTError looks for words in the error.  Those of a document that does
\* not parse, or of a key that does not decode, are the words of a malformed
\* token; and an error that quotes what it was given, the key id of the token,
\* the kind of the key, or the body of an answer, may have any words in it.
mapJWTError(err) ==
    CASE err \in {"unreachable", "no jwks_uri"} -> {502}
      [] err \in {"status", "unknown kid", "unsupported"} -> {401, 502}
      [] OTHER -> {401}

-----------------------------------------------------------------------------
NotCached == [key |-> None, expiresAt |-> 0]

TTL == IF CacheTTLMins = 0 THEN DefaultTTL ELSE CacheTTLMins

\* Mutant of Hit: an entry counts however old it is.
Hit_IgnoringExpiry(kid) == cache[kid] # NotCached

\* Get finds an entry that has not passed its expiry.
Hit(kid) == cache[kid] # NotCached /\ ~(clock > cache[kid].expiresAt)

\* A key's age when it verifies a token is at most this, whatever the order in
\* which answers are stored.
MaxAge == Timeout + 2 * MaxStall + (IF TTL > 0 THEN TTL ELSE 0)

\* The longest a token waits between the check of its times and its verdict.
MaxWait == 2 * Timeout + 3 * MaxStall

Init ==
    /\ clock = 1
    /\ published \in [Kids -> Jwks \cup {None}]
    /\ cache = [kid \in Kids |-> NotCached]
    /\ pc = [p \in Procs |-> "idle"]
    /\ token = [p \in Procs |-> None]
    /\ key = [p \in Procs |-> None]
    /\ since = [p \in Procs |-> 0]
    /\ answer = [p \in Procs |-> 0]
    /\ gone = [kid \in Kids |-> [j \in Usable |-> -MaxAge]]

Goto(p, l, k) ==
    /\ pc' = [pc EXCEPT ![p] = l]
    /\ key' = [key EXCEPT ![p] = k]
    /\ since' = [since EXCEPT ![p] = clock]
    /\ UNCHANGED <<token, answer>>

Respond(p, statuses) ==
    /\ pc' = [pc EXCEPT ![p] = "done"]
    /\ \E s \in statuses : answer' = [answer EXCEPT ![p] = s]
    /\ token' = [token EXCEPT ![p] = None]
    /\ key' = [key EXCEPT ![p] = None]
    /\ since' = [since EXCEPT ![p] = 0]

\* The token is parsed and its claims checked, all before its key is looked up.
Start(p, t) ==
    /\ pc[p] = "idle"
    /\ \/ /\ Sound(t, clock)
          /\ pc' = [pc EXCEPT ![p] = "get"]
          /\ token' = [token EXCEPT ![p] = t]
          /\ since' = [since EXCEPT ![p] = clock]
          /\ UNCHANGED <<key, answer>>
       \/ /\ ~Sound(t, clock)
          /\ Respond(p, mapJWTError(FirstFailure(t, clock)))
    /\ UNCHANGED <<clock, provider, cache>>

\* GetPublicKey asks the cache first.
Get(p) ==
    LET kid == token[p].kid
    IN  /\ pc[p] = "get"
        /\ \/ Hit(kid) /\ Goto(p, "verify", cache[kid].key)
           \/ ~Hit(kid) /\ Goto(p, "discover", None)
        /\ UNCHANGED <<clock, provider, cache>>

DiscoverJWKSUri(p) ==
    /\ pc[p] = "discover"
    /\ \/ Goto(p, "fetch", None)
       \/ \E err \in {"unreachable", "status", "unreadable", "no jwks_uri"} :
             Respond(p, mapJWTError(err))
    /\ UNCHANGED <<clock, provider, cache>>

\* The provider reads its keys for p's request; the answer is on its way.
Serve(p) ==
    /\ pc[p] = "fetch"
    /\ pc' = [pc EXCEPT ![p] = "served"]
    /\ key' = [key EXCEPT ![p] = published[token[p].kid]]
    /\ UNCHANGED <<clock, provider, cache, token, since, answer>>

\* Mutant of FetchFails: a failed request is tried again, without a limit.
FetchFails_Retrying(p) ==
    /\ pc[p] \in {"fetch", "served"}
    /\ Goto(p, "discover", None)
    /\ UNCHANGED <<clock, provider, cache>>

FetchFails(p) ==
    /\ pc[p] \in {"fetch", "served"}
    /\ \E err \in {"unreachable", "status", "unreadable"} : Respond(p, mapJWTError(err))
    /\ UNCHANGED <<clock, provider, cache>>

\* Mutant of FetchJWKS: the outcome of the conversion is not looked at.
FetchJWKS_Unconverted(p) ==
    /\ pc[p] = "served"
    /\ IF key[p] = None THEN Respond(p, mapJWTError("unknown kid")) ELSE Goto(p, "store", key[p])
    /\ UNCHANGED <<clock, provider, cache>>

\* The answer arrives: the key with the token's kid is converted.
FetchJWKS(p) ==
    /\ pc[p] = "served"
    /\ CASE key[p] = None -> Respond(p, mapJWTError("unknown kid"))
         [] key[p] \in Jwks \ Usable -> Respond(p, mapJWTError(jwkToPublicKey(key[p])))
         [] key[p] \in Usable -> Goto(p, "store", key[p])
    /\ UNCHANGED <<clock, provider, cache>>

\* Set, under the write lock.
Store(p) ==
    /\ pc[p] = "store"
    /\ cache' = [cache EXCEPT ![token[p].kid] = [key |-> key[p], expiresAt |-> clock + TTL]]
    /\ Goto(p, "verify", key[p])
    /\ UNCHANGED <<clock, provider>>

Verify(p) ==
    /\ pc[p] = "verify"
    /\ Respond(p, IF VerifySignature(token[p], key[p]) THEN {200} ELSE mapJWTError("signature"))
    /\ UNCHANGED <<clock, provider, cache>>

Leave(p) ==
    /\ pc[p] = "done"
    /\ pc' = [pc EXCEPT ![p] = "idle"]
    /\ answer' = [answer EXCEPT ![p] = 0]
    /\ UNCHANGED <<clock, provider, cache, token, key, since>>

-----------------------------------------------------------------------------
(* The provider, external, and time.                                       *)

\* The provider publishes another key under kid, or withdraws it.
Rotate(kid) ==
    /\ published' \in {[published EXCEPT ![kid] = j] : j \in Jwks \cup {None}}
    /\ published' # published
    /\ gone' = [gone EXCEPT ![kid] =
                   [j \in Usable |-> IF j = published[kid] THEN clock ELSE gone[kid][j]]]
    /\ UNCHANGED <<clock, cache, calls>>

\* How long a goroutine may stay where it is.
Patience(l) == IF l \in {"discover", "fetch", "served"} THEN Timeout ELSE MaxStall

Tick ==
    /\ clock < MaxTime
    /\ \A p \in Procs : pc[p] \notin {"idle", "done"} => clock < since[p] + Patience(pc[p])
    /\ clock' = clock + 1
    /\ UNCHANGED <<provider, cache, calls>>

ValidateToken(p) ==
    \/ Get(p)
    \/ DiscoverJWKSUri(p)
    \/ FetchFails(p)
    \/ FetchJWKS(p)
    \/ Store(p)
    \/ Verify(p)

Next ==
    \/ \E p \in Procs :
         \/ \E t \in Tokens : Start(p, t)
         \/ ValidateToken(p)
         \/ Serve(p)
         \/ Leave(p)
    \/ \E kid \in Kids : Rotate(kid)
    \/ Tick

Spec == Init /\ [][Next]_vars

\* Goroutines that can run do, and a request to the provider ends, if only by
\* the client's timeout; the provider itself owes nothing.
FairSpec == Spec /\ \A p \in Procs : WF_vars(ValidateToken(p))

-----------------------------------------------------------------------------
(* What is checked.                                                        *)

(***************************************************************************)
(* The type of every variable; only keys that convert are cached or used.  *)
(***************************************************************************)
TypeOK ==
    /\ clock \in Nat
    /\ published \in [Kids -> Jwks \cup {None}]
    /\ cache \in [Kids -> [key : Usable \cup {None}, expiresAt : Int]]
    /\ pc \in [Procs -> {"idle", "get", "discover", "fetch", "served", "store", "verify", "done"}]
    /\ token \in [Procs -> Tokens \cup {None}]
    /\ \A p \in Procs : pc[p] \notin {"idle", "done"} => token[p] # None
    /\ key \in [Procs -> Jwks \cup {None}]
    /\ \A p \in Procs : pc[p] \in {"store", "verify"}
                            => key[p] \in Usable
    /\ since \in [Procs -> Nat]
    /\ answer \in [Procs -> {0, 200, 401, 502}]
    /\ gone \in [Kids -> [Usable -> Int]]

\* Key j is published under kid, or was at instant t or later.
PublishedSince(kid, j, t) == published[kid] = j \/ gone[kid][j] >= t

(***************************************************************************)
(* A key that the provider replaced or withdrew stops verifying tokens     *)
(* within the cache's time to live and one request: no interleaving of     *)
(* concurrent misses, with an older answer stored after a newer one, keeps *)
(* it alive for longer (GetPublicKey, jwks.go lines 153-186).              *)
(***************************************************************************)
RetiredKeysLapse ==
    \A p \in Procs : pc[p] = "verify" => PublishedSince(token[p].kid, key[p], clock - MaxAge)

(***************************************************************************)
(* A token is accepted at most two requests to the provider after its exp  *)
(* and tolerance have passed: the times are checked before the key is      *)
(* fetched and not again (ValidateToken, validator.go lines 86-102).       *)
(***************************************************************************)
AcceptedInTime ==
    [][\A p \in Procs :
         pc[p] = "verify" /\ answer'[p] = 200
            => \A v \in token[p].exp : clock <= v + Tolerance + MaxWait]_vars

(***************************************************************************)
(* Every validation ends, whatever the provider does: each of the requests *)
(* it waits for has the client's timeout, and none is repeated (jwks.go    *)
(* lines 70-72, 153-186).                                                  *)
(***************************************************************************)
ValidationEnds == \A p \in Procs : pc[p] # "idle" ~> pc[p] \in {"idle", "done"}
=============================================================================
