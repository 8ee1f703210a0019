---------------------------- MODULE KeyCacheProofs ----------------------------
(***************************************************************************)
(* Proofs about token validation and the key cache, for any goroutines,    *)
(* tokens, keys, times to live and timeouts.                               *)
(***************************************************************************)
EXTENDS KeyCache, TLAPS

Labels == {"idle", "get", "discover", "fetch", "served", "store", "verify", "done"}
Busy == Labels \ {"idle", "done"}

\* What the cache adds to the age of a key.
Lag == IF TTL > 0 THEN TTL ELSE 0

\* A cached key was published when the request that brought it was answered.
CacheInv ==
    \A kid \in Kids : cache[kid] # NotCached =>
        /\ cache[kid].key \in Usable
        /\ cache[kid].expiresAt - TTL <= clock
        /\ PublishedSince(kid, cache[kid].key, cache[kid].expiresAt - TTL - Timeout - MaxStall)

\* The time that may have gone since the token's times were checked when a
\* goroutine comes to l.
Budget(l) ==
    CASE l = "get" -> 0
      [] l = "discover" -> MaxStall
      [] l \in {"fetch", "served"} -> MaxStall + Timeout
      [] l = "store" -> MaxStall + 2 * Timeout
      [] OTHER -> 2 * MaxStall + 2 * Timeout

\* How old the key a goroutine holds may have been when it came to l.
Age(l) ==
    CASE l = "served" -> 0
      [] l = "store" -> Timeout
      [] OTHER -> Timeout + MaxStall + Lag

CallInv(p) ==
    pc[p] \in Busy =>
        /\ since[p] <= clock /\ clock <= since[p] + Patience(pc[p])
        /\ \A v \in token[p].exp : since[p] <= v + Tolerance + Budget(pc[p])
        /\ pc[p] \in {"served", "store", "verify"} /\ key[p] \in Usable =>
               PublishedSince(token[p].kid, key[p], since[p] - Age(pc[p]))

Inv == TypeOK /\ CacheInv /\ \A p \in Procs : CallInv(p)

\* PublishedSince after a step.
PublishedThen(kid, j, t) == published'[kid] = j \/ gone'[kid][j] >= t

-----------------------------------------------------------------------------
(***************************************************************************)
(* The durations are integers, whatever the configuration says.            *)
(***************************************************************************)
LEMMA Durations ==
    /\ TTL \in Int /\ Lag \in Int /\ Lag >= 0 /\ TTL <= Lag
    /\ Timeout \in Nat /\ MaxStall \in Nat /\ Tolerance \in Int
    /\ \A l \in Labels : Budget(l) \in Nat /\ Age(l) \in Nat /\ Patience(l) \in Nat
    /\ MaxAge = Timeout + 2 * MaxStall + Lag
<1>1. TTL \in Int
  BY KeyAssumption DEF TTL
<1>2. Lag \in Int /\ Lag >= 0 /\ TTL <= Lag
  BY <1>1 DEF Lag
<1>3. Timeout \in Nat /\ MaxStall \in Nat /\ Tolerance \in Int
  BY KeyAssumption
<1> HIDE DEF Lag
<1>4. \A l \in Labels : Budget(l) \in Nat
  BY <1>3 DEF Budget, Labels
<1>5. \A l \in Labels : Age(l) \in Nat
  BY <1>2, <1>3 DEF Age, Labels
<1>6. \A l \in Labels : Patience(l) \in Nat
  BY <1>3 DEF Patience, Labels
<1> QED  BY <1>1, <1>2, <1>3, <1>4, <1>5, <1>6 DEF MaxAge, Lag

(***************************************************************************)
(* A token has a key id and times; a usable key is a key.                  *)
(***************************************************************************)
LEMMA TokenFacts ==
    /\ \A t \in Tokens : t.kid \in Kids /\ t.exp \subseteq Int /\ t # None
    /\ Usable \subseteq Jwks
    /\ None \notin Jwks
<1>1. \A t \in Token : t.kid \in Kids /\ t.exp \subseteq Int
  BY DEF Token
<1>2. Tokens \subseteq Token /\ None \notin Token /\ Jwks \subseteq Jwk /\ None \notin Jwk
  BY KeyAssumption
<1> QED  BY <1>1, <1>2 DEF Usable

(***************************************************************************)
(* A goroutine moves on: only its own state changes.                       *)
(***************************************************************************)
LEMMA GotoFacts ==
    ASSUME TypeOK, NEW p \in Procs, NEW l \in Labels, NEW k \in Jwks \cup {None}, Goto(p, l, k)
    PROVE  /\ pc' \in [Procs -> Labels] /\ key' \in [Procs -> Jwks \cup {None}]
           /\ since' \in [Procs -> Nat]
           /\ pc'[p] = l /\ key'[p] = k /\ since'[p] = clock /\ token' = token /\ answer' = answer
           /\ \A q \in Procs : q # p => pc'[q] = pc[q] /\ key'[q] = key[q] /\ since'[q] = since[q]
BY DEF Goto, TypeOK, Labels

(***************************************************************************)
(* A goroutine answers: every error is a 401 or a 502 (mapJWTError).       *)
(***************************************************************************)
LEMMA RespondFacts ==
    ASSUME TypeOK, NEW p \in Procs, NEW S \in SUBSET {200, 401, 502}, Respond(p, S)
    PROVE  /\ pc' \in [Procs -> Labels] /\ key' \in [Procs -> Jwks \cup {None}]
           /\ since' \in [Procs -> Nat] /\ token' \in [Procs -> Tokens \cup {None}]
           /\ answer' \in [Procs -> {0, 200, 401, 502}]
           /\ pc'[p] = "done" /\ answer'[p] \in S
           /\ \A q \in Procs : q # p => /\ pc'[q] = pc[q] /\ key'[q] = key[q] /\ since'[q] = since[q]
                                        /\ token'[q] = token[q]
<1>1. PICK s \in S : answer' = [answer EXCEPT ![p] = s]
  BY DEF Respond
<1>2. s \in {0, 200, 401, 502}
  OBVIOUS
<1>3. answer' \in [Procs -> {0, 200, 401, 502}] /\ answer'[p] \in S
  BY <1>1, <1>2 DEF TypeOK
<1>4. /\ pc' \in [Procs -> Labels] /\ pc'[p] = "done"
      /\ \A q \in Procs : q # p => pc'[q] = pc[q]
  BY DEF Respond, TypeOK, Labels
<1>5. key' \in [Procs -> Jwks \cup {None}] /\ since' \in [Procs -> Nat]
  BY DEF Respond, TypeOK
<1>6. token' \in [Procs -> Tokens \cup {None}]
  BY DEF Respond, TypeOK
<1>7. \A q \in Procs : q # p => key'[q] = key[q] /\ since'[q] = since[q] /\ token'[q] = token[q]
  BY DEF Respond, TypeOK
<1> QED  BY <1>3, <1>4, <1>5, <1>6, <1>7

(***************************************************************************)
(* An error of validation becomes one of these statuses.                   *)
(***************************************************************************)
LEMMA Statuses == \A err : mapJWTError(err) \in SUBSET {200, 401, 502}
BY DEF mapJWTError

(***************************************************************************)
(* What the cache answers is a key that converted (KeyCache.Get).          *)
(***************************************************************************)
LEMMA HitFacts ==
    ASSUME TypeOK, CacheInv, NEW kid \in Kids, Hit(kid)
    PROVE  /\ cache[kid].key \in Usable /\ cache[kid].expiresAt \in Int
           /\ cache[kid].expiresAt - TTL <= clock
           /\ clock <= cache[kid].expiresAt
           /\ PublishedSince(kid, cache[kid].key, cache[kid].expiresAt - TTL - Timeout - MaxStall)
<1>1. cache[kid].expiresAt \in Int /\ clock \in Nat
  BY DEF TypeOK
<1>2. cache[kid] # NotCached /\ ~(clock > cache[kid].expiresAt)
  BY DEF Hit
<1> QED  BY <1>1, <1>2 DEF CacheInv

-----------------------------------------------------------------------------
(***************************************************************************)
(* The types are preserved by every step.                                  *)
(***************************************************************************)
LEMMA TypeStep == Inv /\ [Next]_vars => TypeOK'
<1> SUFFICES ASSUME Inv, [Next]_vars PROVE TypeOK'  OBVIOUS
<1> USE TokenFacts
<1>0. TypeOK /\ CacheInv
  BY DEF Inv
<1>T. \A p \in Procs : pc[p] \in Busy => token[p] \in Tokens /\ token[p].kid \in Kids
  BY <1>0 DEF TypeOK, Busy, Labels
<1>1. CASE UNCHANGED vars
  BY <1>0, <1>1 DEF vars, TypeOK
<1>R. ASSUME NEW p \in Procs, NEW S \in SUBSET {200, 401, 502}, Respond(p, S), UNCHANGED <<clock, provider, cache>>
      PROVE  TypeOK'
  <2>1. /\ pc' \in [Procs -> Labels] /\ key' \in [Procs -> Jwks \cup {None}]
        /\ since' \in [Procs -> Nat] /\ token' \in [Procs -> Tokens \cup {None}]
        /\ answer' \in [Procs -> {0, 200, 401, 502}]
        /\ pc'[p] = "done"
        /\ \A q \in Procs : q # p => pc'[q] = pc[q] /\ key'[q] = key[q] /\ token'[q] = token[q]
    BY <1>0, <1>R, RespondFacts
  <2>2. \A q \in Procs : /\ pc'[q] \notin {"idle", "done"} => token'[q] # None
                         /\ pc'[q] \in {"store", "verify"} => key'[q] \in Usable
    BY <1>0, <2>1 DEF TypeOK
  <2> QED  BY <1>0, <1>R, <2>1, <2>2 DEF TypeOK, provider, Labels
<1>E. ASSUME NEW p \in Procs, NEW err, Respond(p, mapJWTError(err)), UNCHANGED <<clock, provider, cache>>
      PROVE  TypeOK'
  <2> DEFINE S == mapJWTError(err)
  <2>1. S \in SUBSET {200, 401, 502} /\ Respond(p, S)
    BY <1>E, Statuses
  <2> HIDE DEF S
  <2> QED  BY <1>E, <1>R, <2>1
<1>G. ASSUME NEW p \in Procs, NEW l \in Labels, NEW k \in Jwks \cup {None}, Goto(p, l, k),
             pc[p] \in Busy, l \in {"store", "verify"} => k \in Usable, UNCHANGED <<clock, provider>>,
             cache' \in [Kids -> [key : Usable \cup {None}, expiresAt : Int]]
      PROVE  TypeOK'
  <2>1. /\ pc' \in [Procs -> Labels] /\ key' \in [Procs -> Jwks \cup {None}]
        /\ since' \in [Procs -> Nat]
        /\ pc'[p] = l /\ key'[p] = k /\ token' = token /\ answer' = answer
        /\ \A q \in Procs : q # p => pc'[q] = pc[q] /\ key'[q] = key[q]
    BY <1>0, <1>G, GotoFacts
  <2>2. \A q \in Procs : /\ pc'[q] \notin {"idle", "done"} => token'[q] # None
                         /\ pc'[q] \in {"store", "verify"} => key'[q] \in Usable
    BY <1>0, <1>G, <2>1 DEF TypeOK, Busy
  <2> QED  BY <1>0, <1>G, <2>1, <2>2 DEF TypeOK, provider, Labels
<1>2. ASSUME NEW p \in Procs, NEW t \in Tokens, Start(p, t) PROVE TypeOK'
  <2>1. CASE Sound(t, clock) /\ pc' = [pc EXCEPT ![p] = "get"]
             /\ token' = [token EXCEPT ![p] = t] /\ since' = [since EXCEPT ![p] = clock]
             /\ UNCHANGED <<key, answer>>
    <3>1. UNCHANGED <<clock, published, gone, cache, key, answer>>
      BY <1>2, <2>1 DEF Start, provider
    <3>2. pc' \in [Procs -> Labels] /\ token' \in [Procs -> Tokens \cup {None}] /\ since' \in [Procs -> Nat]
      BY <1>0, <2>1 DEF TypeOK, Labels
    <3>3. \A q \in Procs : /\ pc'[q] \notin {"idle", "done"} => token'[q] # None
                           /\ pc'[q] \in {"store", "verify"} => key'[q] \in Usable
      BY <1>0, <2>1 DEF TypeOK
    <3> QED  BY <1>0, <3>1, <3>2, <3>3 DEF TypeOK, Labels
  <2>2. CASE Respond(p, mapJWTError(FirstFailure(t, clock)))
    BY <1>2, <1>E, <2>2 DEF Start
  <2> QED  BY <1>2, <2>1, <2>2 DEF Start
<1>3. ASSUME NEW p \in Procs, Get(p) PROVE TypeOK'
  <2>1. pc[p] \in Busy /\ UNCHANGED <<clock, provider, cache>>
    BY <1>3 DEF Get, Busy, Labels
  <2>2. cache' \in [Kids -> [key : Usable \cup {None}, expiresAt : Int]]
    BY <1>0, <2>1 DEF TypeOK
  <2>3. CASE Hit(token[p].kid) /\ Goto(p, "verify", cache[token[p].kid].key)
    <3>1. cache[token[p].kid].key \in Usable
      BY <1>0, <1>T, <2>1, <2>3, HitFacts
    <3> QED  BY <1>G, <2>1, <2>2, <2>3, <3>1 DEF Labels
  <2>4. CASE Goto(p, "discover", None)
    BY <1>G, <2>1, <2>2, <2>4 DEF Labels
  <2> QED  BY <1>3, <2>3, <2>4 DEF Get
<1>4. ASSUME NEW p \in Procs, DiscoverJWKSUri(p) PROVE TypeOK'
  <2>1. pc[p] \in Busy /\ UNCHANGED <<clock, provider, cache>>
    BY <1>4 DEF DiscoverJWKSUri, Busy, Labels
  <2>2. cache' \in [Kids -> [key : Usable \cup {None}, expiresAt : Int]]
    BY <1>0, <2>1 DEF TypeOK
  <2>3. CASE Goto(p, "fetch", None)
    BY <1>G, <2>1, <2>2, <2>3 DEF Labels
  <2>4. CASE \E err \in {"unreachable", "status", "unreadable", "no jwks_uri"} : Respond(p, mapJWTError(err))
    <3>1. PICK err \in {"unreachable", "status", "unreadable", "no jwks_uri"} : Respond(p, mapJWTError(err))
      BY <2>4
    <3> QED  BY <1>E, <2>1, <3>1
  <2> QED  BY <1>4, <2>3, <2>4 DEF DiscoverJWKSUri
<1>5. ASSUME NEW p \in Procs, FetchFails(p) PROVE TypeOK'
  <2>1. PICK err \in {"unreachable", "status", "unreadable"} : Respond(p, mapJWTError(err))
    BY <1>5 DEF FetchFails
  <2>2. UNCHANGED <<clock, provider, cache>>
    BY <1>5 DEF FetchFails
  <2> QED  BY <1>E, <2>1, <2>2
<1>6. ASSUME NEW p \in Procs, FetchJWKS(p) PROVE TypeOK'
  <2>0. pc[p] = "served" /\ UNCHANGED <<clock, provider, cache>>
    BY <1>6 DEF FetchJWKS
  <2>1. pc[p] \in Busy /\ UNCHANGED <<clock, provider, cache>> /\ key[p] \in Jwks \cup {None}
    BY <1>0, <2>0 DEF Busy, Labels, TypeOK
  <2>2. cache' \in [Kids -> [key : Usable \cup {None}, expiresAt : Int]]
    BY <1>0, <2>1 DEF TypeOK
  <2>3. \/ Respond(p, mapJWTError("unknown kid"))
        \/ Respond(p, mapJWTError(jwkToPublicKey(key[p])))
        \/ key[p] \in Usable /\ Goto(p, "store", key[p])
    BY <1>6, <2>1 DEF FetchJWKS
  <2>6. CASE key[p] \in Usable /\ Goto(p, "store", key[p])
    BY <1>G, <2>1, <2>2, <2>6 DEF Labels
  <2> QED  BY <1>E, <2>1, <2>3, <2>6
<1>7. ASSUME NEW p \in Procs, Store(p) PROVE TypeOK'
  <2>1. pc[p] \in Busy /\ UNCHANGED <<clock, provider>> /\ key[p] \in Usable /\ token[p].kid \in Kids
    BY <1>0, <1>7, <1>T DEF Store, Busy, Labels, TypeOK
  <2>2. [key |-> key[p], expiresAt |-> clock + TTL] \in [key : Usable \cup {None}, expiresAt : Int]
    BY <1>0, <2>1, Durations DEF TypeOK
  <2>3. cache' \in [Kids -> [key : Usable \cup {None}, expiresAt : Int]]
    BY <1>0, <1>7, <2>1, <2>2 DEF TypeOK, Store
  <2> QED  BY <1>7, <1>G, <2>1, <2>3 DEF Store, Labels
<1>8. ASSUME NEW p \in Procs, Verify(p) PROVE TypeOK'
  <2>1. (IF VerifySignature(token[p], key[p]) THEN {200} ELSE mapJWTError("signature")) \in SUBSET {200, 401, 502}
    BY Statuses
  <2> QED  BY <1>8, <1>R, <2>1 DEF Verify
<1>9. ASSUME NEW p \in Procs, Serve(p) PROVE TypeOK'
  <2>1. token[p].kid \in Kids
    BY <1>9, <1>T DEF Serve, Busy, Labels
  <2>2. pc' \in [Procs -> Labels] /\ key' \in [Procs -> Jwks \cup {None}]
    BY <1>0, <1>9, <2>1 DEF Serve, TypeOK, Labels
  <2>3. \A q \in Procs : /\ pc'[q] \notin {"idle", "done"} => token'[q] # None
                         /\ pc'[q] \in {"store", "verify"} => key'[q] \in Usable
    BY <1>0, <1>9 DEF TypeOK, Serve
  <2> QED  BY <1>0, <1>9, <2>2, <2>3 DEF TypeOK, Serve, provider, Labels
<1>10. ASSUME NEW p \in Procs, Leave(p) PROVE TypeOK'
  <2>1. pc' \in [Procs -> Labels] /\ answer' \in [Procs -> {0, 200, 401, 502}]
    BY <1>0, <1>10 DEF Leave, TypeOK, Labels
  <2>2. \A q \in Procs : /\ pc'[q] \notin {"idle", "done"} => token'[q] # None
                         /\ pc'[q] \in {"store", "verify"} => key'[q] \in Usable
    BY <1>0, <1>10 DEF TypeOK, Leave
  <2> QED  BY <1>0, <1>10, <2>1, <2>2 DEF TypeOK, Leave, provider, Labels
<1>11. ASSUME NEW kid \in Kids, Rotate(kid) PROVE TypeOK'
  <2>1. published' \in [Kids -> Jwks \cup {None}]
    BY <1>0, <1>11 DEF Rotate, TypeOK
  <2>2. [j \in Usable |-> IF j = published[kid] THEN clock ELSE gone[kid][j]] \in [Usable -> Int]
    BY <1>0 DEF TypeOK
  <2>3. gone' \in [Kids -> [Usable -> Int]]
    BY <1>0, <1>11, <2>2 DEF Rotate, TypeOK
  <2> QED  BY <1>0, <1>11, <2>1, <2>3 DEF Rotate, TypeOK, calls
<1>12. CASE Tick
  BY <1>0, <1>12 DEF Tick, TypeOK, calls, provider
<1> QED
  BY <1>1, <1>2, <1>3, <1>4, <1>5, <1>6, <1>7, <1>8, <1>9, <1>10, <1>11, <1>12 DEF Next, ValidateToken

-----------------------------------------------------------------------------
(***************************************************************************)
(* What was published at an instant that has come stays so recorded,       *)
(* whatever the provider does next.                                        *)
(***************************************************************************)
LEMMA Sticky ==
    ASSUME TypeOK, [Next]_vars, NEW kid \in Kids, NEW j \in Usable, NEW t \in Int, t <= clock,
           PublishedSince(kid, j, t)
    PROVE  PublishedThen(kid, j, t)
<1>1. CASE UNCHANGED provider
  BY <1>1 DEF provider, PublishedSince, PublishedThen
<1>2. ASSUME NEW k \in Kids, Rotate(k) PROVE PublishedThen(kid, j, t)
  <2>1. gone' = [gone EXCEPT ![k] = [i \in Usable |-> IF i = published[k] THEN clock ELSE gone[k][i]]]
    BY <1>2 DEF Rotate
  <2>2. gone[kid][j] \in Int /\ clock \in Int
    BY DEF TypeOK
  <2>3. CASE k = kid
    <3>1. gone'[kid][j] = IF j = published[kid] THEN clock ELSE gone[kid][j]
      BY <2>1, <2>3 DEF TypeOK
    <3> QED  BY <2>2, <3>1 DEF PublishedSince, PublishedThen
  <2>4. CASE k # kid
    <3>1. gone'[kid] = gone[kid] /\ published'[kid] = published[kid]
      BY <1>2, <2>4 DEF TypeOK, Rotate
    <3> QED  BY <3>1 DEF PublishedSince, PublishedThen
  <2> QED  BY <2>3, <2>4
<1>3. UNCHANGED provider \/ \E k \in Kids : Rotate(k)
  BY DEF Next, ValidateToken, Start, Get, DiscoverJWKSUri, FetchFails, FetchJWKS, Store, Verify, Serve,
         Leave, Tick, vars, provider
<1> QED  BY <1>1, <1>2, <1>3

(***************************************************************************)
(* A key published since one instant is published since any earlier one.   *)
(***************************************************************************)
LEMMA Earlier ==
    ASSUME TypeOK, NEW kid \in Kids, NEW j \in Usable, NEW t \in Int, NEW u \in Int, u <= t,
           PublishedSince(kid, j, t)
    PROVE  PublishedSince(kid, j, u)
<1>1. gone[kid][j] \in Int
  BY DEF TypeOK
<1> QED  BY <1>1 DEF PublishedSince

(***************************************************************************)
(* The clock never goes back.                                              *)
(***************************************************************************)
LEMMA ClockStep == TypeOK /\ [Next]_vars => clock' \in Nat /\ clock <= clock'
<1> SUFFICES ASSUME TypeOK, [Next]_vars PROVE clock' \in Nat /\ clock <= clock'
  OBVIOUS
<1>1. clock \in Nat
  BY DEF TypeOK
<1>2. clock' = clock \/ clock' = clock + 1
  BY DEF Next, ValidateToken, Start, Get, DiscoverJWKSUri, FetchFails, FetchJWKS, Store, Verify, Serve,
         Leave, Rotate, Tick, vars
<1> QED  BY <1>1, <1>2

(***************************************************************************)
(* The cache: only Set changes it, with a key that was published when its  *)
(* request was answered (KeyCache.Set).                                    *)
(***************************************************************************)
LEMMA CacheStep == Inv /\ [Next]_vars => CacheInv'
<1> SUFFICES ASSUME Inv, [Next]_vars, NEW kid \in Kids, cache'[kid] # NotCached
             PROVE  /\ cache'[kid].key \in Usable
                    /\ cache'[kid].expiresAt - TTL <= clock'
                    /\ PublishedThen(kid, cache'[kid].key, cache'[kid].expiresAt - TTL - Timeout - MaxStall)
  BY DEF CacheInv, PublishedSince, PublishedThen
<1>0. TypeOK /\ CacheInv /\ clock \in Nat
  BY DEF Inv, TypeOK
<1>1. clock' \in Nat /\ clock <= clock'
  BY <1>0, ClockStep
<1>2. CASE cache'[kid] = cache[kid]
  <2> DEFINE e == cache[kid].expiresAt
             t == e - TTL - Timeout - MaxStall
  <2>1. cache[kid].key \in Usable /\ e - TTL <= clock /\ PublishedSince(kid, cache[kid].key, t) /\ e \in Int
    BY <1>0, <1>2 DEF CacheInv, TypeOK
  <2>2. t \in Int /\ t <= clock
    BY <1>0, <2>1, Durations
  <2> HIDE DEF t
  <2>3. PublishedThen(kid, cache[kid].key, t)
    BY <1>0, <2>1, <2>2, Sticky
  <2>4. e - TTL <= clock'
    BY <1>0, <1>1, <2>1, Durations
  <2> QED  BY <1>2, <2>1, <2>3, <2>4 DEF t
<1>3. ASSUME NEW p \in Procs, Store(p), kid = token[p].kid
      PROVE  /\ cache'[kid].key \in Usable
             /\ cache'[kid].expiresAt - TTL <= clock'
             /\ PublishedThen(kid, cache'[kid].key, cache'[kid].expiresAt - TTL - Timeout - MaxStall)
  <2>1. /\ pc[p] = "store" /\ key[p] \in Usable /\ since[p] \in Nat
        /\ cache'[kid] = [key |-> key[p], expiresAt |-> clock + TTL]
        /\ clock' = clock
    BY <1>0, <1>3 DEF Store, TypeOK
  <2>2. /\ clock <= since[p] + MaxStall /\ since[p] <= clock
        /\ PublishedSince(kid, key[p], since[p] - Timeout)
    BY <1>3, <2>1 DEF Inv, CallInv, Busy, Labels, Patience, Age
  <2> DEFINE t == clock - Timeout - MaxStall
  <2>3. t \in Int /\ t <= clock /\ t <= since[p] - Timeout /\ since[p] - Timeout \in Int
    BY <1>0, <2>1, <2>2, Durations
  <2>4. cache'[kid].expiresAt - TTL - Timeout - MaxStall = t /\ cache'[kid].expiresAt - TTL = clock
    BY <1>0, <2>1, Durations
  <2> HIDE DEF t
  <2>5. PublishedSince(kid, key[p], t)
    BY <1>0, <2>1, <2>2, <2>3, Earlier
  <2>6. PublishedThen(kid, key[p], t)
    BY <1>0, <2>1, <2>3, <2>5, Sticky
  <2> QED  BY <1>0, <2>1, <2>4, <2>6
<1>4. cache'[kid] = cache[kid] \/ \E p \in Procs : Store(p) /\ kid = token[p].kid
  <2>1. cache' = cache \/ \E p \in Procs : Store(p)
    BY DEF Next, ValidateToken, Start, Get, DiscoverJWKSUri, FetchFails, FetchJWKS, Verify, Serve,
           Leave, Rotate, Tick, vars
  <2>2. ASSUME NEW p \in Procs, Store(p), kid # token[p].kid PROVE cache'[kid] = cache[kid]
    BY <1>0, <2>2 DEF Store, TypeOK
  <2> QED  BY <2>1, <2>2
<1> QED  BY <1>2, <1>3, <1>4

(***************************************************************************)
(* A goroutine that a step leaves where it is keeps what it knows.         *)
(***************************************************************************)
LEMMA Waiting ==
    ASSUME Inv, [Next]_vars, NEW q \in Procs, clock' = clock,
           pc'[q] = pc[q], token'[q] = token[q], key'[q] = key[q], since'[q] = since[q]
    PROVE  CallInv(q)'
<1> SUFFICES ASSUME pc[q] \in Busy PROVE CallInv(q)'
  BY DEF CallInv
<1>0. TypeOK /\ CallInv(q) /\ clock \in Nat /\ since[q] \in Nat /\ pc[q] \in Labels
  BY DEF Inv, TypeOK, Labels
<1>1. token[q].kid \in Kids
  BY <1>0, TokenFacts DEF TypeOK, Busy
<1>2. pc[q] \in {"served", "store", "verify"} /\ key[q] \in Usable =>
         PublishedThen(token[q].kid, key[q], since[q] - Age(pc[q]))
  <2> SUFFICES ASSUME pc[q] \in {"served", "store", "verify"}, key[q] \in Usable
               PROVE  PublishedThen(token[q].kid, key[q], since[q] - Age(pc[q]))
    OBVIOUS
  <2> DEFINE t == since[q] - Age(pc[q])
  <2>1. PublishedSince(token[q].kid, key[q], t) /\ since[q] <= clock
    BY <1>0 DEF CallInv
  <2>2. t \in Int /\ t <= clock
    BY <1>0, <2>1, Durations
  <2> HIDE DEF t
  <2>4. \A kid \in Kids, j \in Usable : PublishedSince(kid, j, t) => PublishedThen(kid, j, t)
    BY <1>0, <2>2, Sticky
  <2>5. PublishedThen(token[q].kid, key[q], t)
    BY <1>1, <2>1, <2>4
  <2> QED  BY <2>5 DEF t
<1> QED  BY <1>0, <1>2 DEF CallInv, PublishedSince, PublishedThen

(***************************************************************************)
(* A goroutine that comes to l within its patience, with a key of the age  *)
(* l allows.                                                               *)
(***************************************************************************)
LEMMA Moving ==
    ASSUME Inv, [Next]_vars, NEW p \in Procs, NEW l \in Busy, NEW k \in Jwks \cup {None},
           pc[p] \in Busy, Goto(p, l, k), clock' = clock,
           Patience(pc[p]) + Budget(pc[p]) <= Budget(l),
           l \in {"served", "store", "verify"} /\ k \in Usable => PublishedSince(token[p].kid, k, clock - Age(l))
    PROVE  \A q \in Procs : CallInv(q)'
<1>0. TypeOK /\ CallInv(p) /\ clock \in Nat /\ since[p] \in Nat /\ pc[p] \in Labels /\ l \in Labels
  BY DEF Inv, TypeOK, Labels, Busy
<1>1. /\ pc'[p] = l /\ key'[p] = k /\ since'[p] = clock /\ token' = token
      /\ \A q \in Procs : q # p => pc'[q] = pc[q] /\ key'[q] = key[q] /\ since'[q] = since[q]
  BY <1>0, GotoFacts
<1>2. \A q \in Procs : q # p => CallInv(q)'
  BY <1>1, Waiting
<1>3. token[p].kid \in Kids /\ token[p].exp \subseteq Int
  BY <1>0, TokenFacts DEF TypeOK, Busy
<1>4. clock <= clock + Patience(l)
  BY <1>0, Durations
<1>5. \A v \in token[p].exp : clock <= v + Tolerance + Budget(l)
  <2> SUFFICES ASSUME NEW v \in token[p].exp PROVE clock <= v + Tolerance + Budget(l)
    OBVIOUS
  <2>1. clock <= since[p] + Patience(pc[p]) /\ since[p] <= v + Tolerance + Budget(pc[p])
    BY <1>0 DEF CallInv
  <2>2. v \in Int /\ Budget(l) \in Int /\ Budget(pc[p]) \in Int /\ Patience(pc[p]) \in Int /\ Tolerance \in Int
    BY <1>0, <1>3, Durations
  <2> QED  BY <1>0, <2>1, <2>2
<1>6. l \in {"served", "store", "verify"} /\ k \in Usable => PublishedThen(token[p].kid, k, clock - Age(l))
  <2> SUFFICES ASSUME l \in {"served", "store", "verify"}, k \in Usable
               PROVE  PublishedThen(token[p].kid, k, clock - Age(l))
    OBVIOUS
  <2>1. clock - Age(l) \in Int /\ clock - Age(l) <= clock
    BY <1>0, Durations
  <2> QED  BY <1>0, <1>3, <2>1, Sticky
<1>7. CallInv(p)'
  BY <1>0, <1>1, <1>4, <1>5, <1>6 DEF CallInv, PublishedSince, PublishedThen
<1> QED  BY <1>2, <1>7

(***************************************************************************)
(* A goroutine that answers no longer holds a key.                         *)
(***************************************************************************)
LEMMA Answering ==
    ASSUME Inv, [Next]_vars, NEW p \in Procs, NEW S \in SUBSET {200, 401, 502}, Respond(p, S), clock' = clock
    PROVE  \A q \in Procs : CallInv(q)'
<1>0. TypeOK
  BY DEF Inv
<1>1. /\ pc'[p] = "done"
      /\ \A q \in Procs : q # p => /\ pc'[q] = pc[q] /\ key'[q] = key[q] /\ since'[q] = since[q]
                                   /\ token'[q] = token[q]
  BY <1>0, RespondFacts
<1>2. \A q \in Procs : q # p => CallInv(q)'
  BY <1>1, Waiting
<1>3. CallInv(p)'
  BY <1>1 DEF CallInv, Busy
<1> QED  BY <1>2, <1>3

(***************************************************************************)
(* What a sound token has in its exp (validateStandardClaims).             *)
(***************************************************************************)
LEMMA SoundInTime ==
    ASSUME NEW t \in Tokens, NEW now \in Nat, Sound(t, now)
    PROVE  \A v \in t.exp : now <= v + Tolerance
<1>1. 7 \in DOMAIN Checks /\ Checks[7] = "expired"
  BY DEF Checks
<1>2. ~Fails(t, "expired", now)
  BY <1>1 DEF Sound
<1>3. \A v \in t.exp : v \in Int /\ Tolerance \in Int
  BY TokenFacts, Durations
<1> QED  BY <1>2, <1>3 DEF Fails

(***************************************************************************)
(* Every step of a goroutine keeps to the time and the age its place in    *)
(* ValidateToken allows.                                                   *)
(***************************************************************************)
LEMMA CallStep == Inv /\ [Next]_vars => \A q \in Procs : CallInv(q)'
<1> SUFFICES ASSUME Inv, [Next]_vars PROVE \A q \in Procs : CallInv(q)'
  OBVIOUS
<1>0. TypeOK /\ CacheInv /\ clock \in Nat /\ (\A p \in Procs : CallInv(p)) /\ clock' \in Nat
  BY ClockStep DEF Inv, TypeOK
<1>T. \A p \in Procs : pc[p] \in Busy => token[p].kid \in Kids /\ token[p].exp \subseteq Int
  BY <1>0, TokenFacts DEF TypeOK, Busy
<1>M. Timeout \in Nat /\ MaxStall \in Nat
  BY Durations
<1>E. ASSUME NEW p \in Procs, NEW err, Respond(p, mapJWTError(err)), clock' = clock
      PROVE  \A q \in Procs : CallInv(q)'
  <2> DEFINE S == mapJWTError(err)
  <2>1. S \in SUBSET {200, 401, 502} /\ Respond(p, S)
    BY <1>E, Statuses
  <2> HIDE DEF S
  <2> QED  BY <1>E, <2>1, Answering
<1>1. CASE UNCHANGED vars
  BY <1>1, Waiting DEF vars
<1>2. ASSUME NEW p \in Procs, NEW t \in Tokens, Start(p, t) PROVE \A q \in Procs : CallInv(q)'
  <2>1. CASE Sound(t, clock) /\ pc' = [pc EXCEPT ![p] = "get"]
             /\ token' = [token EXCEPT ![p] = t] /\ since' = [since EXCEPT ![p] = clock]
             /\ UNCHANGED <<key, answer>>
    <3>1. \A q \in Procs : q # p => CallInv(q)'
      <4>1. clock' = clock
        BY <1>2 DEF Start
      <4>2. \A q \in Procs : q # p => /\ pc'[q] = pc[q] /\ key'[q] = key[q] /\ since'[q] = since[q]
                                      /\ token'[q] = token[q]
        BY <1>0, <2>1 DEF TypeOK
      <4> QED  BY <4>1, <4>2, Waiting
    <3>2. pc'[p] = "get" /\ token'[p] = t /\ since'[p] = clock /\ clock' = clock
      BY <1>0, <1>2, <2>1 DEF TypeOK, Start
    <3>3. \A v \in t.exp : v \in Int /\ Tolerance \in Int /\ clock <= v + Tolerance
      BY <1>0, <2>1, SoundInTime, TokenFacts, Durations
    <3>4. \A v \in t.exp : clock <= v + Tolerance + 0
      BY <1>0, <3>3
    <3>5. clock <= clock + Patience("get") /\ Budget("get") = 0
      BY <1>0, <1>M DEF Patience, Budget
    <3>6. CallInv(p)'
      BY <1>0, <3>2, <3>4, <3>5 DEF CallInv
    <3> QED  BY <3>1, <3>6
  <2>2. CASE Respond(p, mapJWTError(FirstFailure(t, clock)))
    BY <1>2, <1>E, <2>2 DEF Start
  <2> QED  BY <1>2, <2>1, <2>2 DEF Start
<1>3. ASSUME NEW p \in Procs, Get(p) PROVE \A q \in Procs : CallInv(q)'
  <2>1. pc[p] = "get" /\ pc[p] \in Busy /\ clock' = clock
    BY <1>3 DEF Get, Busy, Labels
  <2>2. CASE Hit(token[p].kid) /\ Goto(p, "verify", cache[token[p].kid].key)
    <3> DEFINE kid == token[p].kid
               k == cache[kid].key
               e == cache[kid].expiresAt
    <3>1. /\ kid \in Kids /\ k \in Usable /\ e \in Int /\ e - TTL <= clock /\ clock <= e
          /\ PublishedSince(kid, k, e - TTL - Timeout - MaxStall)
      BY <1>0, <1>T, <2>1, <2>2, HitFacts
    <3>2. Age("verify") = Timeout + MaxStall + Lag
      BY DEF Age
    <3>3. clock - Age("verify") <= e - TTL - Timeout - MaxStall
      BY <1>0, <3>1, <3>2, Durations
    <3>4. clock - Age("verify") \in Int /\ e - TTL - Timeout - MaxStall \in Int
      BY <1>0, <3>1, <3>2, Durations
    <3>5. PublishedSince(kid, k, clock - Age("verify"))
      BY <1>0, <3>1, <3>3, <3>4, Earlier
    <3>6. Patience("get") + Budget("get") <= Budget("verify")
      BY <1>M DEF Patience, Budget
    <3>7. "verify" \in Busy /\ k \in Jwks \cup {None}
      BY <3>1, TokenFacts DEF Busy, Labels
    <3> QED  BY <2>1, <2>2, <3>5, <3>6, <3>7, Moving
  <2>3. CASE Goto(p, "discover", None)
    <3>1. Patience("get") + Budget("get") <= Budget("discover")
      BY <1>M DEF Patience, Budget
    <3>2. "discover" \in Busy
      BY DEF Busy, Labels
    <3> QED  BY <2>1, <2>3, <3>1, <3>2, Moving
  <2> QED  BY <1>3, <2>2, <2>3 DEF Get
<1>4. ASSUME NEW p \in Procs, DiscoverJWKSUri(p) PROVE \A q \in Procs : CallInv(q)'
  <2>1. pc[p] = "discover" /\ pc[p] \in Busy /\ clock' = clock
    BY <1>4 DEF DiscoverJWKSUri, Busy, Labels
  <2>2. CASE Goto(p, "fetch", None)
    <3>1. Patience("discover") + Budget("discover") <= Budget("fetch")
      BY <1>M DEF Patience, Budget
    <3>2. "fetch" \in Busy
      BY DEF Busy, Labels
    <3> QED  BY <2>1, <2>2, <3>1, <3>2, Moving
  <2>3. CASE \E err \in {"unreachable", "status", "unreadable", "no jwks_uri"} : Respond(p, mapJWTError(err))
    <3>1. PICK err \in {"unreachable", "status", "unreadable", "no jwks_uri"} : Respond(p, mapJWTError(err))
      BY <2>3
    <3> QED  BY <1>E, <2>1, <3>1
  <2> QED  BY <1>4, <2>2, <2>3 DEF DiscoverJWKSUri
<1>5. ASSUME NEW p \in Procs, FetchFails(p) PROVE \A q \in Procs : CallInv(q)'
  <2>1. PICK err \in {"unreachable", "status", "unreadable"} : Respond(p, mapJWTError(err))
    BY <1>5 DEF FetchFails
  <2>2. clock' = clock
    BY <1>5 DEF FetchFails
  <2> QED  BY <1>E, <2>1, <2>2
<1>6. ASSUME NEW p \in Procs, FetchJWKS(p) PROVE \A q \in Procs : CallInv(q)'
  <2>1. pc[p] = "served" /\ clock' = clock
    BY <1>6 DEF FetchJWKS
  <2>2. key[p] \in Jwks \cup {None}
    BY <1>0 DEF TypeOK
  <2>3. \/ Respond(p, mapJWTError("unknown kid"))
        \/ Respond(p, mapJWTError(jwkToPublicKey(key[p])))
        \/ key[p] \in Usable /\ Goto(p, "store", key[p])
    BY <1>6, <2>2 DEF FetchJWKS
  <2>4. CASE key[p] \in Usable /\ Goto(p, "store", key[p])
    <3>1. pc[p] \in Busy /\ "store" \in Busy
      BY <2>1 DEF Busy, Labels
    <3>2. /\ PublishedSince(token[p].kid, key[p], since[p] - Age("served"))
          /\ clock <= since[p] + Patience("served")
      BY <1>0, <2>1, <2>4, <3>1 DEF CallInv
    <3>3. Age("served") = 0 /\ Age("store") = Timeout /\ Patience("served") = Timeout /\ since[p] \in Nat
      BY <1>0 DEF Age, Patience, TypeOK
    <3>4. /\ clock - Age("store") \in Int /\ since[p] - Age("served") \in Int
          /\ clock - Age("store") <= since[p] - Age("served")
      BY <1>0, <1>M, <3>2, <3>3
    <3>5. PublishedSince(token[p].kid, key[p], clock - Age("store"))
      BY <1>0, <1>T, <2>4, <3>1, <3>2, <3>4, Earlier
    <3>6. Patience("served") + Budget("served") <= Budget("store")
      BY <1>M DEF Patience, Budget
    <3> QED  BY <2>1, <2>2, <2>4, <3>1, <3>5, <3>6, Moving
  <2> QED  BY <1>E, <2>1, <2>3, <2>4
<1>7. ASSUME NEW p \in Procs, Store(p) PROVE \A q \in Procs : CallInv(q)'
  <2>1. pc[p] = "store" /\ clock' = clock /\ key[p] \in Usable /\ Goto(p, "verify", key[p])
    BY <1>0, <1>7 DEF Store, TypeOK
  <2>2. pc[p] \in Busy /\ "verify" \in Busy /\ key[p] \in Jwks \cup {None}
    BY <2>1, TokenFacts DEF Busy, Labels
  <2>3. /\ PublishedSince(token[p].kid, key[p], since[p] - Age("store"))
        /\ clock <= since[p] + Patience("store")
    BY <1>0, <2>1, <2>2 DEF CallInv
  <2>4. /\ Age("store") = Timeout /\ Age("verify") = Timeout + MaxStall + Lag /\ Patience("store") = MaxStall
        /\ since[p] \in Nat
    BY <1>0 DEF Age, Patience, TypeOK
  <2>5. /\ clock - Age("verify") \in Int /\ since[p] - Age("store") \in Int
        /\ clock - Age("verify") <= since[p] - Age("store")
    BY <1>0, <2>3, <2>4, Durations
  <2>6. PublishedSince(token[p].kid, key[p], clock - Age("verify"))
    BY <1>0, <1>T, <2>1, <2>2, <2>3, <2>5, Earlier
  <2>7. Patience("store") + Budget("store") <= Budget("verify")
    BY <1>M DEF Patience, Budget
  <2> QED  BY <2>1, <2>2, <2>6, <2>7, Moving
<1>8. ASSUME NEW p \in Procs, Verify(p) PROVE \A q \in Procs : CallInv(q)'
  <2> DEFINE S == IF VerifySignature(token[p], key[p]) THEN {200} ELSE mapJWTError("signature")
  <2>1. S \in SUBSET {200, 401, 502} /\ Respond(p, S) /\ clock' = clock
    BY <1>8, Statuses DEF Verify
  <2> HIDE DEF S
  <2> QED  BY <2>1, Answering
<1>9. ASSUME NEW p \in Procs, Serve(p) PROVE \A q \in Procs : CallInv(q)'
  <2>1. /\ pc[p] = "fetch" /\ clock' = clock /\ token' = token /\ since' = since
        /\ pc'[p] = "served" /\ key'[p] = published[token[p].kid] /\ published' = published
        /\ \A q \in Procs : q # p => pc'[q] = pc[q] /\ key'[q] = key[q]
    BY <1>0, <1>9 DEF Serve, TypeOK, provider
  <2>2. \A q \in Procs : q # p => CallInv(q)'
    BY <2>1, Waiting
  <2>3. /\ since[p] <= clock /\ clock <= since[p] + Patience("fetch")
        /\ \A v \in token[p].exp : since[p] <= v + Tolerance + Budget("fetch")
    BY <1>0, <2>1 DEF CallInv, Busy, Labels
  <2>4. Patience("served") = Patience("fetch") /\ Budget("served") = Budget("fetch")
    BY DEF Patience, Budget
  <2>5. CallInv(p)'
    BY <2>1, <2>3, <2>4 DEF CallInv, PublishedSince
  <2> QED  BY <2>2, <2>5
<1>10. ASSUME NEW p \in Procs, Leave(p) PROVE \A q \in Procs : CallInv(q)'
  <2>1. /\ pc'[p] = "idle" /\ clock' = clock /\ token' = token /\ since' = since /\ key' = key
        /\ \A q \in Procs : q # p => pc'[q] = pc[q]
    BY <1>0, <1>10 DEF Leave, TypeOK
  <2>2. \A q \in Procs : q # p => CallInv(q)'
    BY <2>1, Waiting
  <2>3. CallInv(p)'
    BY <2>1 DEF CallInv, Busy
  <2> QED  BY <2>2, <2>3
<1>11. ASSUME NEW kid \in Kids, Rotate(kid) PROVE \A q \in Procs : CallInv(q)'
  BY <1>11, Waiting DEF Rotate, calls
<1>12. CASE Tick
  <2> SUFFICES ASSUME NEW q \in Procs, pc'[q] \in Busy PROVE CallInv(q)'
    BY DEF CallInv
  <2>1. /\ UNCHANGED <<published, gone, cache, pc, token, key, since, answer>>
        /\ clock' = clock + 1
        /\ clock < since[q] + Patience(pc[q])
    BY <1>12 DEF Tick, provider, calls, Busy
  <2>2. CallInv(q) /\ pc[q] \in Busy /\ since[q] \in Nat /\ Patience(pc[q]) \in Nat
    BY <1>0, <2>1, Durations DEF TypeOK, Busy
  <2>3. since[q] <= clock' /\ clock' <= since[q] + Patience(pc[q])
    BY <1>0, <2>1, <2>2 DEF CallInv
  <2> QED  BY <2>1, <2>2, <2>3 DEF CallInv, PublishedSince
<1> QED
  BY <1>1, <1>2, <1>3, <1>4, <1>5, <1>6, <1>7, <1>8, <1>9, <1>10, <1>11, <1>12 DEF Next, ValidateToken

-----------------------------------------------------------------------------
(***************************************************************************)
(* The inductive invariant: what the cache and every goroutine knows of    *)
(* the age of its key, and the time since its token was checked.           *)
(***************************************************************************)
THEOREM Invariance == Spec => []Inv
<1>1. Init => Inv
  <2> SUFFICES ASSUME Init PROVE Inv  OBVIOUS
  <2>1. TypeOK
    <3>1. MaxAge \in Int
      BY Durations
    <3>2. gone \in [Kids -> [Usable -> Int]]
      BY <3>1 DEF Init
    <3>3. cache \in [Kids -> [key : Usable \cup {None}, expiresAt : Int]]
      BY DEF Init, NotCached
    <3> QED  BY <3>2, <3>3 DEF Init, TypeOK
  <2>2. CacheInv
    BY DEF Init, CacheInv
  <2>3. \A p \in Procs : CallInv(p)
    BY DEF Init, CallInv, Busy
  <2> QED  BY <2>1, <2>2, <2>3 DEF Inv
<1>2. Inv /\ [Next]_vars => Inv'
  BY TypeStep, CacheStep, CallStep DEF Inv
<1> QED  BY <1>1, <1>2, PTL DEF Spec

(***************************************************************************)
(* Only keys that convert are cached or used (jwkToPublicKey).             *)
(***************************************************************************)
THEOREM TypeCorrect == Spec => []TypeOK
<1>1. Inv => TypeOK  BY DEF Inv
<1> QED  BY <1>1, Invariance, PTL

(***************************************************************************)
(* A key the provider took back stops verifying tokens within the cache's  *)
(* time to live and one request, for any number of concurrent misses.      *)
(***************************************************************************)
THEOREM KeysLapse == Spec => []RetiredKeysLapse
<1>1. Inv => RetiredKeysLapse
  <2> SUFFICES ASSUME Inv, NEW p \in Procs, pc[p] = "verify"
               PROVE  PublishedSince(token[p].kid, key[p], clock - MaxAge)
    BY DEF RetiredKeysLapse
  <2>0. TypeOK /\ CallInv(p) /\ pc[p] \in Busy
    BY DEF Inv, Busy, Labels
  <2>1. clock \in Nat /\ since[p] \in Nat /\ key[p] \in Usable /\ token[p].kid \in Kids
    BY <2>0, TokenFacts DEF TypeOK
  <2>2. PublishedSince(token[p].kid, key[p], since[p] - Age("verify")) /\ clock <= since[p] + Patience("verify")
    BY <2>0, <2>1 DEF CallInv
  <2>3. Age("verify") = Timeout + MaxStall + Lag /\ Patience("verify") = MaxStall
    BY DEF Age, Patience
  <2>4. /\ clock - MaxAge \in Int /\ since[p] - Age("verify") \in Int
        /\ clock - MaxAge <= since[p] - Age("verify")
    BY <2>1, <2>2, <2>3, Durations
  <2> QED  BY <2>0, <2>1, <2>2, <2>4, Earlier
<1> QED  BY <1>1, Invariance, PTL

(***************************************************************************)
(* No token is accepted longer than two requests and the goroutine's       *)
(* pauses after its expiry.                                                *)
(***************************************************************************)
THEOREM ExpiryIsKept == Spec => AcceptedInTime
<1> DEFINE A == \A p \in Procs : pc[p] = "verify" /\ answer'[p] = 200
                   => \A v \in token[p].exp : clock <= v + Tolerance + MaxWait
<1>1. Inv => A
  <2> SUFFICES ASSUME Inv, NEW p \in Procs, pc[p] = "verify", NEW v \in token[p].exp
               PROVE  clock <= v + Tolerance + MaxWait
    OBVIOUS
  <2>0. TypeOK /\ CallInv(p) /\ pc[p] \in Busy
    BY DEF Inv, Busy, Labels
  <2>1. clock \in Nat /\ since[p] \in Nat /\ v \in Int
    BY <2>0, TokenFacts DEF TypeOK
  <2>2. clock <= since[p] + Patience("verify") /\ since[p] <= v + Tolerance + Budget("verify")
    BY <2>0 DEF CallInv
  <2>3. /\ Patience("verify") = MaxStall /\ Budget("verify") = 2 * MaxStall + 2 * Timeout
        /\ MaxWait = 2 * Timeout + 3 * MaxStall
    BY DEF Patience, Budget, MaxWait
  <2> QED  BY <2>1, <2>2, <2>3, Durations
<1> QED  BY <1>1, Invariance, PTL DEF Spec, AcceptedInTime
=============================================================================
