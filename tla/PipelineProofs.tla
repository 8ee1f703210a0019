---------------------------- MODULE PipelineProofs ----------------------------
(***************************************************************************)
(* Proofs about the request pipeline, for any configurations, requests,    *)
(* headers and claims.                                                     *)
(***************************************************************************)
EXTENDS Pipeline, SequenceTheorems, TLAPS

\* What the sanitizer leaves of a request's headers.
Visible(r) == [h \in HeaderNames |-> IF h \in Prefixed THEN "" ELSE r.header[h]]

Admitted(c, r) == Open(c, r) \/ TokenAccepted(c, r) \/ KeyAccepted(c, r)

\* The dynamic rules have a place in the chain.
Ruled(c) == c.build = "lite" \/ c.admin

Entering == {"idle", "route", "body", "sanitize"}
Asking == {"paths", "rules", "apikey", "jwt", "ip", "auth"}

\* The mark that the JWT limiter leaves, once it was passed, and what it costs.
MarkInv ==
    /\ stage \in Entering \cup {"paths", "rules", "apikey", "jwt"} => identified = FALSE
    /\ stage = "ip" /\ identified /\ "jwt" \in since => "jwt" \in asked
    /\ stage \in {"auth", "forward"} /\ {"jwt", "ip"} \subseteq since => asked \cap {"jwt", "ip"} # {}

\* What is known of a request at each handler.
StageInv ==
    /\ stage # "done" => refusing = {} /\ upstream.to = "none"
    /\ stage \in Entering \ {"idle"} => header = req.header
    /\ stage \in Asking => header = Visible(req)
    /\ stage = "rules" => Ruled(cfg)
    /\ stage \in Limiters \cup {"auth"} => needsAuth = ShouldAuthenticate(cfg, req.path)
    /\ stage = "forward" => Admitted(cfg, req) /\ Proved(cfg, req, header)

DoneInv ==
    stage = "done" => IdentityProved /\ TargetReachedByRight /\ NoGapBetweenLimiters

Inv == TypeOK /\ MarkInv /\ StageInv /\ DoneInv

-----------------------------------------------------------------------------
(***************************************************************************)
(* The plugins in order of priority (OfType).                              *)
(***************************************************************************)
LEMMA PluginOrder == OfType[1] = "admin" /\ OfType[2] = "ratelimit"
<1> DEFINE P(s) == Priority(s[1]) < Priority(s[2])
           w == [i \in {1, 2} |-> IF i = 1 THEN "admin" ELSE "ratelimit"]
<1>1. w \in [{1, 2} -> Providers] /\ P(w)
  BY DEF Providers, Priority
<1>2. OfType \in [{1, 2} -> Providers] /\ P(OfType)
  BY <1>1 DEF OfType
<1>3. OfType[1] \in Providers /\ OfType[2] \in Providers
  BY <1>2
<1> QED  BY <1>2, <1>3 DEF Priority, Providers

(***************************************************************************)
(* Two lists, one behind the other.                                        *)
(***************************************************************************)
LEMMA Joined ==
    ASSUME NEW s \in Seq(Stages), NEW t \in Seq(Stages)
    PROVE  /\ s \o t \in Seq(Stages) /\ Len(s \o t) = Len(s) + Len(t)
           /\ \A i \in 1..Len(s) : (s \o t)[i] = s[i]
           /\ \A i \in 1..Len(t) : (s \o t)[Len(s) + i] = t[i]
<1>1. /\ s \o t \in Seq(Stages) /\ Len(s \o t) = Len(s) + Len(t)
      /\ \A i \in 1..Len(s) + Len(t) : (s \o t)[i] = IF i <= Len(s) THEN s[i] ELSE t[i - Len(s)]
  BY ConcatProperties
<1>2. Len(s) \in Nat /\ Len(t) \in Nat
  OBVIOUS
<1>3. ASSUME NEW i \in 1..Len(s) PROVE (s \o t)[i] = s[i]
  BY <1>1, <1>2
<1>4. ASSUME NEW i \in 1..Len(t) PROVE (s \o t)[Len(s) + i] = t[i]
  <2>1. Len(s) + i \in 1..Len(s) + Len(t) /\ ~(Len(s) + i <= Len(s)) /\ (Len(s) + i) - Len(s) = i
    BY <1>2
  <2> QED  BY <1>1, <2>1
<1> QED  BY <1>1, <1>3, <1>4

(***************************************************************************)
(* What each build puts behind the core middleware (BuildMiddleware, and   *)
(* the list NewHandlerWithDeps writes down).                               *)
(***************************************************************************)
LEMMA PluginPart ==
    ASSUME NEW c \in Configs, NEW p, p = pluginMiddlewares(c)
    PROVE  /\ p \in Seq(Stages)
           /\ Ruled(c) => /\ Len(p) = 4
                          /\ p[1] = "rules" /\ p[2] = "apikey" /\ p[3] = "jwt" /\ p[4] = "ip"
           /\ ~Ruled(c) => Len(p) = 3 /\ p[1] = "apikey" /\ p[2] = "jwt" /\ p[3] = "ip"
<1>1. /\ <<"rules">> \in Seq(Stages)
      /\ <<"apikey", "jwt", "ip">> \in Seq(Stages)
  BY DEF Stages
<1>2. Len(<<"rules">>) = 1 /\ Len(<<"apikey", "jwt", "ip">>) = 3
  OBVIOUS
<1>3. c.build \in {"flex", "lite"} /\ c.admin \in BOOLEAN
  BY ConfigAssumption
<1>4. CASE c.build = "lite"
  <2>1. p = <<"rules", "apikey", "jwt", "ip">>
    BY <1>4 DEF pluginMiddlewares, legacyMiddlewares
  <2> QED  BY <1>4, <2>1 DEF Ruled, Stages
<1>5. CASE c.build = "flex" /\ ~c.admin
  <2>1. p = <<>> \o <<"apikey", "jwt", "ip">>
    BY <1>5, PluginOrder DEF pluginMiddlewares, BuildMiddleware
  <2>2. p = <<"apikey", "jwt", "ip">>
    BY <2>1
  <2> QED  BY <1>1, <1>2, <1>5, <2>2 DEF Ruled
<1>6. CASE c.build = "flex" /\ c.admin
  <2>1. PICK s, t : s = <<"rules">> /\ t = <<"apikey", "jwt", "ip">>
    OBVIOUS
  <2>2. p = s \o t
    BY <1>6, <2>1, PluginOrder DEF pluginMiddlewares, BuildMiddleware
  <2>3. /\ s \in Seq(Stages) /\ t \in Seq(Stages) /\ Len(s) = 1 /\ Len(t) = 3
        /\ s[1] = "rules" /\ t[1] = "apikey" /\ t[2] = "jwt" /\ t[3] = "ip"
    BY <1>1, <1>2, <2>1
  <2>4. /\ p \in Seq(Stages) /\ Len(p) = 1 + 3
        /\ \A i \in 1..1 : p[i] = s[i]
        /\ \A i \in 1..3 : p[1 + i] = t[i]
    <3>1. /\ s \o t \in Seq(Stages) /\ Len(s \o t) = Len(s) + Len(t)
          /\ \A i \in 1..Len(s) : (s \o t)[i] = s[i]
          /\ \A i \in 1..Len(t) : (s \o t)[Len(s) + i] = t[i]
      BY ONLY <2>3, Joined
    <3> QED  BY ONLY <2>2, <2>3, <3>1
  <2>5. p[1] = s[1] /\ p[1 + 1] = t[1] /\ p[1 + 2] = t[2] /\ p[1 + 3] = t[3]
    BY ONLY <2>4
  <2>6. Len(p) = 4 /\ p[1] = "rules" /\ p[2] = "apikey" /\ p[3] = "jwt" /\ p[4] = "ip"
    BY ONLY <2>3, <2>4, <2>5
  <2> QED  BY <1>6, <2>4, <2>6 DEF Ruled
<1> QED  BY <1>3, <1>4, <1>5, <1>6

(***************************************************************************)
(* The whole chain, place by place.                                        *)
(***************************************************************************)
LEMMA Layouts ==
    ASSUME NEW c \in Configs, NEW ch, ch = Chain(c)
    PROVE  /\ ch[1] = "body" /\ ch[2] = "sanitize" /\ ch[3] = "paths"
           /\ Ruled(c) => /\ Len(ch) = 8 /\ ch[4] = "rules" /\ ch[5] = "apikey"
                          /\ ch[6] = "jwt" /\ ch[7] = "ip" /\ ch[8] = "auth"
           /\ ~Ruled(c) => /\ Len(ch) = 7 /\ ch[4] = "apikey" /\ ch[5] = "jwt"
                           /\ ch[6] = "ip" /\ ch[7] = "auth"
<1>1. PICK core, p, last, most :
         /\ core = coreMiddlewares /\ p = pluginMiddlewares(c) /\ last = <<"auth">>
         /\ most = core \o p
  OBVIOUS
<1>2. core \in Seq(Stages) /\ last \in Seq(Stages) /\ Len(core) = 3 /\ Len(last) = 1
  BY <1>1 DEF coreMiddlewares, Stages
<1>3. core[1] = "body" /\ core[2] = "sanitize" /\ core[3] = "paths" /\ last[1] = "auth"
  BY <1>1 DEF coreMiddlewares
<1>4. ch = most \o last
  BY <1>1 DEF Chain
<1>5. /\ p \in Seq(Stages)
      /\ Ruled(c) => Len(p) = 4 /\ p[1] = "rules" /\ p[2] = "apikey" /\ p[3] = "jwt" /\ p[4] = "ip"
      /\ ~Ruled(c) => Len(p) = 3 /\ p[1] = "apikey" /\ p[2] = "jwt" /\ p[3] = "ip"
  BY <1>1, PluginPart
<1>6. /\ most \in Seq(Stages) /\ Len(most) = 3 + Len(p)
      /\ \A i \in 1..3 : most[i] = core[i]
      /\ \A i \in 1..Len(p) : most[3 + i] = p[i]
  <2>1. most = core \o p
    BY <1>1
  <2>2. /\ most \in Seq(Stages) /\ Len(most) = Len(core) + Len(p)
        /\ \A i \in 1..Len(core) : most[i] = core[i]
        /\ \A i \in 1..Len(p) : most[Len(core) + i] = p[i]
    BY ONLY <1>2, <1>5, <2>1, Joined
  <2> QED  BY ONLY <1>2, <2>2
<1>7. /\ Len(ch) = Len(most) + 1
      /\ \A i \in 1..Len(most) : ch[i] = most[i]
      /\ \A i \in 1..1 : ch[Len(most) + i] = last[i]
  <2>1. /\ Len(ch) = Len(most) + Len(last)
        /\ \A i \in 1..Len(most) : ch[i] = most[i]
        /\ \A i \in 1..Len(last) : ch[Len(most) + i] = last[i]
    BY ONLY <1>2, <1>4, <1>6, Joined
  <2> QED  BY ONLY <1>2, <2>1
<1>8. CASE Ruled(c)
  <2>1. /\ most \in Seq(Stages) /\ Len(most) = 7
        /\ \A i \in 1..3 : most[i] = core[i]
        /\ \A i \in 1..4 : most[3 + i] = p[i]
    <3>1. Len(p) = 4
      BY <1>5, <1>8
    <3> QED  BY ONLY <1>6, <3>1
  <2>2. /\ Len(ch) = 8
        /\ \A i \in 1..7 : ch[i] = most[i]
        /\ \A i \in 1..1 : ch[7 + i] = last[i]
    BY ONLY <1>7, <2>1
  <2>3. /\ most[1] = core[1] /\ most[2] = core[2] /\ most[3] = core[3]
        /\ most[4] = p[1] /\ most[5] = p[2] /\ most[6] = p[3] /\ most[7] = p[4]
    <3>1. most[3 + 1] = p[1] /\ most[3 + 2] = p[2] /\ most[3 + 3] = p[3] /\ most[3 + 4] = p[4]
      BY ONLY <2>1
    <3> QED  BY ONLY <2>1, <3>1
  <2>4. /\ ch[1] = most[1] /\ ch[2] = most[2] /\ ch[3] = most[3] /\ ch[4] = most[4]
        /\ ch[5] = most[5] /\ ch[6] = most[6] /\ ch[7] = most[7] /\ ch[8] = last[1]
    <3>1. ch[7 + 1] = last[1]
      BY ONLY <2>2
    <3> QED  BY ONLY <2>2, <3>1
  <2>5. p[1] = "rules" /\ p[2] = "apikey" /\ p[3] = "jwt" /\ p[4] = "ip"
    BY <1>5, <1>8
  <2> QED  BY ONLY <1>3, <1>8, <2>2, <2>3, <2>4, <2>5
<1>9. CASE ~Ruled(c)
  <2>1. /\ most \in Seq(Stages) /\ Len(most) = 6
        /\ \A i \in 1..3 : most[i] = core[i]
        /\ \A i \in 1..3 : most[3 + i] = p[i]
    <3>1. Len(p) = 3
      BY <1>5, <1>9
    <3> QED  BY ONLY <1>6, <3>1
  <2>2. /\ Len(ch) = 7
        /\ \A i \in 1..6 : ch[i] = most[i]
        /\ \A i \in 1..1 : ch[6 + i] = last[i]
    BY ONLY <1>7, <2>1
  <2>3. /\ most[1] = core[1] /\ most[2] = core[2] /\ most[3] = core[3]
        /\ most[4] = p[1] /\ most[5] = p[2] /\ most[6] = p[3]
    <3>1. most[3 + 1] = p[1] /\ most[3 + 2] = p[2] /\ most[3 + 3] = p[3]
      BY ONLY <2>1
    <3> QED  BY ONLY <2>1, <3>1
  <2>4. /\ ch[1] = most[1] /\ ch[2] = most[2] /\ ch[3] = most[3] /\ ch[4] = most[4]
        /\ ch[5] = most[5] /\ ch[6] = most[6] /\ ch[7] = last[1]
    <3>1. ch[6 + 1] = last[1]
      BY ONLY <2>2
    <3> QED  BY ONLY <2>2, <3>1
  <2>5. p[1] = "apikey" /\ p[2] = "jwt" /\ p[3] = "ip"
    BY <1>5, <1>9
  <2> QED  BY ONLY <1>3, <1>9, <2>2, <2>3, <2>4, <2>5
<1> QED  BY <1>8, <1>9

(***************************************************************************)
(* Who comes after whom, in either build (applyMiddleware).                *)
(***************************************************************************)
LEMMA Successors ==
    ASSUME NEW c \in Configs
    PROVE  /\ After(c, "body") = "sanitize" /\ After(c, "sanitize") = "paths"
           /\ After(c, "paths") = (IF Ruled(c) THEN "rules" ELSE "apikey")
           /\ Ruled(c) => After(c, "rules") = "apikey"
           /\ After(c, "apikey") = "jwt" /\ After(c, "jwt") = "ip" /\ After(c, "ip") = "auth"
<1> DEFINE ch == Chain(c)
           At(s) == CHOOSE i \in 1..Len(ch) : ch[i] = s
<1>1. \A s : After(c, s) = ch[At(s) + 1]
  BY DEF After
<1>2. ASSUME NEW s, NEW n \in 1..Len(ch), ch[n] = s, \A i \in 1..Len(ch) : ch[i] = s => i = n
      PROVE  After(c, s) = ch[n + 1]
  <2>1. At(s) = n
    <3> HIDE DEF ch
    <3> QED  BY <1>2
  <2> QED  BY <1>1, <2>1
<1>3. CASE Ruled(c)
  <2>1. /\ Len(ch) = 8
        /\ ch[1] = "body" /\ ch[2] = "sanitize" /\ ch[3] = "paths" /\ ch[4] = "rules"
        /\ ch[5] = "apikey" /\ ch[6] = "jwt" /\ ch[7] = "ip" /\ ch[8] = "auth"
    BY <1>3, Layouts
  <2> HIDE DEF ch
  <2>2. \A i \in 1..8 : i \in {1, 2, 3, 4, 5, 6, 7, 8}
    OBVIOUS
  <2>3. \A i, j \in 1..8 : ch[i] = ch[j] => i = j
    BY <2>1, <2>2
  <2>4. \A n \in 1..8 : After(c, ch[n]) = ch[n + 1]
    BY <1>2, <2>1, <2>3
  <2> QED  BY <1>3, <2>1, <2>4
<1>4. CASE ~Ruled(c)
  <2>1. /\ Len(ch) = 7
        /\ ch[1] = "body" /\ ch[2] = "sanitize" /\ ch[3] = "paths"
        /\ ch[4] = "apikey" /\ ch[5] = "jwt" /\ ch[6] = "ip" /\ ch[7] = "auth"
    BY <1>4, Layouts
  <2> HIDE DEF ch
  <2>2. \A i \in 1..7 : i \in {1, 2, 3, 4, 5, 6, 7}
    OBVIOUS
  <2>3. \A i, j \in 1..7 : ch[i] = ch[j] => i = j
    BY <2>1, <2>2
  <2>4. \A n \in 1..7 : After(c, ch[n]) = ch[n + 1]
    BY <1>2, <2>1, <2>3
  <2> QED  BY <1>4, <2>1, <2>4
<1> QED  BY <1>3, <1>4

(***************************************************************************)
(* The headers of a request, as it came and as the sanitizer leaves it.    *)
(***************************************************************************)
LEMMA HeaderTypes ==
    ASSUME NEW r \in Requests
    PROVE  /\ r.header \in [HeaderNames -> Values]
           /\ Visible(r) \in [HeaderNames -> Values]
           /\ \A h \in Prefixed : h \in HeaderNames /\ Visible(r)[h] = ""
<1>1. r.header \in [HeaderNames -> Sent]
  BY RequestAssumption
<1>2. Prefixed \subseteq HeaderNames
  BY NamesAssumption
<1> QED  BY <1>1, <1>2 DEF Sent, Values, Visible

(***************************************************************************)
(* An admin that enables a limiter takes nothing from a request under way. *)
(***************************************************************************)
LEMMA EnableStep ==
    ASSUME Inv, NEW l \in RateLimiters, Enable(l)
    PROVE  Inv'
<1>1. /\ enabled' = enabled \cup {l}
      /\ UNCHANGED <<cfg, since, req, stage, header, needsAuth, identified, asked, refusing, status, upstream>>
  BY DEF Enable, context, counted
<1>2. TypeOK'
  BY <1>1 DEF Inv, TypeOK
<1>3. MarkInv' /\ StageInv'
  BY <1>1 DEF Inv, MarkInv, StageInv
<1>4. DoneInv'
  BY <1>1 DEF Inv, DoneInv, IdentityProved, TargetReachedByRight, NoGapBetweenLimiters
<1> QED  BY <1>2, <1>3, <1>4 DEF Inv

(***************************************************************************)
(* A response the proxy gives itself, in the chain or before it, sends     *)
(* nothing to the target.                                                  *)
(***************************************************************************)
LEMMA AnswerStep ==
    ASSUME Inv, stage \notin {"idle", "done"},
           stage' = "done", status' \in {200, 400, 401, 404, 413, 429, 502},
           upstream' \in [to : {"none", "health"}, header : [HeaderNames -> Values]],
           enabled \subseteq enabled' /\ enabled' \subseteq RateLimiters,
           asked' \subseteq Limiters /\ refusing' \subseteq asked', identified' \in BOOLEAN,
           UNCHANGED <<cfg, since, req, header, needsAuth>>
    PROVE  Inv'
<1>1. upstream'.to # "target"
  OBVIOUS
<1>2. TypeOK'
  BY DEF Inv, TypeOK, Stages
<1>3. MarkInv' /\ StageInv'
  BY DEF MarkInv, StageInv, Entering, Asking, Limiters, RateLimiters
<1>4. DoneInv'
  BY <1>1 DEF DoneInv, IdentityProved, TargetReachedByRight, NoGapBetweenLimiters
<1> QED  BY <1>2, <1>3, <1>4 DEF Inv

(***************************************************************************)
(* A limiter that is asked and refuses is the end; otherwise the request   *)
(* goes on to the next one, and what it carries stays as it was (the       *)
(* middleware of the four limiters, middleware.go).                        *)
(***************************************************************************)
LEMMA LimiterStep ==
    ASSUME Inv, NEW s \in Limiters, stage = s, Ask(s) \/ Unasked(s),
           s = "jwt" /\ identified' /\ "jwt" \in enabled => Ask(s),
           s = "ip" /\ ~identified /\ "ip" \in enabled => Ask(s),
           s # "jwt" => identified' = identified, identified' \in BOOLEAN,
           UNCHANGED <<cfg, enabled, since, req, header, needsAuth, upstream>>
    PROVE  Inv'
<1>0. TypeOK /\ MarkInv /\ StageInv /\ cfg \in Configs /\ req \in Requests
  BY DEF Inv, TypeOK, Limiters, RateLimiters
<1>1. /\ refusing = {} /\ upstream.to = "none" /\ header = Visible(req)
      /\ needsAuth = ShouldAuthenticate(cfg, req.path)
      /\ s = "rules" => Ruled(cfg)
      /\ since \subseteq enabled /\ asked \subseteq Limiters /\ status = 0
  BY <1>0 DEF StageInv, TypeOK, Limiters, RateLimiters, Asking
<1>2. CASE stage' = "done"
  <2>0. After(cfg, s) # "done"
    BY <1>0, <1>1, Successors DEF Limiters, RateLimiters
  <2>1. status' = 429 /\ asked' = asked \cup {s} /\ refusing' = refusing \cup {s}
    BY <1>2, <2>0 DEF Ask, Unasked, Pass, Respond
  <2>2. /\ stage \notin {"idle", "done"}
        /\ upstream' \in [to : {"none", "health"}, header : [HeaderNames -> Values]]
        /\ asked' \subseteq Limiters /\ refusing' \subseteq asked' /\ enabled \subseteq RateLimiters
    BY <1>0, <1>1, <2>1 DEF TypeOK, Limiters, RateLimiters
  <2> QED  BY <1>2, <2>1, <2>2, AnswerStep
<1>3. CASE stage' # "done"
  <2>1. /\ stage' = After(cfg, s) /\ UNCHANGED <<refusing, status>>
        /\ asked \subseteq asked' /\ asked' \subseteq asked \cup {s}
        /\ Ask(s) => s \in asked'
    BY <1>3 DEF Ask, Unasked, Pass, Respond, counted
  <2>2. /\ stage' \in {"apikey", "jwt", "ip", "auth"}
        /\ stage' = "ip" <=> s = "jwt"
        /\ stage' = "auth" <=> s = "ip"
        /\ stage' \in {"apikey", "jwt"} => s \in {"rules", "apikey"}
    BY <1>0, <1>1, <2>1, Successors DEF Limiters, RateLimiters
  <2>3. TypeOK'
    BY <1>0, <1>1, <2>1, <2>2 DEF TypeOK, Stages
  <2>4. MarkInv'
    <3>1. CASE s \in {"rules", "apikey"}
      <4>1. identified' = FALSE
        BY <1>0, <3>1 DEF MarkInv
      <4> QED  BY <2>2, <3>1, <4>1 DEF MarkInv, Entering
    <3>2. CASE s = "jwt"
      <4>1. identified' /\ "jwt" \in since => "jwt" \in asked'
        BY <1>1, <2>1, <3>2
      <4> QED  BY <2>2, <3>2, <4>1 DEF MarkInv, Entering
    <3>3. CASE s = "ip"
      <4>1. {"jwt", "ip"} \subseteq since => asked' \cap {"jwt", "ip"} # {}
        BY <1>0, <1>1, <2>1, <3>3 DEF MarkInv, TypeOK
      <4> QED  BY <2>2, <3>3, <4>1 DEF MarkInv, Entering
    <3> QED  BY <3>1, <3>2, <3>3 DEF Limiters, RateLimiters
  <2>5. StageInv'
    BY <1>1, <2>1, <2>2 DEF StageInv, Entering, Asking, Limiters, RateLimiters
  <2> QED  BY <1>3, <2>3, <2>4, <2>5 DEF Inv, DoneInv
<1> QED  BY <1>2, <1>3

(***************************************************************************)
(* The four limiters: whom the JWT limiter marks, it asks; whom the IP     *)
(* limiter does not ask, is marked (JwtRateLimit, IpRateLimit).            *)
(***************************************************************************)
LEMMA LimitersStep ==
    ASSUME Inv, DynamicRuleCheck \/ ApiKeyRateLimit \/ JwtRateLimit \/ IpRateLimit
    PROVE  Inv'
<1>0. TypeOK /\ MarkInv /\ cfg \in Configs
  BY DEF Inv, TypeOK
<1>B. identified \in BOOLEAN
  BY <1>0 DEF TypeOK
<1>1. CASE DynamicRuleCheck
  <2>1. /\ stage = "rules" /\ "rules" \in Limiters
        /\ UNCHANGED <<cfg, enabled, since, req, header, needsAuth, identified, upstream>>
        /\ Ask("rules") \/ Unasked("rules")
    BY <1>1 DEF DynamicRuleCheck, process, context, Limiters
  <2> QED  BY <1>B, <2>1, LimiterStep
<1>2. CASE ApiKeyRateLimit
  <2>1. /\ stage = "apikey" /\ "apikey" \in Limiters
        /\ UNCHANGED <<cfg, enabled, since, req, header, needsAuth, identified, upstream>>
        /\ Ask("apikey") \/ Unasked("apikey")
    BY <1>2 DEF ApiKeyRateLimit, process, context, Limiters, RateLimiters
  <2> QED  BY <1>B, <2>1, LimiterStep
<1>3. CASE JwtRateLimit
  <2>1. /\ stage = "jwt" /\ "jwt" \in Limiters
        /\ UNCHANGED <<cfg, enabled, since, req, header, needsAuth, upstream>>
        /\ Ask("jwt") \/ Unasked("jwt")
    BY <1>3 DEF JwtRateLimit, process, Limiters, RateLimiters
  <2>2. identified' = (identified \/ extractBearerSub(req)) /\ identified = FALSE
    BY <1>0, <1>3, <2>1 DEF JwtRateLimit, MarkInv
  <2>3. identified' \in BOOLEAN /\ (identified' <=> extractBearerSub(req))
    BY <2>2 DEF extractBearerSub
  <2>4. identified' /\ "jwt" \in enabled => Ask("jwt")
    BY <1>3, <2>3 DEF JwtRateLimit
  <2> QED  BY <2>1, <2>3, <2>4, LimiterStep
<1>4. CASE IpRateLimit
  <2>1. /\ stage = "ip" /\ "ip" \in Limiters
        /\ UNCHANGED <<cfg, enabled, since, req, header, needsAuth, identified, upstream>>
        /\ Ask("ip") \/ Unasked("ip")
    BY <1>4 DEF IpRateLimit, process, context, Limiters, RateLimiters
  <2>2. ~identified /\ "ip" \in enabled => Ask("ip")
    BY <1>4 DEF IpRateLimit
  <2> QED  BY <1>B, <2>1, <2>2, LimiterStep
<1> QED  BY <1>1, <1>2, <1>3, <1>4

-----------------------------------------------------------------------------
(***************************************************************************)
(* The handlers of the mux: into the chain, the health check and the admin *)
(* API.                                                                    *)
(***************************************************************************)
LEMMA RouteStep ==
    ASSUME Inv, Route \/ HealthRoute \/ AdminRoute \/ \E r \in Requests : Arrive(r)
    PROVE  Inv'
<1>0. TypeOK /\ MarkInv /\ StageInv /\ cfg \in Configs
  BY DEF Inv, TypeOK
<1>1. ASSUME NEW r \in Requests, Arrive(r) PROVE Inv'
  <2>1. /\ stage = "idle" /\ req' = r /\ stage' = "route" /\ header' = r.header /\ since' = enabled
        /\ UNCHANGED <<cfg, enabled, needsAuth, identified, asked, refusing, status, upstream>>
    BY <1>1 DEF Arrive, process, context, counted
  <2>2. TypeOK'
    <3>1. req' \in Requests /\ header' \in [HeaderNames -> Values] /\ stage' \in Stages
      BY <2>1, HeaderTypes DEF Stages
    <3>2. enabled' \subseteq RateLimiters /\ since' \subseteq enabled'
      BY <1>0, <2>1 DEF TypeOK
    <3>3. (status' # 0 <=> stage' = "done") /\ (upstream'.to # "none" => stage' = "done")
      BY <1>0, <2>1 DEF TypeOK
    <3> QED  BY <1>0, <2>1, <3>1, <3>2, <3>3 DEF TypeOK
  <2>3. MarkInv'
    BY <1>0, <2>1 DEF MarkInv, Entering
  <2>4. StageInv'
    BY <1>0, <2>1 DEF StageInv, Entering, Asking, Limiters, RateLimiters
  <2> QED  BY <2>1, <2>2, <2>3, <2>4 DEF Inv, DoneInv
<1>2. CASE Route
  <2>1. /\ stage = "route" /\ stage' = "body"
        /\ UNCHANGED <<cfg, enabled, since, req, header, needsAuth, identified, asked, refusing, status, upstream>>
    BY <1>2 DEF Route, process, context, counted
  <2>2. TypeOK'
    BY <1>0, <2>1 DEF TypeOK, Stages
  <2>3. MarkInv'
    BY <1>0, <2>1 DEF MarkInv, Entering
  <2>4. StageInv'
    BY <1>0, <2>1 DEF StageInv, Entering, Asking, Limiters, RateLimiters
  <2> QED  BY <2>1, <2>2, <2>3, <2>4 DEF Inv, DoneInv
<1>3. CASE HealthRoute
  <2>1. /\ stage = "route" /\ stage' = "done" /\ status' \in {200, 502}
        /\ UNCHANGED <<cfg, enabled, since, req, header, needsAuth, identified, asked, refusing>>
        /\ upstream' = upstream \/ upstream' = [to |-> "health", header |-> header]
    BY <1>3 DEF HealthRoute, Respond, process, context, counted
  <2>2. upstream' \in [to : {"none", "health"}, header : [HeaderNames -> Values]]
    <3>1. upstream.to = "none"
      BY <1>0, <2>1 DEF StageInv
    <3> QED  BY <1>0, <2>1, <3>1 DEF TypeOK
  <2>3. enabled \subseteq RateLimiters /\ asked \subseteq Limiters /\ refusing \subseteq asked /\ identified \in BOOLEAN
    BY <1>0 DEF TypeOK
  <2> QED  BY <2>1, <2>2, <2>3, AnswerStep
<1>4. CASE AdminRoute
  <2>1. /\ stage = "route" /\ stage' = "done" /\ status' \in {200, 400, 401, 404}
        /\ UNCHANGED <<cfg, since, req, header, needsAuth, identified, asked, refusing, upstream>>
        /\ enabled' = enabled \/ \E l \in RateLimiters : enabled' = enabled \cup {l}
    BY <1>4 DEF AdminRoute, Respond, context, counted
  <2>2. upstream' \in [to : {"none", "health"}, header : [HeaderNames -> Values]]
    BY <1>0, <2>1 DEF StageInv, TypeOK
  <2>3. enabled \subseteq RateLimiters /\ asked \subseteq Limiters /\ refusing \subseteq asked /\ identified \in BOOLEAN
    BY <1>0 DEF TypeOK
  <2> QED  BY <2>1, <2>2, <2>3, AnswerStep
<1> QED  BY <1>1, <1>2, <1>3, <1>4

(***************************************************************************)
(* The way in: the body's declared length, the sanitizer and the path      *)
(* filter.                                                                 *)
(***************************************************************************)
LEMMA CoreStep ==
    ASSUME Inv, BodyLimiter \/ HeaderSanitizer \/ PathFilter
    PROVE  Inv'
<1>0. TypeOK /\ MarkInv /\ StageInv /\ cfg \in Configs
  BY DEF Inv, TypeOK
<1>R. stage # "idle" => req \in Requests
  BY <1>0 DEF TypeOK
<1>1. CASE BodyLimiter
  <2>1. stage = "body" /\ UNCHANGED <<cfg, enabled, since, req, header, needsAuth, identified, asked, refusing, upstream>>
    BY <1>1 DEF BodyLimiter, process, context, counted
  <2>2. CASE stage' = "done" /\ status' = 413
    <3>1. upstream' \in [to : {"none", "health"}, header : [HeaderNames -> Values]]
      BY <1>0, <2>1 DEF StageInv, TypeOK
    <3>2. enabled \subseteq RateLimiters /\ asked \subseteq Limiters /\ refusing \subseteq asked /\ identified \in BOOLEAN
      BY <1>0 DEF TypeOK
    <3> QED  BY <2>1, <2>2, <3>1, <3>2, AnswerStep
  <2>3. CASE stage' = "sanitize" /\ status' = status
    <3>1. TypeOK'
      BY <1>0, <2>1, <2>3 DEF TypeOK, Stages
    <3>2. MarkInv'
      BY <1>0, <2>1, <2>3 DEF MarkInv, Entering
    <3>3. StageInv'
      BY <1>0, <2>1, <2>3 DEF StageInv, Entering, Asking, Limiters, RateLimiters
    <3> QED  BY <2>3, <3>1, <3>2, <3>3 DEF Inv, DoneInv
  <2>4. After(cfg, "body") = "sanitize"
    BY <1>0, Successors
  <2> QED  BY <1>1, <2>2, <2>3, <2>4 DEF BodyLimiter, Respond, Pass
<1>2. CASE HeaderSanitizer
  <2>1. /\ stage = "sanitize" /\ stage' = "paths"
        /\ UNCHANGED <<cfg, enabled, since, req, needsAuth, identified, asked, refusing, status, upstream>>
    BY <1>0, <1>2, Successors DEF HeaderSanitizer, process, context, counted, Pass
  <2>2. refusing = {} /\ upstream.to = "none" /\ header = req.header
    BY <1>0, <2>1 DEF StageInv, Entering
  <2>3. header' = Visible(req)
    BY <1>2, <2>2 DEF HeaderSanitizer, Visible
  <2>4. TypeOK'
    <3>1. header' \in [HeaderNames -> Values]
      BY <1>R, <2>1, <2>3, HeaderTypes
    <3> QED  BY <1>0, <2>1, <3>1 DEF TypeOK, Stages
  <2>5. MarkInv'
    BY <1>0, <2>1 DEF MarkInv, Entering
  <2>6. StageInv'
    BY <2>1, <2>2, <2>3 DEF StageInv, Entering, Asking, Limiters, RateLimiters
  <2> QED  BY <2>1, <2>4, <2>5, <2>6 DEF Inv, DoneInv
<1>3. CASE PathFilter
  <2>1. /\ stage = "paths"
        /\ UNCHANGED <<cfg, enabled, since, req, header, identified, asked, refusing, status, upstream>>
        /\ needsAuth' = ShouldAuthenticate(cfg, req.path)
        /\ stage' = IF Ruled(cfg) THEN "rules" ELSE "apikey"
    BY <1>0, <1>3, Successors DEF PathFilter, process, counted, Pass
  <2>2. refusing = {} /\ upstream.to = "none" /\ header = Visible(req)
    BY <1>0, <2>1 DEF StageInv, Asking
  <2>3. TypeOK'
    BY <1>0, <2>1 DEF TypeOK, Stages, ShouldAuthenticate
  <2>4. MarkInv'
    BY <1>0, <2>1 DEF MarkInv, Entering
  <2>5. StageInv'
    BY <2>1, <2>2 DEF StageInv, Entering, Asking, Limiters, RateLimiters
  <2> QED  BY <2>1, <2>3, <2>4, <2>5 DEF Inv, DoneInv
<1> QED  BY <1>1, <1>2, <1>3

-----------------------------------------------------------------------------
(***************************************************************************)
(* The key that is accepted is the one the client sent, in a header the    *)
(* sanitizer leaves alone (ValidateAPIKey).                                *)
(***************************************************************************)
LEMMA KeyFacts ==
    ASSUME NEW c \in Configs, NEW r \in Requests, ~(c.jwt /\ hasBearer(r))
    PROVE  ValidateAPIKey(c, Visible(r)) = "valid" <=> KeyAccepted(c, r)
<1>1. c.apiName \in HeaderNames /\ c.apikey \in BOOLEAN
  BY ConfigAssumption
<1>2. Visible(r)[c.apiName] = IF c.apiName \in Prefixed THEN "" ELSE r.header[c.apiName]
  BY <1>1 DEF Visible
<1>3. ValidateAPIKey(c, Visible(r)) = "valid" <=> c.apikey /\ Visible(r)[c.apiName] = "secret"
  BY <1>1 DEF ValidateAPIKey
<1> QED  BY <1>1, <1>2, <1>3 DEF KeyAccepted

(***************************************************************************)
(* Headers set over the request's own keep the type.                       *)
(***************************************************************************)
LEMMA AppliedHeaders ==
    ASSUME TypeOK, NEW f, \A h \in DOMAIN f : f[h] \in Values
    PROVE  /\ applyHeaders(f) \in [HeaderNames -> Values]
           /\ \A h \in HeaderNames : applyHeaders(f)[h] = IF h \in DOMAIN f THEN f[h] ELSE header[h]
BY DEF applyHeaders, TypeOK

(***************************************************************************)
(* A request that is let through goes to the reverse proxy with headers    *)
(* its credential proved.                                                  *)
(***************************************************************************)
LEMMA ForwardStep ==
    ASSUME Inv, stage = "auth", NEW hdr \in [HeaderNames -> Values], Forward(hdr),
           Admitted(cfg, req), Proved(cfg, req, hdr),
           UNCHANGED <<process, since, req, context, counted, upstream>>
    PROVE  Inv'
<1>0. TypeOK /\ MarkInv /\ StageInv
  BY DEF Inv
<1>1. /\ stage' = "forward" /\ header' = hdr /\ status' = status
      /\ UNCHANGED <<cfg, enabled, since, req, needsAuth, identified, asked, refusing, upstream>>
  BY DEF Forward, process, context, counted
<1>2. TypeOK'
  BY <1>0, <1>1 DEF TypeOK, Stages
<1>3. MarkInv'
  BY <1>0, <1>1 DEF MarkInv, Entering
<1>4. refusing = {} /\ upstream.to = "none"
  BY <1>0 DEF StageInv
<1>5. StageInv'
  BY <1>1, <1>4 DEF StageInv, Entering, Asking, Limiters, RateLimiters
<1> QED  BY <1>1, <1>2, <1>3, <1>5 DEF Inv, DoneInv

(***************************************************************************)
(* A request that is refused goes nowhere.                                 *)
(***************************************************************************)
LEMMA RefuseStep ==
    ASSUME Inv, stage = "auth", NEW code \in {401, 502}, Refuse(code),
           UNCHANGED <<process, since, req, context, counted, upstream>>
    PROVE  Inv'
<1>1. /\ stage' = "done" /\ header' = header /\ status' = code
      /\ UNCHANGED <<cfg, enabled, since, req, needsAuth, identified, asked, refusing, upstream>>
  BY DEF Refuse, Respond, process, context, counted
<1>2. upstream' \in [to : {"none", "health"}, header : [HeaderNames -> Values]]
  BY <1>1 DEF Inv, StageInv, TypeOK
<1>3. enabled \subseteq RateLimiters /\ asked \subseteq Limiters /\ refusing \subseteq asked /\ identified \in BOOLEAN
  BY DEF Inv, TypeOK
<1> QED  BY <1>1, <1>2, <1>3, AnswerStep

(***************************************************************************)
(* handler.ServeHTTP: open paths, tokens, API keys.                        *)
(***************************************************************************)
LEMMA AuthStep ==
    ASSUME Inv, Bypass \/ JwtAuth \/ ProviderAuth \/ InlineAuth
    PROVE  Inv'
<1>0. /\ TypeOK /\ StageInv /\ stage = "auth"
      /\ UNCHANGED <<process, since, req, context, counted, upstream>>
  BY DEF Inv, Bypass, JwtAuth, ProviderAuth, InlineAuth, WithoutToken
<1>1. cfg \in Configs /\ req \in Requests /\ header \in [HeaderNames -> Values]
  BY <1>0 DEF TypeOK
<1>2. header = Visible(req) /\ needsAuth = ShouldAuthenticate(cfg, req.path)
  BY <1>0 DEF StageInv, Asking
<1>3. \A h \in Prefixed : h \in HeaderNames /\ header[h] = ""
  BY <1>1, <1>2, HeaderTypes
<1>4. CASE Bypass
  <2>1. Forward(header) /\ (~needsAuth \/ (~cfg.jwt /\ ~cfg.apikey))
    BY <1>4 DEF Bypass
  <2>2. Admitted(cfg, req)
    BY <1>2, <2>1 DEF Admitted, Open
  <2>3. Proved(cfg, req, header)
    BY <1>3 DEF Proved
  <2> QED  BY <1>0, <1>1, <2>1, <2>2, <2>3, ForwardStep
<1>5. CASE JwtAuth
  <2>1. needsAuth /\ cfg.jwt /\ hasBearer(req)
    BY <1>5 DEF JwtAuth
  <2>2. ~Open(cfg, req)
    BY <1>2, <2>1 DEF Open
  <2>3. \/ req.validity # 200 /\ Refuse(req.validity)
        \/ req.validity = 200 /\ ~(EvaluateFilters(cfg, req) /\ isEmailAllowed(cfg, req)) /\ Refuse(401)
        \/ /\ req.validity = 200 /\ EvaluateFilters(cfg, req) /\ isEmailAllowed(cfg, req)
           /\ \E f \in MapClaims(cfg, req) : Forward(applyHeaders(f))
    BY <1>5 DEF JwtAuth
  <2>4. CASE req.validity # 200 /\ Refuse(req.validity)
    <3>1. req.validity \in {401, 502}
      BY <1>1, <2>4, RequestAssumption
    <3> QED  BY <1>0, <2>4, <3>1, RefuseStep
  <2>5. CASE req.validity = 200 /\ ~(EvaluateFilters(cfg, req) /\ isEmailAllowed(cfg, req)) /\ Refuse(401)
    BY <1>0, <2>5, RefuseStep
  <2>6. ASSUME req.validity = 200, EvaluateFilters(cfg, req), isEmailAllowed(cfg, req),
               NEW f \in MapClaims(cfg, req), Forward(applyHeaders(f))
        PROVE  Inv'
    <3>1. TokenAccepted(cfg, req)
      BY <2>1, <2>6 DEF TokenAccepted
    <3>2. \A h \in DOMAIN f : /\ f[h] \in req.claims
                              /\ [claim |-> f[h], header |-> h] \in cfg.mappings
      <4> DEFINE given == {m \in cfg.mappings : m.claim \in req.claims}
                 names == {m.header : m \in given}
      <4>1. f \in [names -> Claims] /\ \A h \in names : [claim |-> f[h], header |-> h] \in given
        BY DEF MapClaims
      <4>2. DOMAIN f = names
        BY <4>1
      <4>3. \A h \in DOMAIN f : [claim |-> f[h], header |-> h] \in given
        BY <4>1, <4>2
      <4> HIDE DEF names
      <4> QED  BY <4>3
    <3>3. \A h \in DOMAIN f : f[h] \in Values
      <4>1. req.claims \subseteq Claims
        BY <1>1, RequestAssumption
      <4> QED  BY <3>2, <4>1 DEF Values
    <3>4. /\ applyHeaders(f) \in [HeaderNames -> Values]
          /\ \A h \in HeaderNames : applyHeaders(f)[h] = IF h \in DOMAIN f THEN f[h] ELSE header[h]
      BY <1>0, <3>3, AppliedHeaders
    <3>5. Proved(cfg, req, applyHeaders(f))
      <4>1. \A h \in Prefixed : \/ applyHeaders(f)[h] = ""
                                \/ h \in DOMAIN f /\ applyHeaders(f)[h] = f[h]
        BY <1>3, <3>4
      <4> QED  BY <2>2, <3>1, <3>2, <4>1 DEF Proved
    <3>6. Admitted(cfg, req)
      BY <3>1 DEF Admitted
    <3> QED  BY <1>0, <2>6, <3>4, <3>5, <3>6, ForwardStep
  <2> QED  BY <2>3, <2>4, <2>5, <2>6
<1>6. ASSUME WithoutToken, KeyAccepted(cfg, req), WithPayload PROVE Inv'
  <2> DEFINE f == [h \in cfg.payload |-> "payload"]
  <2>1. ~Open(cfg, req)
    BY <1>2, <1>6 DEF WithoutToken, Open
  <2>2. Forward(applyHeaders(f))
    BY <1>6 DEF WithPayload
  <2>3. /\ applyHeaders(f) \in [HeaderNames -> Values]
        /\ \A h \in HeaderNames : applyHeaders(f)[h] = IF h \in DOMAIN f THEN f[h] ELSE header[h]
    <3>1. \A h \in DOMAIN f : f[h] \in Values
      BY DEF Values
    <3> HIDE DEF f
    <3> QED  BY <1>0, <3>1, AppliedHeaders
  <2>4. \A h \in HeaderNames : applyHeaders(f)[h] = IF h \in cfg.payload THEN "payload" ELSE header[h]
    BY <2>3
  <2> HIDE DEF f
  <2>5. Proved(cfg, req, applyHeaders(f))
    BY <1>3, <1>6, <2>1, <2>4 DEF Proved
  <2> QED  BY <1>0, <1>6, <2>2, <2>3, <2>5, ForwardStep DEF Admitted
<1>7. CASE ProviderAuth \/ InlineAuth
  <2>1. WithoutToken /\ ~(cfg.jwt /\ hasBearer(req))
    BY <1>7 DEF ProviderAuth, InlineAuth, WithoutToken
  <2>2. ValidateAPIKey(cfg, header) = "valid" <=> KeyAccepted(cfg, req)
    BY <1>1, <1>2, <2>1, KeyFacts
  <2>3. \/ Refuse(401)
        \/ ValidateAPIKey(cfg, header) = "valid" /\ WithPayload
    BY <1>7 DEF ProviderAuth, InlineAuth
  <2> QED  BY <1>0, <1>6, <2>1, <2>2, <2>3, RefuseStep
<1> QED  BY <1>4, <1>5, <1>6, <1>7

(***************************************************************************)
(* The reverse proxy, and the end of a request.                            *)
(***************************************************************************)
LEMMA ProxyStep ==
    ASSUME Inv, ReverseProxy \/ Complete
    PROVE  Inv'
<1>0. TypeOK /\ MarkInv /\ StageInv
  BY DEF Inv
<1>1. CASE ReverseProxy
  <2>1. /\ stage = "forward" /\ stage' = "done" /\ status' \in {200, 413, 502}
        /\ UNCHANGED <<cfg, enabled, since, req, header, needsAuth, identified, asked, refusing>>
        /\ upstream' = [to |-> "target", header |-> header]
    BY <1>1 DEF ReverseProxy, Respond, process, context, counted
  <2>2. refusing = {} /\ Admitted(cfg, req) /\ Proved(cfg, req, header)
    BY <1>0, <2>1 DEF StageInv
  <2>3. {"jwt", "ip"} \subseteq since => asked \cap {"jwt", "ip"} # {}
    BY <1>0, <2>1 DEF MarkInv
  <2>4. TypeOK'
    BY <1>0, <2>1 DEF TypeOK, Stages
  <2>5. MarkInv' /\ StageInv'
    BY <2>1 DEF MarkInv, StageInv, Entering, Asking, Limiters, RateLimiters
  <2>6. DoneInv'
    BY <2>1, <2>2, <2>3 DEF DoneInv, IdentityProved, TargetReachedByRight, NoGapBetweenLimiters, Admitted
  <2> QED  BY <2>4, <2>5, <2>6 DEF Inv
<1>2. CASE Complete
  <2>1. TypeOK'
    <3>1. Blank \in [HeaderNames -> Values]
      BY DEF Blank, Sent, Values
    <3> QED  BY <1>0, <1>2, <3>1 DEF Complete, Untouched, process, TypeOK, Stages, NotSent
  <2>2. MarkInv'
    BY <1>2 DEF Complete, Untouched, MarkInv, Entering
  <2>3. StageInv'
    BY <1>2 DEF Complete, Untouched, StageInv, Entering, Asking, Limiters, RateLimiters, NotSent
  <2> QED  BY <1>2, <2>1, <2>2, <2>3 DEF Complete, Inv, DoneInv
<1> QED  BY <1>1, <1>2

-----------------------------------------------------------------------------
(***************************************************************************)
(* The inductive invariant of the pipeline.                                *)
(***************************************************************************)
THEOREM Invariance == Spec => []Inv
<1>1. Init => Inv
  <2> SUFFICES ASSUME Init PROVE Inv  OBVIOUS
  <2>1. Blank \in [HeaderNames -> Values]
    BY DEF Blank, Sent, Values
  <2>2. enabled \subseteq RateLimiters
    BY ConfigAssumption DEF Init
  <2>3. TypeOK
    BY <2>1, <2>2 DEF Init, TypeOK, Stages, NotSent
  <2>4. MarkInv /\ StageInv
    BY DEF Init, MarkInv, StageInv, Entering, Asking, Limiters, RateLimiters, NotSent
  <2> QED  BY <2>3, <2>4 DEF Inv, DoneInv, Init
<1>2. Inv /\ [Next]_vars => Inv'
  <2> SUFFICES ASSUME Inv, [Next]_vars PROVE Inv'  OBVIOUS
  <2>1. CASE UNCHANGED vars
    <3>1. (TypeOK' <=> TypeOK) /\ (MarkInv' <=> MarkInv) /\ (StageInv' <=> StageInv)
      BY <2>1 DEF vars, TypeOK, MarkInv, StageInv
    <3>2. DoneInv' <=> DoneInv
      BY <2>1 DEF vars, DoneInv, IdentityProved, TargetReachedByRight, NoGapBetweenLimiters
    <3> QED  BY <3>1, <3>2 DEF Inv
  <2>2. CASE Next
    BY <2>2, EnableStep, RouteStep, CoreStep, LimitersStep, AuthStep, ProxyStep DEF Next, Serve
  <2> QED  BY <2>1, <2>2
<1> QED  BY <1>1, <1>2, PTL DEF Spec

(***************************************************************************)
(* A response is there exactly when the request is through.                *)
(***************************************************************************)
THEOREM TypeCorrect == Spec => []TypeOK
<1>1. Inv => TypeOK  BY DEF Inv
<1> QED  BY <1>1, Invariance, PTL

(***************************************************************************)
(* No identity reaches server.target_url that a credential of the request  *)
(* did not prove.  It says nothing of what is sent to the health target.   *)
(***************************************************************************)
THEOREM IdentityIsProved == Spec => []IdentityProved
<1>1. Inv => IdentityProved  BY DEF Inv, DoneInv, IdentityProved, TypeOK
<1> QED  BY <1>1, Invariance, PTL

(***************************************************************************)
(* In both builds, whatever an admin enables meanwhile, the target is      *)
(* reached by what is open or carries an accepted credential, and by       *)
(* nothing a limiter refused.                                              *)
(***************************************************************************)
THEOREM TargetIsReachedByRight == Spec => []TargetReachedByRight
<1>1. Inv => TargetReachedByRight  BY DEF Inv, DoneInv, TargetReachedByRight, TypeOK
<1> QED  BY <1>1, Invariance, PTL

(***************************************************************************)
(* In both builds no request slips between the JWT and the IP limiter.     *)
(***************************************************************************)
THEOREM NoGap == Spec => []NoGapBetweenLimiters
<1>1. Inv => NoGapBetweenLimiters  BY DEF Inv, DoneInv, NoGapBetweenLimiters, TypeOK
<1> QED  BY <1>1, Invariance, PTL
=============================================================================
