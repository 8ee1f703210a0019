------------------------- MODULE FirestoreRulesProofs -------------------------
(***************************************************************************)
(* Proofs about the Firestore rule store, for any instances, rule ids,     *)
(* numbers of commands and of failures.                                    *)
(***************************************************************************)
EXTENDS FirestoreRules, TLAPS

\* What an instance that leaves an id alone knows of it.
Following ==
    \A i \in Instances, id \in Ids :
        up[i] /\ <<i, id>> \notin commanded /\ id \notin todo[i] =>
            \/ cache[i][id] = seen[i][id]
            \/ seen[i][id] = Undecodable
            \/ ~Live(seen[i][id]) /\ cache[i][id] = NoRule

\* Every SetRule has a number of its own, and its document is written at most
\* once: a number still in flight is in no document and in no snapshot.
Fresh ==
    /\ \A w \in writes : w.op = "set" =>
          \A id \in Ids : docs[id] # w.n /\ \A i \in Instances : seen[i][id] # w.n
    /\ \A v, w \in writes : v.op = "set" /\ w.op = "set" /\ v.n = w.n => v = w

\* The numbers in use have been given out.
Issued ==
    /\ \A w \in writes : w.n <= ops
    /\ \A id \in Ids : docs[id] \in Rules => docs[id] <= ops
    /\ \A i \in Instances, id \in Ids : seen[i][id] \in Rules => seen[i][id] <= ops

\* What an instance without a write of its own on the way knows of a live rule.
Reaching ==
    \A i \in Instances, id \in Ids :
        /\ up[i] /\ Settled(i, id) /\ id \notin todo[i]
        /\ docs[id] = seen[i][id] /\ Live(docs[id])
        => cache[i][id] = docs[id]

Inv == TypeOK /\ Following /\ Issued /\ Fresh /\ Reaching

-----------------------------------------------------------------------------
(***************************************************************************)
(* The write of an admin's command.                                        *)
(***************************************************************************)
LEMMA CommandFacts ==
    ASSUME TypeOK, NEW i \in Instances, Command(i)
    PROVE  /\ ops \in Nat /\ ops + 1 \in Rules /\ ops' = ops + 1 /\ ops' \in 0..MaxOps
           /\ UNCHANGED <<docs, seen, listening, up, expired, failures, todo, failed>>
           /\ NoRule \notin Rules
BY BoundsAssumption DEF Command, TypeOK, Rules, network, environment

(***************************************************************************)
(* The types are preserved.                                                *)
(***************************************************************************)
LEMMA TypeStep == TypeOK /\ [Next]_vars => TypeOK'
<1> SUFFICES ASSUME TypeOK, [Next]_vars PROVE TypeOK'  OBVIOUS
<1>1. CASE UNCHANGED vars
  BY <1>1 DEF vars, TypeOK
<1>C. ASSUME NEW i \in Instances, Command(i), cache' \in [Instances -> [Ids -> Rules \cup {NoRule}]],
             NEW w \in Write, writes' = writes \cup {w}, w.op # "sweep" => w.id \in Ids
      PROVE  TypeOK'
  <2>1. /\ ops \in Nat /\ ops' = ops + 1 /\ ops' \in 0..MaxOps
        /\ UNCHANGED <<docs, seen, listening, up, expired, failures, todo>>
    BY <1>C, CommandFacts
  <2>2. writes' \subseteq Write /\ \A x \in writes' : x.op # "sweep" => x.id \in Ids
    BY <1>C DEF TypeOK
  <2>3. expired' \subseteq 1..ops'
    BY <2>1 DEF TypeOK
  <2> QED  BY <1>C, <2>1, <2>2, <2>3 DEF TypeOK
<1>2. ASSUME NEW i \in Instances, NEW id \in Ids, SetRule(i, id) PROVE TypeOK'
  <2> DEFINE w == [op |-> "set", by |-> i, id |-> id, n |-> ops + 1]
  <2>1. Command(i) /\ ops + 1 \in Rules
    BY <1>2, CommandFacts DEF SetRule
  <2>2. w \in Write /\ w.id \in Ids /\ writes' = writes \cup {w}
    BY <1>2, <2>1 DEF SetRule, Write
  <2>3. cache' \in [Instances -> [Ids -> Rules \cup {NoRule}]]
    BY <1>2, <2>1 DEF SetRule, TypeOK
  <2> HIDE DEF w
  <2> QED  BY <1>C, <2>1, <2>2, <2>3
<1>3. ASSUME NEW i \in Instances, NEW id \in Ids, RemoveRule(i, id) PROVE TypeOK'
  <2> DEFINE w == [op |-> "delete", by |-> i, id |-> id, n |-> ops + 1]
  <2>1. Command(i) /\ ops + 1 \in Rules
    BY <1>3, CommandFacts DEF RemoveRule
  <2>2. w \in Write /\ w.id \in Ids /\ writes' = writes \cup {w}
    BY <1>3, <2>1 DEF RemoveRule, Write
  <2>3. cache' \in [Instances -> [Ids -> Rules \cup {NoRule}]]
    BY <1>3, <2>1 DEF RemoveRule, TypeOK
  <2> HIDE DEF w
  <2> QED  BY <1>C, <2>1, <2>2, <2>3
<1>4. ASSUME NEW i \in Instances, RemoveAll(i) PROVE TypeOK'
  <2> DEFINE w == [op |-> "sweep", by |-> i, id |-> NoRule, n |-> ops + 1]
  <2>1. Command(i) /\ ops + 1 \in Rules
    BY <1>4, CommandFacts DEF RemoveAll
  <2>2. w \in Write /\ w.op = "sweep" /\ writes' = writes \cup {w}
    BY <1>4, <2>1 DEF RemoveAll, Write
  <2>3. cache' \in [Instances -> [Ids -> Rules \cup {NoRule}]]
    BY <1>4, <2>1 DEF RemoveAll, TypeOK, Absent
  <2> HIDE DEF w
  <2> QED  BY <1>C, <2>1, <2>2, <2>3
<1>5. ASSUME NEW w \in writes, Land(w) PROVE TypeOK'
  <2>1. w.n \in Rules /\ w.id \in Ids
    BY <1>5 DEF Land, TypeOK, Write
  <2>2. docs' \in [Ids -> Documents]
    BY <1>5, <2>1 DEF Land, TypeOK, Documents
  <2> QED  BY <1>5, <2>2 DEF Land, TypeOK, environment
<1>6. ASSUME NEW w \in writes, Sweep(w) PROVE TypeOK'
  <2>1. \A x \in writes' : x \in Write /\ (x.op # "sweep" => x.id \in Ids)
    <3> SUFFICES ASSUME NEW x \in writes', x \notin writes PROVE x \in Write /\ x.id \in Ids
      BY DEF TypeOK
    <3>1. PICK id \in Ids : x = [op |-> "delete", by |-> w.by, id |-> id, n |-> w.n]
      BY <1>6 DEF Sweep
    <3>2. w.by \in Instances /\ w.n \in Rules
      BY DEF TypeOK, Write
    <3> QED  BY <3>1, <3>2 DEF Write
  <2> QED  BY <1>6, <2>1 DEF Sweep, TypeOK, environment
<1>7. ASSUME NEW w \in writes, WriteFails(w) PROVE TypeOK'
  <2>1. failures' \in 0..MaxFailures
    BY <1>7, BoundsAssumption DEF WriteFails, TypeOK
  <2> QED  BY <1>7, <2>1 DEF WriteFails, TypeOK
<1>8. ASSUME NEW i \in Instances, Receive(i) PROVE TypeOK'
  <2>1. todo' \in [Instances -> SUBSET Ids] /\ seen' \in [Instances -> [Ids -> Documents]]
    BY <1>8 DEF Receive, TypeOK, Changed
  <2>2. \A j \in Instances : ~up[j] => todo'[j] = {}
    BY <1>8 DEF Receive, TypeOK
  <2> QED  BY <1>8, <2>1, <2>2 DEF Receive, TypeOK, environment
<1>9. ASSUME NEW i \in Instances, NEW id \in Ids, Apply(i, id) PROVE TypeOK'
  <2>1. cache' \in [Instances -> [Ids -> Rules \cup {NoRule}]]
    BY <1>9 DEF Apply, TypeOK, Documents
  <2>2. todo' \in [Instances -> SUBSET Ids] /\ \A j \in Instances : ~up[j] => todo'[j] = {}
    BY <1>9 DEF Apply, TypeOK
  <2> QED  BY <1>9, <2>1, <2>2 DEF Apply, TypeOK, environment, network
<1>10. ASSUME NEW i \in Instances, ListenerFails(i) PROVE TypeOK'
  <2>1. failures' \in 0..MaxFailures
    BY <1>10, BoundsAssumption DEF ListenerFails, TypeOK
  <2>2. listening' \in [Instances -> BOOLEAN] /\ \A j \in Instances : ~up[j] => ~listening'[j]
    BY <1>10 DEF ListenerFails, TypeOK
  <2> QED  BY <1>10, <2>1, <2>2 DEF ListenerFails, TypeOK
<1>11. ASSUME NEW i \in Instances, DeleteExpired(i) PROVE TypeOK'
  <2>1. cache' \in [Instances -> [Ids -> Rules \cup {NoRule}]]
    BY <1>11 DEF DeleteExpired, TypeOK
  <2> QED  BY <1>11, <2>1 DEF DeleteExpired, TypeOK, environment, network
<1>12. ASSUME NEW i \in Instances, Crash(i) PROVE TypeOK'
  <2>1. failures' \in 0..MaxFailures
    BY <1>12, BoundsAssumption DEF Crash, TypeOK
  <2>2. writes' \subseteq writes
    BY <1>12 DEF Crash, OnTheWire
  <2>3. /\ cache' \in [Instances -> [Ids -> Rules \cup {NoRule}]]
        /\ todo' \in [Instances -> SUBSET Ids]
    BY <1>12 DEF Crash, TypeOK, Absent
  <2>4. /\ up' \in [Instances -> BOOLEAN] /\ listening' \in [Instances -> BOOLEAN]
        /\ \A j \in Instances : ~up'[j] => ~listening'[j] /\ todo'[j] = {}
    BY <1>12 DEF Crash, TypeOK
  <2> QED  BY <1>12, <2>1, <2>2, <2>3, <2>4 DEF Crash, TypeOK
<1>13. ASSUME NEW i \in Instances, Start(i) PROVE TypeOK'
  <2>1. Loaded \in [Ids -> Rules \cup {NoRule}]
    BY DEF Loaded, Live, TypeOK, Documents
  <2>2. /\ cache' \in [Instances -> [Ids -> Rules \cup {NoRule}]]
        /\ seen' \in [Instances -> [Ids -> Documents]]
    BY <1>13, <2>1 DEF Start, TypeOK
  <2>3. /\ up' \in [Instances -> BOOLEAN] /\ listening' \in [Instances -> BOOLEAN]
        /\ \A j \in Instances : ~up'[j] => ~listening'[j] /\ todo[j] = {}
    BY <1>13 DEF Start, TypeOK
  <2> QED  BY <1>13, <2>2, <2>3 DEF Start, TypeOK
<1>14. ASSUME NEW n \in Rules, Expire(n) PROVE TypeOK'
  BY <1>14 DEF Expire, TypeOK
<1>15. ASSUME NEW id \in Ids, Spoil(id) PROVE TypeOK'
  <2>1. docs' \in [Ids -> Documents] /\ failures' \in 0..MaxFailures
    BY <1>15, BoundsAssumption DEF Spoil, TypeOK, Documents
  <2> QED  BY <1>15, <2>1 DEF Spoil, TypeOK, history
<1> QED
  BY <1>1, <1>2, <1>3, <1>4, <1>5, <1>6, <1>7, <1>8, <1>9, <1>10, <1>11, <1>12, <1>13, <1>14, <1>15 DEF Next

(***************************************************************************)
(* What an instance knows of an id that its own admin leaves alone: only   *)
(* its listener and its cleanup change it (listenForChanges).              *)
(***************************************************************************)
LEMMA FollowingStep == TypeOK /\ Following /\ [Next]_vars => Following'
<1> SUFFICES ASSUME TypeOK, Following, [Next]_vars,
                    NEW i \in Instances, NEW id \in Ids,
                    up'[i], <<i, id>> \notin commanded', id \notin todo'[i]
             PROVE  \/ cache'[i][id] = seen'[i][id]
                    \/ seen'[i][id] = Undecodable
                    \/ ~Live(seen[i][id])' /\ cache'[i][id] = NoRule
  BY DEF Following
<1> DEFINE Goal == \/ cache'[i][id] = seen'[i][id]
                   \/ seen'[i][id] = Undecodable
                   \/ ~Live(seen[i][id])' /\ cache'[i][id] = NoRule
<1>K. ASSUME up[i], <<i, id>> \notin commanded, id \notin todo[i], seen'[i][id] = seen[i][id],
             cache'[i][id] = cache[i][id], expired \subseteq expired'
      PROVE  Goal
  BY <1>K DEF Following, Live
<1>1. CASE UNCHANGED vars
  BY <1>1, <1>K DEF vars
<1>2. ASSUME NEW j \in Instances, NEW d \in Ids, SetRule(j, d) \/ RemoveRule(j, d) PROVE Goal
  <2>1. Command(j) /\ commanded' = commanded \cup {<<j, d>>}
    BY <1>2 DEF SetRule, RemoveRule
  <2>2. cache'[i][id] = cache[i][id]
    BY <1>2, <2>1 DEF SetRule, RemoveRule, TypeOK
  <2> QED  BY <1>K, <2>1, <2>2, CommandFacts
<1>3. ASSUME NEW j \in Instances, RemoveAll(j) PROVE Goal
  <2>1. Command(j) /\ commanded' = commanded \cup ({j} \X Ids) /\ cache' = [cache EXCEPT ![j] = Absent]
    BY <1>3 DEF RemoveAll
  <2>2. j # i
    BY <2>1
  <2>3. cache'[i][id] = cache[i][id]
    BY <2>1, <2>2 DEF TypeOK
  <2> QED  BY <1>K, <2>1, <2>3, CommandFacts
<1>4. ASSUME NEW w \in writes, Land(w) \/ Sweep(w) \/ WriteFails(w) PROVE Goal
  BY <1>4, <1>K DEF Land, Sweep, WriteFails, environment, history
<1>5. ASSUME NEW j \in Instances, Receive(j) PROVE Goal
  <2>1. UNCHANGED <<cache, up, expired, commanded>>
    BY <1>5 DEF Receive, environment, history
  <2>2. CASE j # i
    <3>1. seen'[i] = seen[i] /\ todo'[i] = todo[i]
      BY <1>5, <2>2 DEF Receive, TypeOK
    <3> QED  BY <1>K, <2>1, <3>1
  <2>3. CASE j = i
    <3>1. seen'[i] = docs /\ todo'[i] = Changed(i) /\ todo[i] = {}
      BY <1>5, <2>3 DEF Receive, TypeOK
    <3>2. docs[id] = seen[i][id]
      BY <3>1 DEF Changed
    <3> QED  BY <1>K, <2>1, <3>1, <3>2
  <2> QED  BY <2>2, <2>3
<1>6. ASSUME NEW j \in Instances, NEW d \in Ids, Apply(j, d) PROVE Goal
  <2>1. UNCHANGED <<seen, up, expired, commanded>>
    BY <1>6 DEF Apply, network, environment, history
  <2>2. CASE j = i /\ d = id
    BY <1>6, <2>1, <2>2 DEF Apply, TypeOK
  <2>3. CASE ~(j = i /\ d = id)
    <3>1. cache'[i][id] = cache[i][id] /\ id \notin todo[i]
      BY <1>6, <2>3 DEF Apply, TypeOK
    <3> QED  BY <1>K, <2>1, <3>1
  <2> QED  BY <2>2, <2>3
<1>7. ASSUME NEW j \in Instances, ListenerFails(j) PROVE Goal
  BY <1>7, <1>K DEF ListenerFails, history
<1>8. ASSUME NEW j \in Instances, DeleteExpired(j) PROVE Goal
  <2>1. UNCHANGED <<seen, todo, up, expired, commanded>>
    BY <1>8 DEF DeleteExpired, network, environment, history
  <2>2. cache'[i][id] = cache[i][id] \/ (cache'[i][id] = NoRule /\ ~Live(cache[i][id]))
    BY <1>8 DEF DeleteExpired, TypeOK
  <2>3. CASE cache'[i][id] = cache[i][id]
    BY <1>K, <2>1, <2>3
  <2>4. CASE cache'[i][id] = NoRule /\ ~Live(cache[i][id])
    BY <2>1, <2>4 DEF Following, Live
  <2> QED  BY <2>2, <2>3, <2>4
<1>9. ASSUME NEW j \in Instances, Crash(j) PROVE Goal
  <2>1. j # i
    BY <1>9 DEF Crash, TypeOK
  <2>2. /\ up[i] /\ cache'[i] = cache[i] /\ todo'[i] = todo[i] /\ UNCHANGED <<seen, expired>>
        /\ <<i, id>> \notin commanded
    BY <1>9, <2>1 DEF Crash, TypeOK
  <2> QED  BY <1>K, <2>2
<1>10. ASSUME NEW j \in Instances, Start(j) PROVE Goal
  <2>1. CASE j # i
    <3>1. up[i] /\ cache'[i] = cache[i] /\ seen'[i] = seen[i] /\ UNCHANGED <<todo, expired, commanded>>
      BY <1>10, <2>1 DEF Start, TypeOK, history
    <3> QED  BY <1>K, <3>1
  <2>2. CASE j = i
    <3>1. cache'[i][id] = (IF Live(docs[id]) THEN docs[id] ELSE NoRule) /\ seen'[i] = docs /\ expired' = expired
      BY <1>10, <2>2 DEF Start, TypeOK, Loaded
    <3> QED  BY <3>1 DEF Live
  <2> QED  BY <2>1, <2>2
<1>11. ASSUME NEW n \in Rules, Expire(n) PROVE Goal
  BY <1>11, <1>K DEF Expire, history
<1>12. ASSUME NEW d \in Ids, Spoil(d) PROVE Goal
  BY <1>12, <1>K DEF Spoil, history
<1> QED
  BY <1>1, <1>2, <1>3, <1>4, <1>5, <1>6, <1>7, <1>8, <1>9, <1>10, <1>11, <1>12 DEF Next

(***************************************************************************)
(* The numbers of SetRule calls are given out in order.                    *)
(***************************************************************************)
LEMMA IssuedStep == TypeOK /\ Issued /\ [Next]_vars => Issued'
<1> SUFFICES ASSUME TypeOK, Issued, [Next]_vars PROVE Issued'  OBVIOUS
<1>0. ops \in Nat /\ ops' \in Nat /\ ops <= ops'
  <2>1. ops \in Nat
    BY BoundsAssumption DEF TypeOK
  <2>2. ops' = ops \/ ops' = ops + 1
    BY DEF Next, SetRule, RemoveRule, RemoveAll, Command, Land, Sweep, WriteFails, Spoil, Receive, Apply,
           ListenerFails, DeleteExpired, Crash, Start, Expire, vars
  <2> QED  BY <2>1, <2>2
<1>1. \A w \in writes : w.n \in Nat
  BY BoundsAssumption DEF TypeOK, Write, Rules
<1>2. \A w \in writes' : w.n <= ops'
  <2> SUFFICES ASSUME NEW w \in writes', w \notin writes PROVE w.n <= ops'
    BY <1>0, <1>1 DEF Issued
  <2>1. CASE \E i \in Instances : RemoveAll(i) \/ \E id \in Ids : SetRule(i, id) \/ RemoveRule(i, id)
    BY <1>0, <2>1 DEF SetRule, RemoveRule, RemoveAll, Command
  <2>2. CASE \E v \in writes : Sweep(v)
    <3>1. PICK v \in writes : Sweep(v)
      BY <2>2
    <3>2. w.n = v.n /\ ops' = ops
      BY <3>1 DEF Sweep
    <3> QED  BY <3>2 DEF Issued
  <2>3. CASE writes' \subseteq writes
    BY <2>3
  <2> QED
    BY <2>1, <2>2, <2>3 DEF Next, Land, WriteFails, Spoil, Receive, Apply, ListenerFails, DeleteExpired, Crash, OnTheWire,
       Start, Expire, vars
<1>D. ASSUME NEW x \in Documents, x \in Rules => x <= ops
      PROVE  x \in Rules => x <= ops'
  BY <1>0, <1>D DEF Rules
<1>3. \A id \in Ids : docs'[id] \in Rules => docs'[id] <= ops'
  <2>1. CASE docs' = docs
    BY <1>D, <2>1 DEF Issued, TypeOK
  <2>2. ASSUME NEW w \in writes, Land(w) PROVE \A id \in Ids : docs'[id] \in Rules => docs'[id] <= ops'
    <3>1. \A id \in Ids : docs'[id] = docs[id] \/ docs'[id] = NoRule \/ docs'[id] = w.n
      BY <2>2 DEF Land, TypeOK
    <3>2. w.n <= ops'
      BY <1>0, <1>1 DEF Issued
    <3> QED  BY <1>D, <3>1, <3>2, BoundsAssumption DEF Issued, TypeOK, Rules
  <2>3. ASSUME NEW d \in Ids, Spoil(d) PROVE \A id \in Ids : docs'[id] \in Rules => docs'[id] <= ops'
    <3>1. \A id \in Ids : docs'[id] = docs[id] \/ docs'[id] = Undecodable
      BY <2>3 DEF Spoil, TypeOK
    <3> QED  BY <1>D, <3>1, BoundsAssumption DEF Issued, TypeOK, Rules
  <2> QED
    BY <2>1, <2>2, <2>3 DEF Next, SetRule, RemoveRule, RemoveAll, Command, Sweep, WriteFails, Receive, Apply,
       ListenerFails, DeleteExpired, Crash, Start, Expire, vars, network
<1>4. \A i \in Instances, id \in Ids : seen'[i][id] \in Rules => seen'[i][id] <= ops'
  <2>1. \A i \in Instances, id \in Ids : seen'[i][id] = seen[i][id] \/ seen'[i][id] = docs[id]
    <3>1. \/ seen' = seen
          \/ \E i \in Instances : seen' = [seen EXCEPT ![i] = docs]
      BY DEF Next, SetRule, RemoveRule, RemoveAll, Command, Land, Sweep, WriteFails, Spoil, Receive, Apply,
             ListenerFails, DeleteExpired, Crash, Start, Expire, vars, network
    <3> QED  BY <3>1 DEF TypeOK
  <2> QED  BY <1>D, <2>1 DEF Issued, TypeOK
<1> QED  BY <1>2, <1>3, <1>4 DEF Issued

(***************************************************************************)
(* A number lands in Firestore once: SetRule starts one write of it, and   *)
(* nothing retries (rule_store.go lines 114-128).                          *)
(***************************************************************************)
LEMMA FreshStep == TypeOK /\ Issued /\ Fresh /\ [Next]_vars => Fresh'
<1> SUFFICES ASSUME TypeOK, Issued, Fresh, [Next]_vars PROVE Fresh'  OBVIOUS
<1>0. ops \in Nat /\ NoRule \notin Nat /\ Undecodable \notin Nat /\ \A w \in writes : w.n \in Nat
  BY BoundsAssumption DEF TypeOK, Write, Rules
<1>1. \A id \in Ids : docs[id] # ops + 1 /\ \A i \in Instances : seen[i][id] # ops + 1
  <2>1. \A id \in Ids : docs[id] \in Documents /\ \A i \in Instances : seen[i][id] \in Documents
    BY DEF TypeOK
  <2>2. \A x \in Documents : (x \in Rules => x <= ops) => x # ops + 1
    BY <1>0, BoundsAssumption DEF Rules, Documents
  <2> QED  BY <2>1, <2>2 DEF Issued
<1>2. \A w \in writes : w.n # ops + 1
  BY <1>0 DEF Issued
<1>3. ASSUME NEW w, writes' = writes \cup {w}, w.op = "set" => w.n = ops + 1, UNCHANGED <<docs, seen>>
      PROVE  Fresh'
  BY <1>1, <1>2, <1>3 DEF Fresh
<1>4. ASSUME \A w \in writes' : w \in writes \/ w.op # "set", docs' = docs,
             \A i \in Instances, id \in Ids : seen'[i][id] = seen[i][id] \/ seen'[i][id] = docs[id]
      PROVE  Fresh'
  BY <1>4 DEF Fresh
<1>5. ASSUME NEW i \in Instances, NEW id \in Ids, SetRule(i, id) PROVE Fresh'
  <2> DEFINE w == [op |-> "set", by |-> i, id |-> id, n |-> ops + 1]
  <2>1. writes' = writes \cup {w} /\ w.n = ops + 1 /\ UNCHANGED <<docs, seen>>
    BY <1>5, CommandFacts DEF SetRule
  <2> HIDE DEF w
  <2> QED  BY <1>3, <2>1
<1>6. ASSUME NEW i \in Instances, NEW id \in Ids, RemoveRule(i, id) PROVE Fresh'
  <2> DEFINE w == [op |-> "delete", by |-> i, id |-> id, n |-> ops + 1]
  <2>1. writes' = writes \cup {w} /\ w.op # "set" /\ UNCHANGED <<docs, seen>>
    BY <1>6, CommandFacts DEF RemoveRule
  <2> HIDE DEF w
  <2> QED  BY <1>3, <2>1
<1>7. ASSUME NEW i \in Instances, RemoveAll(i) PROVE Fresh'
  <2> DEFINE w == [op |-> "sweep", by |-> i, id |-> NoRule, n |-> ops + 1]
  <2>1. writes' = writes \cup {w} /\ w.op # "set" /\ UNCHANGED <<docs, seen>>
    BY <1>7, CommandFacts DEF RemoveAll
  <2> HIDE DEF w
  <2> QED  BY <1>3, <2>1
<1>8. ASSUME NEW w \in writes, Land(w) PROVE Fresh'
  <2>1. /\ writes' = writes \ {w} /\ seen' = seen /\ w.id \in Ids
        /\ docs' = [docs EXCEPT ![w.id] = IF w.op = "set" THEN w.n ELSE NoRule]
    BY <1>8 DEF Land, TypeOK
  <2>2. \A id \in Ids : docs'[id] = docs[id] \/ docs'[id] = NoRule \/ (w.op = "set" /\ docs'[id] = w.n)
    BY <2>1 DEF TypeOK
  <2>3. \A v \in writes' : v.op = "set" => \A id \in Ids : docs'[id] # v.n
    <3> SUFFICES ASSUME NEW v \in writes', v.op = "set", NEW id \in Ids PROVE docs'[id] # v.n
      OBVIOUS
    <3>1. v \in writes /\ v # w /\ v.n # NoRule
      BY <1>0, <2>1
    <3>2. docs[id] # v.n /\ (w.op = "set" => w.n # v.n)
      BY <3>1 DEF Fresh
    <3> QED  BY <2>2, <3>1, <3>2
  <2> QED  BY <2>1, <2>3 DEF Fresh
<1>9. ASSUME NEW w \in writes, Sweep(w) PROVE Fresh'
  BY <1>4, <1>9 DEF Sweep
<1>10. ASSUME NEW w \in writes, WriteFails(w) PROVE Fresh'
  BY <1>4, <1>10 DEF WriteFails
<1>11. ASSUME NEW i \in Instances, Receive(i) \/ Start(i) PROVE Fresh'
  <2>1. seen' = [seen EXCEPT ![i] = docs] /\ UNCHANGED <<docs, writes>>
    BY <1>11 DEF Receive, Start
  <2>2. \A j \in Instances, id \in Ids : seen'[j][id] = seen[j][id] \/ seen'[j][id] = docs[id]
    BY <2>1 DEF TypeOK
  <2> QED  BY <1>4, <2>1, <2>2
<1>12. CASE UNCHANGED <<docs, seen>> /\ writes' \subseteq writes
  BY <1>4, <1>12
<1>13. ASSUME NEW id \in Ids, Spoil(id) PROVE Fresh'
  <2>1. \A d \in Ids : docs'[d] = docs[d] \/ docs'[d] = Undecodable
    BY <1>13 DEF Spoil, TypeOK
  <2> QED  BY <1>0, <1>13, <2>1 DEF Spoil, Fresh
<1>14. \/ UNCHANGED <<docs, seen>> /\ writes' \subseteq writes
       \/ \E i \in Instances : \/ Receive(i) \/ Start(i) \/ RemoveAll(i)
                               \/ \E id \in Ids : SetRule(i, id) \/ RemoveRule(i, id)
       \/ \E id \in Ids : Spoil(id)
       \/ \E w \in writes : Land(w) \/ Sweep(w) \/ WriteFails(w)
  BY DEF Next, Apply, ListenerFails, DeleteExpired, Crash, OnTheWire, Expire, vars, network
<1> QED  BY <1>5, <1>6, <1>7, <1>8, <1>9, <1>10, <1>11, <1>12, <1>13, <1>14

(***************************************************************************)
(* A live rule that an instance has been told of is in its cache, unless a *)
(* write of its own on that id is on the way or failed.                    *)
(***************************************************************************)
LEMMA ReachingStep == TypeOK /\ Fresh /\ Reaching /\ [Next]_vars => Reaching'
<1> SUFFICES ASSUME TypeOK, Fresh, Reaching, [Next]_vars,
                    NEW i \in Instances, NEW id \in Ids,
                    up'[i], Settled(i, id)', id \notin todo'[i],
                    docs'[id] = seen'[i][id], Live(docs[id])'
             PROVE  cache'[i][id] = docs'[id]
  BY DEF Reaching
<1>0. /\ <<i, id>> \notin failed'
      /\ \A w \in writes' : w.by = i => w.op # "sweep" /\ w.id # id
      /\ docs'[id] \notin {NoRule, Undecodable} /\ docs'[id] \notin expired'
  BY DEF Settled, Live
<1>K. ASSUME up[i], Settled(i, id), id \notin todo[i], UNCHANGED docs, seen'[i][id] = seen[i][id],
             cache'[i][id] = cache[i][id], expired \subseteq expired'
      PROVE  cache'[i][id] = docs'[id]
  BY <1>0, <1>K DEF Reaching, Live
<1>S. ASSUME writes \subseteq writes', failed \subseteq failed' PROVE Settled(i, id)
  BY <1>0, <1>S DEF Settled
<1>1. CASE UNCHANGED vars
  BY <1>1, <1>K, <1>S DEF vars
<1>2. ASSUME NEW j \in Instances, NEW d \in Ids, SetRule(j, d) \/ RemoveRule(j, d)
      PROVE  cache'[i][id] = docs'[id]
  <2>1. Command(j) /\ \E w \in writes' : w.by = j /\ w.id = d
    <3>1. CASE SetRule(j, d)
      <4> DEFINE w == [op |-> "set", by |-> j, id |-> d, n |-> ops + 1]
      <4>1. w \in writes' /\ w.by = j /\ w.id = d
        BY <3>1 DEF SetRule
      <4> QED  BY <3>1, <4>1 DEF SetRule
    <3>2. CASE RemoveRule(j, d)
      <4> DEFINE w == [op |-> "delete", by |-> j, id |-> d, n |-> ops + 1]
      <4>1. w \in writes' /\ w.by = j /\ w.id = d
        BY <3>2 DEF RemoveRule
      <4> QED  BY <3>2, <4>1 DEF RemoveRule
    <3> QED  BY <1>2, <3>1, <3>2
  <2>2. ~(j = i /\ d = id)
    BY <1>0, <2>1
  <2>3. cache'[i][id] = cache[i][id] /\ writes \subseteq writes'
    BY <1>2, <2>2 DEF SetRule, RemoveRule, TypeOK
  <2> QED  BY <1>K, <1>S, <2>1, <2>3, CommandFacts
<1>3. ASSUME NEW j \in Instances, RemoveAll(j) PROVE cache'[i][id] = docs'[id]
  <2> DEFINE w == [op |-> "sweep", by |-> j, id |-> NoRule, n |-> ops + 1]
  <2>1. Command(j) /\ w \in writes' /\ w.op = "sweep" /\ w.by = j /\ writes \subseteq writes'
    BY <1>3 DEF RemoveAll
  <2> HIDE DEF w
  <2>2. j # i
    BY <1>0, <2>1
  <2>3. cache'[i][id] = cache[i][id]
    BY <1>3, <2>2 DEF RemoveAll, TypeOK
  <2> QED  BY <1>K, <1>S, <2>1, <2>3, CommandFacts
<1>4. ASSUME NEW w \in writes, Land(w) PROVE cache'[i][id] = docs'[id]
  <2>1. /\ writes' = writes \ {w} /\ UNCHANGED <<seen, cache, up, todo, expired, failed>> /\ w.id \in Ids
        /\ docs' = [docs EXCEPT ![w.id] = IF w.op = "set" THEN w.n ELSE NoRule]
    BY <1>4 DEF Land, TypeOK, environment, history
  <2>2. w.id # id
    <3> SUFFICES ASSUME w.id = id PROVE FALSE
      OBVIOUS
    <3>1. docs'[id] = IF w.op = "set" THEN w.n ELSE NoRule
      BY <2>1 DEF TypeOK
    <3>2. w.op = "set" /\ seen[i][id] = w.n
      BY <1>0, <2>1, <3>1
    <3> QED  BY <3>2 DEF Fresh
  <2>3. docs'[id] = docs[id]
    BY <2>1, <2>2 DEF TypeOK
  <2>4. Settled(i, id)
    <3>1. w.op # "sweep"
      BY <1>4 DEF Land
    <3> QED  BY <1>0, <2>1, <2>2, <3>1 DEF Settled
  <2> QED  BY <1>0, <2>1, <2>3, <2>4 DEF Reaching, Live
<1>5. ASSUME NEW w \in writes, Sweep(w) PROVE cache'[i][id] = docs'[id]
  <2>1. /\ UNCHANGED <<docs, seen, cache, up, todo, expired, failed>>
        /\ writes' = (writes \ {w}) \cup {[op |-> "delete", by |-> w.by, id |-> d, n |-> w.n] :
                                            d \in {d \in Ids : docs[d] # NoRule}}
    BY <1>5 DEF Sweep, environment, history
  <2>2. w.by # i
    <3> SUFFICES ASSUME w.by = i PROVE FALSE
      OBVIOUS
    <3> DEFINE x == [op |-> "delete", by |-> w.by, id |-> id, n |-> w.n]
    <3>1. x \in writes'
      BY <1>0, <2>1
    <3>2. x.by = i /\ x.id = id
      OBVIOUS
    <3> HIDE DEF x
    <3> QED  BY <1>0, <3>1, <3>2
  <2>3. Settled(i, id)
    BY <1>0, <2>1, <2>2 DEF Settled
  <2> QED  BY <1>K, <2>1, <2>3
<1>6. ASSUME NEW w \in writes, WriteFails(w) PROVE cache'[i][id] = docs'[id]
  <2>1. /\ UNCHANGED <<docs, seen, cache, up, todo, expired>> /\ writes' = writes \ {w}
        /\ failed' = failed \cup ({w.by} \X (IF w.op = "sweep" THEN Ids ELSE {w.id}))
    BY <1>6 DEF WriteFails
  <2>2. ~(w.by = i /\ (w.op = "sweep" \/ w.id = id))
    BY <1>0, <2>1
  <2>3. Settled(i, id)
    BY <1>0, <2>1, <2>2 DEF Settled
  <2> QED  BY <1>K, <2>1, <2>3
<1>7. ASSUME NEW j \in Instances, Receive(j) PROVE cache'[i][id] = docs'[id]
  <2>1. UNCHANGED <<docs, cache, writes, up, expired, failed>>
    BY <1>7 DEF Receive, environment, history
  <2>2. CASE j # i
    <3>1. seen'[i] = seen[i] /\ todo'[i] = todo[i]
      BY <1>7, <2>2 DEF Receive, TypeOK
    <3> QED  BY <1>K, <1>S, <2>1, <3>1
  <2>3. CASE j = i
    <3>1. seen'[i] = docs /\ todo'[i] = Changed(i) /\ todo[i] = {}
      BY <1>7, <2>3 DEF Receive, TypeOK
    <3>2. docs[id] = seen[i][id]
      BY <3>1 DEF Changed
    <3> QED  BY <1>K, <1>S, <2>1, <3>1, <3>2
  <2> QED  BY <2>2, <2>3
<1>8. ASSUME NEW j \in Instances, NEW d \in Ids, Apply(j, d) PROVE cache'[i][id] = docs'[id]
  <2>1. UNCHANGED <<docs, seen, up, writes, expired, failed>>
    BY <1>8 DEF Apply, network, environment, history
  <2>2. CASE j = i /\ d = id
    BY <1>0, <1>8, <2>1, <2>2 DEF Apply, TypeOK
  <2>3. CASE ~(j = i /\ d = id)
    <3>1. cache'[i][id] = cache[i][id] /\ id \notin todo[i]
      BY <1>8, <2>3 DEF Apply, TypeOK
    <3> QED  BY <1>K, <1>S, <2>1, <3>1
  <2> QED  BY <2>2, <2>3
<1>9. ASSUME NEW j \in Instances, ListenerFails(j) PROVE cache'[i][id] = docs'[id]
  BY <1>9, <1>K, <1>S DEF ListenerFails, history
<1>10. ASSUME NEW j \in Instances, DeleteExpired(j) PROVE cache'[i][id] = docs'[id]
  <2>1. UNCHANGED <<docs, seen, todo, up, writes, expired, failed>>
    BY <1>10 DEF DeleteExpired, network, environment, history
  <2>2. cache[i][id] = docs[id] /\ Live(docs[id])
    BY <1>S, <2>1 DEF Reaching, Live
  <2>3. cache'[i][id] = cache[i][id] \/ ~Live(cache[i][id])
    BY <1>10 DEF DeleteExpired, TypeOK
  <2> QED  BY <2>1, <2>2, <2>3
<1>11. ASSUME NEW j \in Instances, Crash(j) PROVE cache'[i][id] = docs'[id]
  <2>1. j # i
    BY <1>11 DEF Crash, TypeOK
  <2>2. up[i] /\ cache'[i] = cache[i] /\ todo'[i] = todo[i] /\ UNCHANGED <<docs, seen, expired>>
    BY <1>11, <2>1 DEF Crash, TypeOK
  <2>3. \A w \in writes : w.by # j => w \in writes'
    BY <1>11 DEF Crash
  <2>4. <<i, id>> \notin failed
    BY <1>0, <1>11, <2>1 DEF Crash
  <2>5. Settled(i, id)
    BY <1>0, <2>1, <2>3, <2>4 DEF Settled
  <2> QED  BY <1>K, <2>2, <2>5
<1>12. ASSUME NEW j \in Instances, Start(j) PROVE cache'[i][id] = docs'[id]
  <2>1. UNCHANGED <<docs, todo, writes, expired, failed>>
    BY <1>12 DEF Start, history
  <2>2. CASE j # i
    <3>1. up[i] /\ cache'[i] = cache[i] /\ seen'[i] = seen[i]
      BY <1>12, <2>2 DEF Start, TypeOK
    <3> QED  BY <1>K, <1>S, <2>1, <3>1
  <2>3. CASE j = i
    <3>1. cache'[i][id] = IF Live(docs[id]) THEN docs[id] ELSE NoRule
      BY <1>12, <2>3 DEF Start, TypeOK, Loaded
    <3>2. Live(docs[id])
      BY <2>1 DEF Live
    <3> QED  BY <2>1, <3>1, <3>2
  <2> QED  BY <2>2, <2>3
<1>13. ASSUME NEW n \in Rules, Expire(n) PROVE cache'[i][id] = docs'[id]
  BY <1>13, <1>K, <1>S DEF Expire, history
<1>14. ASSUME NEW d \in Ids, Spoil(d) PROVE cache'[i][id] = docs'[id]
  <2>1. UNCHANGED <<seen, cache, writes, todo, up, expired, failed>>
    BY <1>14 DEF Spoil, history
  <2>2. docs'[id] = docs[id]
    BY <1>0, <1>14 DEF Spoil, TypeOK
  <2> QED  BY <1>0, <1>S, <2>1, <2>2 DEF Reaching, Live
<1> QED
  BY <1>1, <1>2, <1>3, <1>4, <1>5, <1>6, <1>7, <1>8, <1>9, <1>10, <1>11, <1>12, <1>13, <1>14 DEF Next

-----------------------------------------------------------------------------
(***************************************************************************)
(* The inductive invariant of the caches and their Firestore.              *)
(***************************************************************************)
THEOREM Invariance == Spec => []Inv
<1>1. Init => Inv
  <2> SUFFICES ASSUME Init PROVE Inv  OBVIOUS
  <2>1. MaxOps \in Nat /\ MaxFailures \in Nat
    BY BoundsAssumption
  <2>2. docs \in [Ids -> Documents] /\ docs = Absent
    BY DEF Init, Absent, Documents
  <2>3. TypeOK
    BY <2>1, <2>2 DEF Init, TypeOK, Absent, Documents
  <2>4. Following /\ Reaching
    BY DEF Init, Following, Reaching, Live, Absent
  <2>5. Issued /\ Fresh
    BY BoundsAssumption DEF Init, Issued, Fresh, Absent, Rules
  <2> QED  BY <2>3, <2>4, <2>5 DEF Inv
<1>2. Inv /\ [Next]_vars => Inv'
  BY TypeStep, FollowingStep, IssuedStep, FreshStep, ReachingStep DEF Inv
<1> QED  BY <1>1, <1>2, PTL DEF Spec

(***************************************************************************)
(* What is in a cache or in flight is the rule of some SetRule call,       *)
(* whatever others write to Firestore.                                     *)
(***************************************************************************)
THEOREM TypeCorrect == Spec => []TypeOK
<1>1. Inv => TypeOK  BY DEF Inv
<1> QED  BY <1>1, Invariance, PTL

(***************************************************************************)
(* No interleaving hides a live stored rule from an instance that has      *)
(* caught up and has no write of its own pending.                          *)
(***************************************************************************)
THEOREM RulesReachCaches == Spec => []StoredRulesReachCaches
<1>1. Inv => StoredRulesReachCaches
  BY DEF Inv, Reaching, StoredRulesReachCaches, CaughtUp
<1> QED  BY <1>1, Invariance, PTL

(***************************************************************************)
(* An instance that leaves an id alone mirrors Firestore on it.            *)
(***************************************************************************)
THEOREM FollowersAreMirrors == Spec => []FollowersMirror
<1>1. Inv => FollowersMirror
  BY DEF Inv, Following, FollowersMirror, CaughtUp, Mirrors
<1> QED  BY <1>1, Invariance, PTL
=============================================================================
