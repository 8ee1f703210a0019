--------------------------- MODULE FirestoreRules ---------------------------
(***************************************************************************)
(* The Firestore rule store shared by several proxy instances,             *)
(* internal/plugins/storage/firestore/rule_store.go: the cache of each     *)
(* instance, its asynchronous writes, its snapshot listener, and the       *)
(* instances' crashes and restarts.                                        *)
(*                                                                         *)
(* A rule is the number of the SetRule call that made it.  Firestore       *)
(* itself is external: it holds one document per rule id and tells a       *)
(* listener how its documents differ from the listener's last snapshot, so *)
(* a document created and deleted between two snapshots is never reported. *)
(* Others may write there too: a document that does not decode as a rule   *)
(* is skipped by the store.                                                *)
(***************************************************************************)
EXTENDS Integers, FiniteSets

CONSTANTS
    Instances,      \* proxy instances
    Ids,            \* rule ids
    NoRule,         \* absence of a rule from a cache or of a document
    Undecodable,    \* a document of which DataTo makes no rule
    MaxOps,         \* bound: admin commands in a behaviour
    MaxFailures     \* bound: failed writes, spoilt documents, dead listeners, crashes

ASSUME BoundsAssumption ==
    /\ MaxOps \in Nat
    /\ MaxFailures \in Nat
    /\ NoRule \notin Nat /\ Undecodable \notin Nat
    /\ NoRule # Undecodable

VARIABLES
    docs,           \* docs[id]: the document of a rule, in Firestore
    cache,          \* cache[i][id]: s.rules of instance i
    writes,         \* writes in flight, in no order: each runs in its goroutine
    seen,           \* seen[i]: the documents of the last snapshot of i's listener
    todo,           \* todo[i]: the ids changed in it that are still to be applied
    listening,      \* whether i's listener goroutine runs
    up,             \* whether instance i runs
    ops,            \* commands so far; the number of the last one
    expired,        \* the rules whose ExpiresAt has passed
    failures,       \* failures so far
    failed,         \* history: <<instance, id>> of the writes that failed
    commanded       \* history: <<i, id>> that i's admin changed since i started

network == <<docs, seen, listening>>
environment == <<up, expired, failures>>
history == <<failed, commanded>>
vars == <<docs, cache, writes, seen, todo, listening, up, ops, expired, failures,
          failed, commanded>>

Rules == 1..MaxOps

Documents == Rules \cup {NoRule, Undecodable}

Write == [op : {"set", "delete", "sweep"}, by : Instances, id : Ids \cup {NoRule}, n : Rules]

Absent == [id \in Ids |-> NoRule]

Init ==
    /\ docs = Absent
    /\ cache = [i \in Instances |-> Absent]
    /\ writes = {}
    /\ seen = [i \in Instances |-> Absent]
    /\ todo = [i \in Instances |-> {}]
    /\ listening = [i \in Instances |-> TRUE]
    /\ up = [i \in Instances |-> TRUE]
    /\ ops = 0
    /\ expired = {}
    /\ failures = 0
    /\ failed = {}
    /\ commanded = {}

-----------------------------------------------------------------------------
(* The admin's commands on one instance.  The cache changes at once, under *)
(* the lock; the document is written by a goroutine nobody waits for.      *)

Command(i) ==
    /\ up[i]
    /\ ops < MaxOps
    /\ ops' = ops + 1
    /\ UNCHANGED <<network, environment, todo, failed>>

SetRule(i, id) ==
    /\ Command(i)
    /\ cache' = [cache EXCEPT ![i][id] = ops + 1]
    /\ writes' = writes \cup {[op |-> "set", by |-> i, id |-> id, n |-> ops + 1]}
    /\ commanded' = commanded \cup {<<i, id>>}

\* Only a rule found in this instance's cache is removed from Firestore.
RemoveRule(i, id) ==
    /\ Command(i)
    /\ cache[i][id] # NoRule
    /\ cache' = [cache EXCEPT ![i][id] = NoRule]
    /\ writes' = writes \cup {[op |-> "delete", by |-> i, id |-> id, n |-> ops + 1]}
    /\ commanded' = commanded \cup {<<i, id>>}

RemoveAll(i) ==
    /\ Command(i)
    /\ cache' = [cache EXCEPT ![i] = Absent]
    /\ writes' = writes \cup {[op |-> "sweep", by |-> i, id |-> NoRule, n |-> ops + 1]}
    /\ commanded' = commanded \cup ({i} \X Ids)

-----------------------------------------------------------------------------
(* The asynchronous writes reach Firestore in any order, or fail.          *)

Land(w) ==
    /\ w \in writes
    /\ w.op \in {"set", "delete"}
    /\ docs' = [docs EXCEPT ![w.id] = IF w.op = "set" THEN w.n ELSE NoRule]
    /\ writes' = writes \ {w}
    /\ UNCHANGED <<cache, seen, todo, listening, environment, ops, history>>

\* Somebody else writes a document that is no rule.
Spoil(id) ==
    /\ failures < MaxFailures
    /\ failures' = failures + 1
    /\ docs' = [docs EXCEPT ![id] = Undecodable]
    /\ UNCHANGED <<cache, writes, seen, todo, listening, up, ops, expired, history>>

\* The goroutine of RemoveAll lists the documents and then deletes each.
Sweep(w) ==
    /\ w \in writes
    /\ w.op = "sweep"
    /\ writes' = (writes \ {w}) \cup
          {[op |-> "delete", by |-> w.by, id |-> id, n |-> w.n] :
              id \in {id \in Ids : docs[id] # NoRule}}
    /\ UNCHANGED <<docs, cache, seen, todo, listening, environment, ops, history>>

\* The error is logged and nothing is retried.
WriteFails(w) ==
    /\ w \in writes
    /\ failures < MaxFailures
    /\ failures' = failures + 1
    /\ writes' = writes \ {w}
    /\ failed' = failed \cup ({w.by} \X (IF w.op = "sweep" THEN Ids ELSE {w.id}))
    /\ UNCHANGED <<docs, cache, seen, todo, listening, up, ops, expired, commanded>>

-----------------------------------------------------------------------------
(* listenForChanges: a snapshot, and then its changes one by one, each     *)
(* under the lock.  A change puts a fresh rule into the cache, whatever    *)
(* is there: the instance's own writes come back this way too.  One that   *)
(* does not decode is skipped, and the cache keeps what it has.            *)

\* Mutant of Changed: changes to documents the listener knew are not reported.
Changed_NewOnly(i) == {id \in Ids : docs[id] # seen[i][id] /\ seen[i][id] = NoRule}

Changed(i) == {id \in Ids : docs[id] # seen[i][id]}

Receive(i) ==
    /\ up[i] /\ listening[i]
    /\ todo[i] = {}
    /\ docs # seen[i]
    /\ seen' = [seen EXCEPT ![i] = docs]
    /\ todo' = [todo EXCEPT ![i] = Changed(i)]
    /\ UNCHANGED <<docs, cache, writes, listening, environment, ops, history>>

\* Mutant of Apply: a rule the cache already holds is kept.
Apply_KeepingCached(i, id) ==
    /\ id \in todo[i]
    /\ cache' = IF seen[i][id] = Undecodable \/ (seen[i][id] # NoRule /\ cache[i][id] # NoRule)
                THEN cache ELSE [cache EXCEPT ![i][id] = seen[i][id]]
    /\ todo' = [todo EXCEPT ![i] = @ \ {id}]
    /\ UNCHANGED <<network, writes, environment, ops, history>>

\* Mutant of Apply: after a failed DataTo the loop does not continue.
Apply_Undecoded(i, id) ==
    /\ id \in todo[i]
    /\ cache' = [cache EXCEPT ![i][id] = seen[i][id]]
    /\ todo' = [todo EXCEPT ![i] = @ \ {id}]
    /\ UNCHANGED <<network, writes, environment, ops, history>>

Apply(i, id) ==
    /\ id \in todo[i]
    /\ cache' = IF seen[i][id] = Undecodable
                THEN cache ELSE [cache EXCEPT ![i][id] = seen[i][id]]
    /\ todo' = [todo EXCEPT ![i] = @ \ {id}]
    /\ UNCHANGED <<network, writes, environment, ops, history>>

\* Any error of the iterator ends the goroutine, for good.
ListenerFails(i) ==
    /\ up[i] /\ listening[i] /\ todo[i] = {}
    /\ failures < MaxFailures
    /\ failures' = failures + 1
    /\ listening' = [listening EXCEPT ![i] = FALSE]
    /\ UNCHANGED <<docs, cache, writes, seen, todo, up, ops, expired, history>>

-----------------------------------------------------------------------------
(* Expiry, crash and restart.                                              *)

Expire(n) ==
    /\ n \in 1..ops
    /\ n \notin expired
    /\ expired' = expired \cup {n}
    /\ UNCHANGED <<docs, cache, writes, seen, todo, listening, up, ops, failures, history>>

\* A rule, or the rule of a document, that has not expired.
Live(n) == n \notin {NoRule, Undecodable} \cup expired

\* The cleanup loop empties caches; the documents of expired rules stay.
DeleteExpired(i) ==
    /\ up[i]
    /\ cache' = [cache EXCEPT ![i] = [id \in Ids |-> IF Live(@[id]) THEN @[id] ELSE NoRule]]
    /\ UNCHANGED <<network, writes, todo, environment, ops, history>>

\* The writes of instance i that may have left it.  A sweep has to be driven.
OnTheWire(i) == {w \in writes : w.by = i /\ w.op # "sweep"}

\* A crash, or the process exiting: writes still in the instance are lost with
\* it, those already on the wire may land later.
Crash(i) ==
    /\ up[i]
    /\ failures < MaxFailures
    /\ failures' = failures + 1
    /\ up' = [up EXCEPT ![i] = FALSE]
    /\ cache' = [cache EXCEPT ![i] = Absent]
    /\ todo' = [todo EXCEPT ![i] = {}]
    /\ listening' = [listening EXCEPT ![i] = FALSE]
    /\ \E sent \in SUBSET OnTheWire(i) : writes' = {w \in writes : w.by # i} \cup sent
    /\ commanded' = {c \in commanded : c[1] # i}
    /\ failed' = {c \in failed : c[1] # i}
    /\ UNCHANGED <<docs, seen, ops, expired>>

\* Mutant of Loaded: the initial load leaves the documents to the listener,
\* which has them in its first snapshot already.
Loaded_Nothing == Absent

\* What NewFirestoreRuleStore takes into the cache: what decodes and is live.
Loaded == [id \in Ids |-> IF Live(docs[id]) THEN docs[id] ELSE NoRule]

\* NewFirestoreRuleStore: the first snapshot is loaded before the instance
\* serves, and the listener goes on from it.
Start(i) ==
    /\ ~up[i]
    /\ up' = [up EXCEPT ![i] = TRUE]
    /\ cache' = [cache EXCEPT ![i] = Loaded]
    /\ seen' = [seen EXCEPT ![i] = docs]
    /\ listening' = [listening EXCEPT ![i] = TRUE]
    /\ UNCHANGED <<docs, writes, todo, ops, expired, failures, history>>

-----------------------------------------------------------------------------
Next ==
    \/ \E i \in Instances, id \in Ids : SetRule(i, id) \/ RemoveRule(i, id)
    \/ \E i \in Instances : RemoveAll(i)
    \/ \E id \in Ids : Spoil(id)
    \/ \E w \in writes : Land(w) \/ Sweep(w) \/ WriteFails(w)
    \/ \E i \in Instances : Receive(i)
    \/ \E i \in Instances, id \in Ids : Apply(i, id)
    \/ \E i \in Instances : ListenerFails(i) \/ DeleteExpired(i) \/ Crash(i) \/ Start(i)
    \/ \E n \in Rules : Expire(n)

\* Firestore answers, listeners are told of changes and goroutines run.
Fairness ==
    /\ WF_vars(\E w \in writes : Land(w) \/ Sweep(w))
    /\ \A i \in Instances :
         /\ WF_vars(Receive(i))
         /\ WF_vars(\E id \in Ids : Apply(i, id))

Spec == Init /\ [][Next]_vars
FairSpec == Spec /\ Fairness

-----------------------------------------------------------------------------
(* What is checked.                                                        *)

(***************************************************************************)
(* The type of every variable; what is in a cache or in flight is the rule *)
(* of some SetRule call, whatever others write to Firestore                *)
(* (rule_store.go lines 86-90 and 263-267).                                *)
(***************************************************************************)
TypeOK ==
    /\ docs \in [Ids -> Documents]
    /\ cache \in [Instances -> [Ids -> Rules \cup {NoRule}]]
    /\ writes \subseteq Write
    /\ \A w \in writes : w.op # "sweep" => w.id \in Ids
    /\ seen \in [Instances -> [Ids -> Documents]]
    /\ todo \in [Instances -> SUBSET Ids]
    /\ listening \in [Instances -> BOOLEAN]
    /\ up \in [Instances -> BOOLEAN]
    /\ \A i \in Instances : ~up[i] => ~listening[i] /\ todo[i] = {}
    /\ ops \in 0..MaxOps
    /\ expired \subseteq 1..ops
    /\ failures \in 0..MaxFailures

\* Instance i has applied everything Firestore has told it, and Firestore has
\* told it everything.
CaughtUp(i) == up[i] /\ listening[i] /\ seen[i] = docs /\ todo[i] = {}

\* An expired document may have left the cache already, and one that does not
\* decode says nothing of it.
Mirrors(i, id) ==
    \/ cache[i][id] = docs[id]
    \/ docs[id] = Undecodable
    \/ ~Live(docs[id]) /\ cache[i][id] = NoRule

\* No write of an instance's own is on its way, and none has failed.
Settled(i, id) ==
    /\ <<i, id>> \notin failed
    /\ \A w \in writes : w.by = i => w.op # "sweep" /\ w.id # id

(***************************************************************************)
(* A live rule in Firestore is in the cache of every instance whose        *)
(* listener has caught up, unless a write of that instance's own is on its *)
(* way or failed: no interleaving of local commands, late echoes, writes   *)
(* out of order, crashes and restarts hides a stored rule (SetRule lines   *)
(* 114-128, listenForChanges lines 260-272).                               *)
(***************************************************************************)
StoredRulesReachCaches ==
    \A i \in Instances, id \in Ids :
        CaughtUp(i) /\ Settled(i, id) /\ Live(docs[id]) => cache[i][id] = docs[id]

(***************************************************************************)
(* An instance whose admin never touched an id since it started mirrors    *)
(* Firestore on that id, removals included, as soon as its listener has    *)
(* caught up (lines 91-93 and 260-277).                                    *)
(***************************************************************************)
FollowersMirror ==
    \A i \in Instances, id \in Ids :
        CaughtUp(i) /\ <<i, id>> \notin commanded => Mirrors(i, id)

(***************************************************************************)
(* Once commands and failures stop, every write lands, and every running   *)
(* instance whose listener is alive comes to mirror Firestore for good on  *)
(* the ids its own admin left alone: what another instance's admin did     *)
(* arrives however it was interleaved with crashes, restarts and failures  *)
(* (listenForChanges, lines 246-280).                                      *)
(***************************************************************************)
FollowersConverge ==
    <>[](/\ writes = {}
         /\ \A i \in Instances, id \in Ids :
              up[i] /\ listening[i] /\ <<i, id>> \notin commanded => Mirrors(i, id))

Quiet == writes = {} /\ \A i \in Instances : CaughtUp(i)

(***************************************************************************)
(* What docs/PLUGINS.md line 232 says: all instances converge via the      *)
(* snapshot listener.  A rule that another instance removes before the     *)
(* listener of the instance that set it is told of it stays in that cache. *)
(***************************************************************************)
InstancesConverge ==
    Quiet => \A i, j \in Instances, id \in Ids :
                Live(cache[i][id]) => cache[j][id] = cache[i][id]
=============================================================================
