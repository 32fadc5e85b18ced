---------------------------- MODULE ControlPlane ----------------------------
(***************************************************************************)
(* The control plane: requests to the REST API (pkg/api/handlers/policy.go)*)
(* as they run, one goroutine each, over the policy manager                *)
(* (pkg/policy/policy.go) and its storage (pkg/policy/storage.go), with    *)
(* crashes and restarts of the agent.  Nothing is locked: every system     *)
(* call on a table and every statement of the database is a step.          *)
(***************************************************************************)
EXTENDS PolicyTables, SequencesExt

CONSTANTS
  Workers,                      \* requests that can be in progress at once
  Policies,                     \* policies that clients send
  DefaultPolicy,                \* installed by main when there is no storage
  Databases,                    \* what earlier runs may have left: rows
  Bucket,                       \* policy key -> bucket of the hash table
  MAX_ENTRIES_POLICY,           \* capacity of policy_map (10000)
  MAX_ENTRIES_WILDCARD_POLICY,  \* slots of wildcard_policy_map (1000)
  OneWildcardWriter,            \* clients change wildcard policies one by one
  MaxRequests,                  \* bound: POST, PUT and DELETE requests
  MaxCrashes                    \* bound: crashes of the agent

Sent == Policies \cup {DefaultPolicy}
        \cup UNION {{d[i] : i \in DOMAIN d} : d \in Databases}

ASSUME PolicyAssumption ==
  /\ \A p \in Sent : /\ p.action \in Action
                     /\ p.priority \in Nat
                     /\ p.rule_id \in Nat \ {0}
  /\ \A d \in Databases : /\ d \in [DOMAIN d -> Sent]
                          /\ \A i \in DOMAIN d : d[i].rule_id = i
  /\ hasWildcard(DefaultPolicy)

ASSUME CapacityAssumption ==
  /\ MAX_ENTRIES_POLICY \in Nat /\ MAX_ENTRIES_WILDCARD_POLICY \in Nat \ {0}
  /\ OneWildcardWriter \in BOOLEAN /\ MaxRequests \in Nat /\ MaxCrashes \in Nat

ASSUME BucketAssumption ==
  \A p \in Sent : ~hasWildcard(p) => Bucket[PolicyKey(p)] \in Nat

VARIABLES
  agent,                \* "down", "restoring" (LoadPersisted) or "serving"
  persistent,           \* whether the manager has a storage
  policy_map,           \* policy key -> policy_value, a partial function
  layout,               \* the keys of policy_map in the order of iteration
  wildcard_policy_map,  \* slot -> wildcard_policy
  rows,                 \* table policies of the database: rule id -> policy
  left,                 \* policies LoadPersisted has still to apply
  worker,               \* the request each worker handles
  promised,             \* auxiliary: rule id -> policy the API confirmed
  open,                 \* auxiliary: rule ids about which it promised nothing
  unsaved,              \* auxiliary: rule ids whose last write of a row failed
  requests, crashes     \* counters for the bounds

tables == <<policy_map, layout, wildcard_policy_map>>
store  == <<rows, unsaved>>
book   == <<promised, open>>
life   == <<agent, persistent, left, requests, crashes>>
vars   == <<agent, persistent, policy_map, layout, wildcard_policy_map, rows,
            left, worker, promised, open, unsaved, requests, crashes>>

-----------------------------------------------------------------------------
Slots   == 0 .. (MAX_ENTRIES_WILDCARD_POLICY - 1)
RuleIds == {p.rule_id : p \in Sent}

Put(map, k, v)  == [x \in DOMAIN map \cup {k} |-> IF x = k THEN v ELSE map[x]]
Without(map, k) == [x \in DOMAIN map \ {k} |-> map[x]]
NoEntries       == [x \in {} |-> {}]

PolicyValue(p) == [action |-> p.action, priority |-> p.priority,
                   rule_id |-> p.rule_id]

(***************************************************************************)
(* A new or replaced element of a hash table goes to the head of its       *)
(* bucket; iteration goes from bucket to bucket.                           *)
(***************************************************************************)
Dropped(k) ==
  LET at == {i \in DOMAIN layout : layout[i] = k}
  IN  IF at = {} THEN layout ELSE RemoveAt(layout, CHOOSE i \in at : TRUE)

Placed(k) ==
  LET rest   == Dropped(k)
      before == {i \in DOMAIN rest : Bucket[rest[i]] < Bucket[k]}
  IN  InsertAt(rest, Cardinality(before) + 1, k)

\* Bug: the iteration ends when its last key has been deleted
NextKeysOrNone(cursor) ==
  LET at == {i \in DOMAIN layout : layout[i] \in cursor}
      after == IF cursor = {} THEN {1} ELSE {i + 1 : i \in at}
  IN  {layout[i] : i \in after \cap DOMAIN layout}

\* The key after k, the first one if k is gone; none at the end.
NextKeys(cursor) ==
  LET at    == {i \in DOMAIN layout : layout[i] \in cursor}
      after == IF at = {} THEN {1} ELSE {i + 1 : i \in at}
  IN  {layout[i] : i \in after \cap DOMAIN layout}

Used(s) == wildcard_policy_map[s].rule_id # 0

HasRoom(k) ==
  k \in DOMAIN policy_map \/ Cardinality(DOMAIN policy_map) < MAX_ENTRIES_POLICY

\* Bug: the value is built without the rule id
PutExactUnnamed(p) ==
  /\ policy_map' = Put(policy_map, PolicyKey(p), [PolicyValue(p) EXCEPT !.rule_id = 0])
  /\ layout' = Placed(PolicyKey(p))

PutExact(p) ==
  /\ policy_map' = Put(policy_map, PolicyKey(p), PolicyValue(p))
  /\ layout' = Placed(PolicyKey(p))

-----------------------------------------------------------------------------
(***************************************************************************)
(* A request in progress.  sure: nobody else was changing the rule, so     *)
(* what was promised before still tells what is there.  found: the first   *)
(* entry with the rule id among those listed so far.                       *)
(***************************************************************************)
Idle == [pc |-> "idle", op |-> "GET", policy |-> DefaultPolicy, sure |-> FALSE,
         slot |-> 0, cursor |-> {}, count |-> 0, found |-> {}, status |-> "none"]

id(w) == worker[w].policy.rule_id

Mutates(r)        == r.pc # "idle" /\ r.op # "GET"
WritesWildcard(r) == Mutates(r) /\ r.op # "DELETE" /\ hasWildcard(r.policy)

\* Clients do not change one rule twice at the same time.
Compatible(r, q) ==
  /\ Mutates(r) /\ Mutates(q) => r.policy.rule_id # q.policy.rule_id
  /\ OneWildcardWriter => ~(WritesWildcard(r) /\ WritesWildcard(q))

Go(w, pc)         == worker' = [worker EXCEPT ![w].pc = pc]
Reply(w, status)  == worker' = [worker EXCEPT ![w].pc = "answer",
                                              ![w].status = status]

Adding(p) == IF hasWildcard(p) THEN "slot" ELSE "insert"

\* What follows the last system call of an addition, and of a deletion.
Added(w) == IF persistent THEN Go(w, "save") ELSE Reply(w, "ok")

\* Bug: PUT deletes and does not add
ErasedOnly(w) == Reply(w, "ok")

Erased(w) == IF worker[w].op = "PUT" THEN Go(w, Adding(worker[w].policy))
             ELSE Reply(w, "ok")

Init ==
  /\ agent = "down" /\ persistent \in BOOLEAN
  /\ policy_map = NoEntries /\ layout = <<>>
  /\ wildcard_policy_map = [i \in Slots |-> EmptySlot]
  /\ rows \in IF persistent THEN Databases ELSE {NoEntries}
  /\ left = {}
  /\ worker = [w \in Workers |-> Idle]
  /\ promised = rows /\ open = {} /\ unsaved = {}
  /\ requests = 0 /\ crashes = 0

(***************************************************************************)
(* A request that passed validation.  GET and DELETE carry a rule id only, *)
(* for which any policy with that id stands.                               *)
(***************************************************************************)
Named == {p \in Sent : p = CHOOSE q \in Sent : q.rule_id = p.rule_id}

FirstStep(op, p) ==
  CASE op = "POST" -> Adding(p) [] op = "PUT" -> "erase" [] OTHER -> "next"

Begin(w, op, p) ==
  /\ agent = "serving" /\ worker[w].pc = "idle"
  /\ p \in IF op \in {"GET", "DELETE"} THEN Named ELSE Policies
  /\ LET r == [Idle EXCEPT !.pc = FirstStep(op, p), !.op = op, !.policy = p,
                           !.sure = p.rule_id \notin open]
     IN  /\ \A v \in Workers \ {w} : Compatible(r, worker[v])
         /\ worker' = [v \in Workers |->
              IF v = w THEN r
              ELSE [worker[v] EXCEPT !.sure =
                      @ /\ ~(Mutates(r) /\ id(v) = p.rule_id)]]
  /\ IF op = "GET" THEN UNCHANGED <<requests, open>>
     ELSE /\ requests < MaxRequests
          /\ requests' = requests + 1
          /\ open' = open \cup {p.rule_id}
  /\ UNCHANGED <<agent, persistent, left, crashes, tables, store, promised>>

-----------------------------------------------------------------------------
(***************************************************************************)
(* PolicyManager.DeletePolicy: by key, and only if that worked the row.    *)
(* PUT calls it with the key of the new policy and goes on if it fails.    *)
(***************************************************************************)
EraseKey(w) ==
  IF worker[w].op = "PUT" THEN {PolicyKey(worker[w].policy)}
  ELSE {e.key : e \in worker[w].found}

Erase(w) ==
  /\ worker[w].pc = "erase"
  /\ \E k \in EraseKey(w) :
       \/ /\ k \in DOMAIN policy_map
          /\ policy_map' = Without(policy_map, k)
          /\ layout' = Dropped(k)
          /\ IF persistent THEN Go(w, "forget") ELSE Erased(w)
       \/ /\ k \notin DOMAIN policy_map
          /\ IF worker[w].op = "PUT" THEN Erased(w) ELSE Reply(w, "error")
          /\ UNCHANGED <<policy_map, layout>>
  /\ UNCHANGED <<wildcard_policy_map, store, book, life>>

\* SQLiteStorage.DeletePolicy; an error is only logged.
Forget(w) ==
  /\ worker[w].pc = "forget"
  /\ \/ /\ rows' = Without(rows, id(w))
        /\ unsaved' = unsaved \ {id(w)}
     \/ /\ id(w) \in DOMAIN rows
        /\ unsaved' = unsaved \cup {id(w)}
        /\ UNCHANGED rows
  /\ Erased(w)
  /\ UNCHANGED <<tables, book, life>>

(***************************************************************************)
(* PolicyManager.AddPolicy: one Put for an exact policy, the search of a   *)
(* slot and a Put for a wildcard one, then the row.                        *)
(***************************************************************************)
Insert(w) ==
  /\ worker[w].pc = "insert"
  /\ \/ /\ HasRoom(PolicyKey(worker[w].policy))
        /\ PutExact(worker[w].policy)
        /\ Added(w)
     \/ /\ ~HasRoom(PolicyKey(worker[w].policy))
        /\ Reply(w, "error")
        /\ UNCHANGED <<policy_map, layout>>
  /\ UNCHANGED <<wildcard_policy_map, store, book, life>>

\* Bug: the slot that has the rule id already is not reused
ProbeSlotEmpty(w) ==
  /\ worker[w].pc = "slot"
  /\ LET i == worker[w].slot
     IN  \/ i \in Slots /\ ~Used(i) /\ Go(w, "write")
         \/ i \in Slots /\ Used(i) /\ worker' = [worker EXCEPT ![w].slot = i + 1]
         \/ i \notin Slots /\ Reply(w, "error")
  /\ UNCHANGED <<tables, store, book, life>>

ProbeSlot(w) ==
  /\ worker[w].pc = "slot"
  /\ LET i == worker[w].slot
     IN  \/ /\ i \in Slots
            /\ wildcard_policy_map[i].rule_id \in {0, id(w)}
            /\ Go(w, "write")
         \/ /\ i \in Slots
            /\ wildcard_policy_map[i].rule_id \notin {0, id(w)}
            /\ worker' = [worker EXCEPT ![w].slot = i + 1]
         \/ i \notin Slots /\ Reply(w, "error")
  /\ UNCHANGED <<tables, store, book, life>>

WriteSlot(w) ==
  /\ worker[w].pc = "write"
  /\ wildcard_policy_map' = [wildcard_policy_map EXCEPT
       ![worker[w].slot] = WildcardEntry(worker[w].policy)]
  /\ Added(w)
  /\ UNCHANGED <<policy_map, layout, store, book, life>>

\* Bug: ON CONFLICT DO NOTHING
SaveNew(w) ==
  /\ worker[w].pc = "save"
  /\ \/ /\ rows' = IF id(w) \in DOMAIN rows THEN rows
                    ELSE Put(rows, id(w), worker[w].policy)
        /\ unsaved' = unsaved \ {id(w)}
     \/ /\ unsaved' = unsaved \cup {id(w)}
        /\ UNCHANGED rows
  /\ Reply(w, "ok")
  /\ UNCHANGED <<tables, book, life>>

\* SQLiteStorage.SavePolicy; an error is only logged.
Save(w) ==
  /\ worker[w].pc = "save"
  /\ \/ /\ rows' = Put(rows, id(w), worker[w].policy)
        /\ unsaved' = unsaved \ {id(w)}
     \/ /\ unsaved' = unsaved \cup {id(w)}
        /\ UNCHANGED rows
  /\ Reply(w, "ok")
  /\ UNCHANGED <<tables, book, life>>

-----------------------------------------------------------------------------
(***************************************************************************)
(* ListPolicies: the iterator asks for the key after the last one, then    *)
(* for its value, and gives up after more keys than the table can hold.    *)
(* GET and DELETE look for the rule id in the finished list.               *)
(***************************************************************************)
Listed(w) ==
  IF worker[w].found = {} THEN Reply(w, "not_found")
  ELSE IF worker[w].op = "DELETE" THEN Go(w, "erase")
  ELSE Reply(w, "ok")

NextKey(w) ==
  /\ worker[w].pc = "next"
  /\ LET next == NextKeys(worker[w].cursor)
     IN  \/ worker[w].count > MAX_ENTRIES_POLICY /\ Reply(w, "error")
         \/ worker[w].count <= MAX_ENTRIES_POLICY /\ next = {} /\ Listed(w)
         \/ /\ worker[w].count <= MAX_ENTRIES_POLICY /\ next # {}
            /\ worker' = [worker EXCEPT ![w].pc = "fetch", ![w].cursor = next,
                                        ![w].count = @ + 1]
  /\ UNCHANGED <<tables, store, book, life>>

Fetch(w) ==
  /\ worker[w].pc = "fetch"
  /\ LET entries == {[key |-> k, value |-> policy_map[k]] :
                       k \in worker[w].cursor \cap DOMAIN policy_map}
         hits    == {e \in entries : e.value.rule_id = id(w)}
     IN  worker' = [worker EXCEPT ![w].pc = "next",
           ![w].found = IF @ = {} THEN hits ELSE @]
  /\ UNCHANGED <<tables, store, book, life>>

(***************************************************************************)
(* The response, and what the client may conclude from it: a change that   *)
(* was confirmed is done, one that did nothing leaves things as they were, *)
(* and after any other failure nothing is known.                           *)
(***************************************************************************)
Harmless(r) ==
  \/ r.op = "DELETE" /\ r.status = "not_found"
  \/ r.op = "POST" /\ r.status = "error"

Answer(w) ==
  /\ worker[w].pc = "answer"
  /\ LET r == worker[w]
     IN  /\ promised' = CASE r.op \in {"POST", "PUT"} /\ r.status = "ok"
                               -> Put(promised, id(w), r.policy)
                          [] r.op = "DELETE" /\ r.status = "ok"
                               -> Without(promised, id(w))
                          [] OTHER -> promised
         /\ open' = IF r.op # "GET"
                       /\ (r.status = "ok" \/ (Harmless(r) /\ r.sure))
                    THEN open \ {id(w)} ELSE open
  /\ worker' = [worker EXCEPT ![w] = Idle]
  /\ UNCHANGED <<tables, store, life>>

-----------------------------------------------------------------------------
(***************************************************************************)
(* The agent dies at any moment and its tables with it.  Of what it had    *)
(* promised, what reached the storage is still promised.                   *)
(***************************************************************************)
Crash ==
  /\ agent # "down" /\ crashes < MaxCrashes
  /\ agent' = "down"
  /\ crashes' = crashes + 1
  /\ policy_map' = NoEntries /\ layout' = <<>>
  /\ wildcard_policy_map' = [i \in Slots |-> EmptySlot]
  /\ left' = {}
  /\ worker' = [w \in Workers |-> Idle]
  /\ open' = open \cup (IF persistent THEN unsaved ELSE RuleIds)
  /\ UNCHANGED <<persistent, requests, store, promised>>

(***************************************************************************)
(* Without storage main installs its default policy, in the first slot of  *)
(* the empty table; with storage LoadPersisted applies the rows, by        *)
(* descending priority and ascending rule id, and skips what does not fit. *)
(***************************************************************************)
StartFresh ==
  /\ agent = "down" /\ ~persistent
  /\ agent' = "serving"
  /\ wildcard_policy_map' = [wildcard_policy_map EXCEPT
       ![0] = WildcardEntry(DefaultPolicy)]
  /\ promised' = Put(promised, DefaultPolicy.rule_id, DefaultPolicy)
  /\ open' = open \ {DefaultPolicy.rule_id}
  /\ UNCHANGED <<persistent, left, requests, crashes, policy_map, layout, store,
                 worker>>

StartPersisted ==
  /\ agent = "down" /\ persistent
  /\ agent' = "restoring"
  /\ left' = {rows[n] : n \in DOMAIN rows}
  /\ UNCHANGED <<persistent, requests, crashes, tables, store, book, worker>>

Precedes(p, q) ==
  \/ p.priority > q.priority
  \/ p.priority = q.priority /\ p.rule_id <= q.rule_id

Restore ==
  /\ agent = "restoring"
  /\ \E p \in left :
       /\ \A q \in left : Precedes(p, q)
       /\ left' = left \ {p}
       /\ \/ /\ ~hasWildcard(p) /\ HasRoom(PolicyKey(p))
             /\ PutExact(p)
             /\ UNCHANGED <<wildcard_policy_map, open>>
          \/ /\ hasWildcard(p)
             /\ \E i \in Slots :
                  /\ IsTargetSlot(wildcard_policy_map, p.rule_id, i)
                  /\ wildcard_policy_map' =
                       [wildcard_policy_map EXCEPT ![i] = WildcardEntry(p)]
             /\ UNCHANGED <<policy_map, layout, open>>
          \/ /\ IF hasWildcard(p)
                THEN \A i \in Slots : ~IsTargetSlot(wildcard_policy_map, p.rule_id, i)
                ELSE ~HasRoom(PolicyKey(p))
             /\ open' = open \cup {p.rule_id}
             /\ UNCHANGED tables
  /\ UNCHANGED <<agent, persistent, requests, crashes, store, promised, worker>>

Serve ==
  /\ agent = "restoring" /\ left = {}
  /\ agent' = "serving"
  /\ UNCHANGED <<persistent, left, requests, crashes, tables, store, book, worker>>

-----------------------------------------------------------------------------
Work(w) ==
  \/ Erase(w) \/ Forget(w)
  \/ Insert(w) \/ ProbeSlot(w) \/ WriteSlot(w) \/ Save(w)
  \/ NextKey(w) \/ Fetch(w)
  \/ Answer(w)

Arrival == \E w \in Workers, op \in {"POST", "PUT", "GET", "DELETE"},
              p \in Sent : Begin(w, op, p)

Lifecycle == Crash \/ StartFresh \/ StartPersisted \/ Restore \/ Serve

Next == Arrival \/ (\E w \in Workers : Work(w)) \/ Lifecycle

Spec == Init /\ [][Next]_vars
-----------------------------------------------------------------------------
(***************************************************************************)
(* Type invariant.                                                         *)
(***************************************************************************)
Keys    == {PolicyKey(p) : p \in Sent}
Values  == {PolicyValue(p) : p \in Sent}
Entries == {EmptySlot} \cup {WildcardEntry(p) : p \in Sent}
PC      == {"idle", "erase", "forget", "insert", "slot", "write", "save",
            "next", "fetch", "answer"}

Request == [pc : PC, op : {"POST", "PUT", "GET", "DELETE"}, policy : Sent,
            sure : BOOLEAN, slot : Nat, cursor : SUBSET Keys, count : Nat,
            found : SUBSET [key : Keys, value : Values],
            status : {"none", "ok", "not_found", "error"}]

IsMap(map, K, V) == DOMAIN map \subseteq K /\ map \in [DOMAIN map -> V]

TypeOK ==
  /\ agent \in {"down", "restoring", "serving"} /\ persistent \in BOOLEAN
  /\ IsMap(policy_map, Keys, Values)
  /\ layout \in Seq(Keys)
  /\ wildcard_policy_map \in [Slots -> Entries]
  /\ IsMap(rows, RuleIds, Sent) /\ left \subseteq Sent
  /\ worker \in [Workers -> Request]
  /\ IsMap(promised, RuleIds, Sent)
  /\ open \subseteq RuleIds /\ unsaved \subseteq RuleIds
  /\ requests \in Nat /\ crashes \in Nat

(***************************************************************************)
(* The wildcard table is filled from the bottom without gaps and holds     *)
(* each rule id once, so every slot in use is a rule of its own and a      *)
(* wildcard policy is out of the filter's sight only when as many others   *)
(* as it looks at are there (the slot search of addWildcardPolicy).        *)
(***************************************************************************)
SlotsPacked ==
  \A s, t \in Slots : s < t =>
    /\ Used(t) => Used(s)
    /\ Used(s) => wildcard_policy_map[s].rule_id # wildcard_policy_map[t].rule_id

(***************************************************************************)
(* The rules that no client disputes: every policy sent for the rule goes  *)
(* to one table and, if that is the exact one, has one 5-tuple, which no   *)
(* other rule is sent with.  Nothing in the code makes clients respect     *)
(* this: addExactPolicy overwrites the entry another rule has at the       *)
(* 5-tuple, and UpdatePolicy leaves the entry of the old 5-tuple behind.   *)
(***************************************************************************)
Undisputed ==
  {i \in RuleIds : \A p, q \in Sent : p.rule_id = i =>
     /\ q.rule_id = i => (hasWildcard(p) <=> hasWildcard(q))
     /\ ~hasWildcard(p) => (q.rule_id = i <=> PolicyKey(q) = PolicyKey(p))}

(***************************************************************************)
(* What the API confirmed of a rule no client disputes is what the filter  *)
(* finds: while the agent serves, a confirmed policy is in the table with  *)
(* the confirmed content, and a rule that was deleted or never accepted is *)
(* in neither table, whatever requests about other rules are in progress,  *)
(* disputed ones included, and after restarts too, as far as the database  *)
(* accepted the writes and there was room to restore.                      *)
(***************************************************************************)
Applied(p) ==
  IF hasWildcard(p)
  THEN \E s \in Slots : wildcard_policy_map[s] = WildcardEntry(p)
  ELSE /\ PolicyKey(p) \in DOMAIN policy_map
       /\ policy_map[PolicyKey(p)] = PolicyValue(p)

Unapplied(i) ==
  /\ \A s \in Slots : wildcard_policy_map[s].rule_id # i
  /\ \A k \in DOMAIN policy_map : policy_map[k].rule_id # i

PromisedIsApplied ==
  agent = "serving" =>
    \A i \in Undisputed \ open :
      IF i \in DOMAIN promised THEN Applied(promised[i]) ELSE Unapplied(i)

(***************************************************************************)
(* The database agrees with what the API confirmed at every instant, also  *)
(* in the middle of requests about other rules and while the agent is      *)
(* down, unless a write of the row failed, which the API does not tell     *)
(* (AddPolicy and DeletePolicy of the manager).                            *)
(***************************************************************************)
PromisedIsSaved ==
  persistent =>
    \A i \in RuleIds \ (open \cup unsaved) :
      /\ i \in DOMAIN promised <=> i \in DOMAIN rows
      /\ i \in DOMAIN promised => rows[i] = promised[i]

(***************************************************************************)
(* A list made key by key while other rules come and go still tells the    *)
(* truth about an undisputed rule nobody is changing: an exact policy is   *)
(* found with its confirmed content, and what is found was confirmed       *)
(* (GetPolicy, and DeletePolicy before it deletes).  Wildcard policies are *)
(* never listed.                                                           *)
(***************************************************************************)
ListsTellTruth ==
  \A w \in Workers :
    LET r == worker[w]
        i == id(w)
    IN  r.pc = "answer" /\ r.op \in {"GET", "DELETE"} /\ r.sure
        /\ i \in Undisputed =>
          /\ r.status = "not_found" /\ i \in DOMAIN promised =>
               hasWildcard(promised[i])
          /\ r.found # {} =>
               /\ i \in DOMAIN promised
               /\ r.found = {[key   |-> PolicyKey(promised[i]),
                              value |-> PolicyValue(promised[i])]}
=============================================================================
