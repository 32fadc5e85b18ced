---------------------------- MODULE AppliedProofs ----------------------------
(***************************************************************************)
(* What the API confirmed is what the filter finds and what the API lists, *)
(* for every number of requests at once, every set of policies and         *)
(* databases, every size of the tables and every hash of the keys.         *)
(***************************************************************************)
EXTENDS ControlPlaneProofs

-----------------------------------------------------------------------------
(***************************************************************************)
(* Everything in the tables is the encoding of a policy of the right kind, *)
(* and policies are promised and saved under their own rule ids.           *)
(***************************************************************************)
Sourced ==
  /\ \A k \in DOMAIN policy_map : \E p \in Sent :
       ~hasWildcard(p) /\ k = PolicyKey(p) /\ policy_map[k] = PolicyValue(p)
  /\ \A s \in Slots :
       \/ wildcard_policy_map[s] = EmptySlot
       \/ \E p \in Sent : hasWildcard(p) /\ wildcard_policy_map[s] = WildcardEntry(p)

OwnIds ==
  /\ \A i \in DOMAIN promised : promised[i].rule_id = i
  /\ \A i \in DOMAIN rows : rows[i].rule_id = i

Good(i) == IF i \in DOMAIN promised THEN Applied(promised[i]) ELSE Unapplied(i)

(***************************************************************************)
(* The rules whose entries nobody else writes: of those no client disputes *)
(* the exact ones, because their key is theirs, and the wildcard ones as   *)
(* long as only one request at a time chooses a slot.                      *)
(***************************************************************************)
Owned == {i \in Undisputed : OneWildcardWriter
                             \/ \E p \in Sent : p.rule_id = i /\ ~hasWildcard(p)}

OwnedIsApplied == agent = "serving" => \A i \in Owned \ open : Good(i)

(***************************************************************************)
(* While the agent does not serve: the tables are empty or on their way to *)
(* what was promised.                                                      *)
(***************************************************************************)
Resting ==
  /\ agent = "down" =>
       /\ policy_map = NoEntries
       /\ \A s \in Slots : wildcard_policy_map[s] = EmptySlot
  /\ agent # "serving" /\ persistent => unsaved \subseteq open
  /\ agent = "down" /\ ~persistent => \A i \in RuleIds \ open : i \notin DOMAIN promised
  /\ agent = "restoring" =>
       /\ persistent
       /\ \A p \in left : p.rule_id \in DOMAIN rows /\ p = rows[p.rule_id]
       /\ \A i \in Owned \ open :
            Good(i) \/ (i \in DOMAIN promised /\ promised[i] \in left)

(***************************************************************************)
(* A request that changes a rule has it open, and knows what is applied if *)
(* nobody else writes the entry: its own policy once that is written,      *)
(* nothing once the entry is deleted, and what was promised before as long *)
(* as it has done nothing.                                                 *)
(***************************************************************************)
Written(r) == r.op \in {"POST", "PUT"} /\ (r.pc = "save" \/ Told(r, "ok"))
Deleted(r) == r.op = "DELETE" /\ (r.pc = "forget" \/ Told(r, "ok"))

Before(r) ==
  \/ r.op = "POST" /\ r.pc # "save" /\ ~Told(r, "ok")
  \/ r.op = "DELETE" /\ (r.pc \in {"next", "fetch", "erase"} \/ Told(r, "not_found"))

Applying(w) ==
  LET r == worker[w]
      i == r.policy.rule_id
  IN  Mutates(r) =>
        /\ i \in open
        /\ r.pc = "insert" => ~hasWildcard(r.policy)
        /\ r.pc \in {"slot", "write"} => hasWildcard(r.policy)
        /\ i \in Owned =>
             /\ Written(r) => Applied(r.policy)
             /\ Deleted(r) => Unapplied(i)
             /\ r.sure /\ Before(r) => Good(i)
        /\ r.op = "DELETE" => \A e \in r.found : \E q \in Sent :
             ~hasWildcard(q) /\ e.key = PolicyKey(q) /\ q.rule_id = i

AppliedInv ==
  /\ SavingInv
  /\ OneWildcardWriter => PackedInv
  /\ OwnIds /\ Sourced /\ Resting
  /\ OwnedIsApplied
  /\ \A w \in Workers : Applying(w)

-----------------------------------------------------------------------------
(***************************************************************************)
(* A rule no client disputes has one kind and, if exact, a key of its own. *)
(***************************************************************************)
LEMMA UndisputedAt ==
  ASSUME NEW i \in Undisputed, NEW p \in Sent, p.rule_id = i, NEW q \in Sent
  PROVE  /\ q.rule_id = i => (hasWildcard(p) <=> hasWildcard(q))
         /\ ~hasWildcard(p) => (q.rule_id = i <=> PolicyKey(q) = PolicyKey(p))
BY DEF Undisputed

LEMMA OwnedRule ==
  ASSUME NEW i \in Owned
  PROVE  i \in Undisputed /\ i \in RuleIds /\ i # 0
BY SentTypes DEF Owned, Undisputed, RuleIds

(***************************************************************************)
(* What the tables say of a rule that is left alone.                       *)
(***************************************************************************)
SameRule(i) ==
  /\ \A s \in Slots :
       wildcard_policy_map[s].rule_id = i \/ wildcard_policy_map'[s].rule_id = i
         => wildcard_policy_map'[s] = wildcard_policy_map[s]
  /\ \A k \in DOMAIN policy_map : policy_map[k].rule_id = i =>
       k \in DOMAIN policy_map' /\ policy_map'[k] = policy_map[k]
  /\ \A k \in DOMAIN policy_map' : policy_map'[k].rule_id = i =>
       k \in DOMAIN policy_map /\ policy_map'[k] = policy_map[k]

LEMMA UnchangedRule ==
  ASSUME UNCHANGED <<policy_map, wildcard_policy_map>>, NEW i
  PROVE  SameRule(i)
BY DEF SameRule

LEMMA EntryIds ==
  ASSUME NEW p
  PROVE  WildcardEntry(p).rule_id = p.rule_id /\ PolicyValue(p).rule_id = p.rule_id
BY DEF WildcardEntry, PolicyValue

LEMMA AppliedSame ==
  ASSUME NEW p, Applied(p), SameRule(p.rule_id)
  PROVE  Applied(p)'
<1>1. CASE hasWildcard(p)
  <2>1. PICK s \in Slots : wildcard_policy_map[s] = WildcardEntry(p)
    BY <1>1 DEF Applied
  <2>2. wildcard_policy_map'[s] = WildcardEntry(p)
    BY <2>1, EntryIds DEF SameRule
  <2> QED
    BY <1>1, <2>2 DEF Applied
<1>2. CASE ~hasWildcard(p)
  BY <1>2, EntryIds DEF Applied, SameRule
<1> QED
  BY <1>1, <1>2

LEMMA UnappliedSame ==
  ASSUME NEW i, Unapplied(i), SameRule(i)
  PROVE  Unapplied(i)'
BY DEF Unapplied, SameRule

SamePromise(i) ==
  /\ i \in DOMAIN promised' <=> i \in DOMAIN promised
  /\ i \in DOMAIN promised => promised'[i] = promised[i]

LEMMA GoodSame ==
  ASSUME OwnIds, NEW i, Good(i), SameRule(i), SamePromise(i)
  PROVE  Good(i)'
<1>1. CASE i \in DOMAIN promised
  <2>1. PICK p : p = promised[i]
    OBVIOUS
  <2>2. Applied(p) /\ p.rule_id = i
    BY <1>1, <2>1 DEF Good, OwnIds
  <2>3. Applied(p)'
    BY <2>2, AppliedSame
  <2> QED
    BY <1>1, <2>1, <2>3 DEF Good, SamePromise
<1>2. CASE i \notin DOMAIN promised
  BY <1>2, UnappliedSame DEF Good, SamePromise
<1> QED
  BY <1>1, <1>2

LEMMA ApplyingElsewhere ==
  ASSUME OwnIds, NEW v \in Workers, Applying(v),
         worker'[v].pc = worker[v].pc, worker'[v].op = worker[v].op,
         worker'[v].policy = worker[v].policy, worker'[v].status = worker[v].status,
         worker'[v].found = worker[v].found, worker'[v].sure => worker[v].sure,
         Mutates(worker[v]) => /\ worker[v].policy.rule_id \in Owned =>
                                    SameRule(worker[v].policy.rule_id)
                               /\ SamePromise(worker[v].policy.rule_id)
                               /\ worker[v].policy.rule_id \in open =>
                                    worker[v].policy.rule_id \in open'
  PROVE  Applying(v)'
<1> DEFINE r == worker[v]
           q == worker'[v]
<1>0. PICK p : p = r.policy
  OBVIOUS
<1>1. PICK i : i = p.rule_id
  OBVIOUS
<1> SUFFICES ASSUME Mutates(q)
             PROVE  /\ i \in open'
                    /\ q.pc = "insert" => ~hasWildcard(p)
                    /\ q.pc \in {"slot", "write"} => hasWildcard(p)
                    /\ i \in Owned => /\ Written(q) => Applied(p)'
                                      /\ Deleted(q) => Unapplied(i)'
                                      /\ q.sure /\ Before(q) => Good(i)'
                    /\ q.op = "DELETE" => \A e \in q.found : \E x \in Sent :
                         ~hasWildcard(x) /\ e.key = PolicyKey(x) /\ x.rule_id = i
  BY <1>0, <1>1 DEF Applying
<1>2. Mutates(r) /\ SamePromise(i) /\ (i \in Owned => SameRule(i))
  BY <1>0, <1>1 DEF Mutates
<1>3. /\ i \in open /\ i \in open'
      /\ r.pc = "insert" => ~hasWildcard(p)
      /\ r.pc \in {"slot", "write"} => hasWildcard(p)
      /\ i \in Owned => /\ Written(r) => Applied(p)
                        /\ Deleted(r) => Unapplied(i)
                        /\ r.sure /\ Before(r) => Good(i)
      /\ r.op = "DELETE" => \A e \in r.found : \E x \in Sent :
           ~hasWildcard(x) /\ e.key = PolicyKey(x) /\ x.rule_id = i
  BY <1>0, <1>1, <1>2 DEF Applying
<1>4. (Written(q) <=> Written(r)) /\ (Deleted(q) <=> Deleted(r)) /\ (Before(q) <=> Before(r))
  BY DEF Written, Deleted, Before, Told
<1>5. i \in Owned /\ Applied(p) => Applied(p)'
  BY <1>1, <1>2, AppliedSame
<1>6. i \in Owned => (Unapplied(i) => Unapplied(i)') /\ (Good(i) => Good(i)')
  BY <1>2, UnappliedSame, GoodSame
<1> QED
  BY <1>3, <1>4, <1>5, <1>6

-----------------------------------------------------------------------------
(***************************************************************************)
(* A write of a table concerns, of the rules no client disputes, the one   *)
(* it is about: others may lose their entry to it.                         *)
(***************************************************************************)
LEMMA KeyOwner ==
  ASSUME Sourced, NEW q \in Sent, PolicyKey(q) \in DOMAIN policy_map,
         policy_map[PolicyKey(q)].rule_id \in Undisputed
  PROVE  policy_map[PolicyKey(q)].rule_id = q.rule_id
<1>1. PICK p \in Sent : /\ ~hasWildcard(p) /\ PolicyKey(p) = PolicyKey(q)
                        /\ policy_map[PolicyKey(q)] = PolicyValue(p)
  BY DEF Sourced
<1>2. p.rule_id \in Undisputed
  BY <1>1, EntryIds
<1>3. p.rule_id = q.rule_id
  BY <1>1, <1>2, UndisputedAt
<1> QED
  BY <1>1, <1>3, EntryIds

LEMMA RemoveRule ==
  ASSUME Sourced, NEW q \in Sent,
         policy_map' = Without(policy_map, PolicyKey(q)),
         UNCHANGED wildcard_policy_map
  PROVE  Sourced' /\ \A i \in Undisputed : i # q.rule_id => SameRule(i)
<1> DEFINE k == PolicyKey(q)
<1>1. /\ DOMAIN policy_map' = DOMAIN policy_map \ {k}
      /\ \A x \in DOMAIN policy_map : x # k => policy_map'[x] = policy_map[x]
  BY WithoutAt
<1>2. k \in DOMAIN policy_map /\ policy_map[k].rule_id \in Undisputed =>
        policy_map[k].rule_id = q.rule_id
  BY KeyOwner
<1> HIDE DEF k
<1>3. Sourced'
  BY <1>1 DEF Sourced
<1>4. \A i \in Undisputed : i # q.rule_id => SameRule(i)
  BY <1>1, <1>2 DEF SameRule
<1> QED
  BY <1>3, <1>4

LEMMA PutRule ==
  ASSUME Sourced, NEW p \in Sent, ~hasWildcard(p), PutExact(p),
         UNCHANGED wildcard_policy_map
  PROVE  /\ Sourced' /\ Applied(p)'
         /\ \A i \in Undisputed : i # p.rule_id => SameRule(i)
<1> DEFINE k == PolicyKey(p)
           v == PolicyValue(p)
<1>1. /\ DOMAIN policy_map' = DOMAIN policy_map \cup {k}
      /\ policy_map'[k] = v
      /\ \A x \in DOMAIN policy_map : x # k => policy_map'[x] = policy_map[x]
  <2>1. policy_map' = Put(policy_map, k, v)
    BY DEF PutExact
  <2> HIDE DEF k, v
  <2> QED
    BY <2>1 DEF Put
<1>2. k \in DOMAIN policy_map /\ policy_map[k].rule_id \in Undisputed =>
        policy_map[k].rule_id = p.rule_id
  BY KeyOwner
<1>3. v.rule_id = p.rule_id
  BY EntryIds
<1>4. Applied(p)'
  BY <1>1 DEF Applied
<1>5. Sourced'
  <2>1. ASSUME NEW x \in DOMAIN policy_map'
        PROVE  \E q \in Sent : ~hasWildcard(q) /\ x = PolicyKey(q)
                               /\ policy_map'[x] = PolicyValue(q)
    <3>1. CASE x = k
      BY <1>1, <3>1
    <3>2. CASE x # k
      BY <1>1, <2>1, <3>2 DEF Sourced
    <3> QED
      BY <3>1, <3>2
  <2> QED
    BY <2>1 DEF Sourced
<1> HIDE DEF k, v
<1>6. \A i \in Undisputed : i # p.rule_id => SameRule(i)
  BY <1>1, <1>2, <1>3 DEF SameRule
<1> QED
  BY <1>4, <1>5, <1>6

LEMMA SlotRule ==
  ASSUME TypeOK, Sourced, NEW p \in Sent, hasWildcard(p), NEW n,
         OneWildcardWriter => n \in Slots /\ Taken(n, p.rule_id),
         UNCHANGED policy_map,
         wildcard_policy_map' = [wildcard_policy_map EXCEPT ![n] = WildcardEntry(p)]
  PROVE  /\ Sourced' /\ (p.rule_id \in Owned => Applied(p)')
         /\ \A i \in Owned : i # p.rule_id => SameRule(i)
<1> DEFINE e == WildcardEntry(p)
<1>1. \A s \in Slots : wildcard_policy_map'[s] = IF s = n THEN e ELSE wildcard_policy_map[s]
  BY DEF TypeOK
<1>2. OneWildcardWriter => wildcard_policy_map[n].rule_id \in {0, p.rule_id}
  BY DEF Taken
<1>3. e.rule_id = p.rule_id
  BY EntryIds
<1>4. \A i \in Owned : i # 0 /\ i \in Undisputed
  BY OwnedRule
<1>5. p.rule_id \in Owned => OneWildcardWriter
  BY <1>4, UndisputedAt DEF Owned
<1>6. p.rule_id \in Owned => Applied(p)'
  BY <1>1, <1>5 DEF Applied
<1>7. Sourced'
  BY <1>1 DEF Sourced
<1>8. ASSUME NEW i \in Owned, i # p.rule_id
      PROVE  SameRule(i)
  <2>1. CASE OneWildcardWriter
    <3> HIDE DEF e
    <3> QED
      BY <1>1, <1>2, <1>3, <1>4, <1>8, <2>1 DEF SameRule
  <2>2. CASE ~OneWildcardWriter
    <3>1. PICK q \in Sent : q.rule_id = i /\ ~hasWildcard(q)
      BY <2>2 DEF Owned
    <3>2. \A s \in Slots : wildcard_policy_map[s].rule_id # i
      BY <1>4, <3>1, UndisputedAt, EntryIds DEF Sourced, EmptySlot
    <3> HIDE DEF e
    <3>3. \A s \in Slots : wildcard_policy_map'[s].rule_id # i
      BY <1>1, <1>3, <1>8, <3>2
    <3> QED
      BY <3>2, <3>3 DEF SameRule
  <2> QED
    BY <2>1, <2>2
<1> QED
  BY <1>6, <1>7, <1>8

(***************************************************************************)
(* An undisputed rule whose exact entry is removed is in neither table.    *)
(***************************************************************************)
LEMMA RemovedRule ==
  ASSUME Sourced, NEW q \in Sent, ~hasWildcard(q), q.rule_id \in Undisputed,
         policy_map' = Without(policy_map, PolicyKey(q)),
         UNCHANGED wildcard_policy_map
  PROVE  Unapplied(q.rule_id)'
<1> DEFINE k == PolicyKey(q)
<1>1. /\ DOMAIN policy_map' = DOMAIN policy_map \ {k}
      /\ \A x \in DOMAIN policy_map : x # k => policy_map'[x] = policy_map[x]
  BY WithoutAt
<1>2. q.rule_id # 0
  BY SentTypes
<1>3. \A s \in Slots : wildcard_policy_map[s].rule_id # q.rule_id
  BY <1>2, UndisputedAt, EntryIds DEF Sourced, EmptySlot
<1>4. \A x \in DOMAIN policy_map' : policy_map'[x].rule_id # q.rule_id
  <2> SUFFICES ASSUME NEW x \in DOMAIN policy_map', policy_map'[x].rule_id = q.rule_id
               PROVE  FALSE
    OBVIOUS
  <2>1. PICK p \in Sent : ~hasWildcard(p) /\ x = PolicyKey(p)
                          /\ policy_map[x] = PolicyValue(p)
    BY <1>1 DEF Sourced
  <2>2. p.rule_id = q.rule_id
    BY <1>1, <2>1, EntryIds
  <2>3. x = k
    BY <2>1, <2>2, UndisputedAt
  <2> QED
    BY <1>1, <2>3
<1> QED
  BY <1>3, <1>4 DEF Unapplied

(***************************************************************************)
(* A step of a request changes its own rule only.                          *)
(***************************************************************************)
LEMMA EraseSource ==
  ASSUME TypeOK, NEW w \in Workers, Erase(w), OnPath(worker[w]), Applying(w)
  PROVE  /\ worker[w].op \in {"PUT", "DELETE"}
         /\ \/ /\ UNCHANGED <<policy_map, layout, wildcard_policy_map>>
               /\ (Erased(w) /\ worker[w].op = "PUT") \/ Reply(w, "error")
            \/ /\ \E q \in Sent : /\ q.rule_id = id(w)
                                  /\ worker[w].op = "DELETE" => ~hasWildcard(q)
                                  /\ policy_map' = Without(policy_map, PolicyKey(q))
                                  /\ layout' = Dropped(PolicyKey(q))
               /\ UNCHANGED wildcard_policy_map
               /\ Go(w, "forget") \/ Erased(w)
<1>0. worker[w] \in Request /\ worker[w].pc = "erase"
  BY DEF TypeOK, Erase
<1>1. worker[w].op \in {"PUT", "DELETE"} /\ Mutates(worker[w])
  BY <1>0 DEF OnPath, Request, Mutates
<1>2. PICK k \in EraseKey(w) :
        \/ /\ policy_map' = Without(policy_map, k) /\ layout' = Dropped(k)
           /\ Go(w, "forget") \/ Erased(w)
        \/ /\ UNCHANGED <<policy_map, layout>>
           /\ (Erased(w) /\ worker[w].op = "PUT") \/ Reply(w, "error")
  BY DEF Erase
<1>3. \E q \in Sent : /\ q.rule_id = id(w) /\ k = PolicyKey(q)
                      /\ worker[w].op = "DELETE" => ~hasWildcard(q)
  <2>1. CASE worker[w].op = "PUT"
    BY <1>2, <2>1, IdTypes DEF EraseKey, id
  <2>2. CASE worker[w].op = "DELETE"
    <3>1. PICK e \in worker[w].found : k = e.key
      BY <1>2, <2>2 DEF EraseKey
    <3>2. \E q \in Sent : /\ ~hasWildcard(q) /\ e.key = PolicyKey(q)
                          /\ q.rule_id = worker[w].policy.rule_id
      BY <1>1, <2>2, <3>1 DEF Applying
    <3> QED
      BY <3>1, <3>2 DEF id
  <2> QED
    BY <1>1, <2>1, <2>2
<1>4. UNCHANGED wildcard_policy_map
  BY DEF Erase
<1> QED
  BY <1>1, <1>2, <1>3, <1>4

LEMMA WorkRules ==
  ASSUME TypeOK, Sourced, NEW w \in Workers, Work(w),
         OnPath(worker[w]), OneWildcardWriter => Probing(w), Applying(w)
  PROVE  /\ Sourced'
         /\ \A i \in Owned : i # id(w) => SameRule(i)
         /\ ~(Erase(w) \/ Insert(w) \/ WriteSlot(w)) =>
              UNCHANGED <<policy_map, wildcard_policy_map>>
<1> DEFINE r == worker[w]
           Same == UNCHANGED <<policy_map, wildcard_policy_map>>
<1>0. r \in Request /\ r.policy \in Sent /\ id(w) = r.policy.rule_id
  BY IdTypes DEF id
<1>1. Same => Sourced' /\ \A i : SameRule(i)
  BY UnchangedRule DEF Sourced
<1>2. CASE ~(Erase(w) \/ Insert(w) \/ WriteSlot(w))
  <2>1. Same
    BY <1>2 DEF Work, Forget, ProbeSlot, Save, NextKey, Fetch, Answer, tables
  <2> QED
    BY <1>1, <2>1
<1>3. CASE Erase(w)
  <2>1. Same \/ \E q \in Sent : /\ q.rule_id = id(w)
                                /\ policy_map' = Without(policy_map, PolicyKey(q))
                                /\ UNCHANGED wildcard_policy_map
    BY <1>3, EraseSource
  <2>2. CASE ~Same
    <3>1. PICK q \in Sent : /\ q.rule_id = id(w)
                            /\ policy_map' = Without(policy_map, PolicyKey(q))
                            /\ UNCHANGED wildcard_policy_map
      BY <2>1, <2>2
    <3>2. Sourced' /\ \A i \in Undisputed : i # q.rule_id => SameRule(i)
      BY <3>1, RemoveRule
    <3> QED
      BY <1>3, <3>1, <3>2, OwnedRule
  <2> QED
    BY <1>1, <1>3, <2>2
<1>4. CASE Insert(w)
  <2>1. ~hasWildcard(r.policy)
    BY <1>0, <1>4 DEF Insert, OnPath, Mutates, Applying
  <2>2. UNCHANGED wildcard_policy_map /\ (PutExact(r.policy) \/ UNCHANGED policy_map)
    BY <1>4 DEF Insert
  <2> QED
    BY <1>0, <1>1, <1>4, <2>1, <2>2, PutRule, OwnedRule
<1>5. CASE WriteSlot(w)
  <2>1. /\ OneWildcardWriter => r.slot \in Slots /\ Taken(r.slot, r.policy.rule_id)
        /\ hasWildcard(r.policy)
    BY <1>0, <1>5 DEF WriteSlot, Probing, OnPath, Mutates, Applying
  <2>2. /\ wildcard_policy_map' = [wildcard_policy_map EXCEPT
             ![r.slot] = WildcardEntry(r.policy)]
        /\ UNCHANGED policy_map
    BY <1>5 DEF WriteSlot
  <2> QED
    BY <1>0, <1>5, <2>1, <2>2, SlotRule
<1> QED
  BY <1>2, <1>3, <1>4, <1>5

(***************************************************************************)
(* What has been listed are the entries of the rule.                       *)
(***************************************************************************)
LEMMA NextFound ==
  ASSUME TypeOK, NEW w \in Workers, NextKey(w)
  PROVE  worker'[w].found = worker[w].found
<1> DEFINE next == NextKeys(worker[w].cursor)
           count == worker[w].count + 1
           r == [worker[w] EXCEPT !.pc = "fetch", !.cursor = next, !.count = count]
<1>0. worker \in [Workers -> Request] /\ worker[w] \in Request
  BY DEF TypeOK
<1>1. CASE Reply(w, "error")
  BY <1>0, <1>1, ReplyReplies DEF Replies
<1>2. CASE Listed(w)
  BY <1>0, <1>2, GoGoes, ReplyReplies DEF Listed, Goes, Replies, PC
<1>3. CASE worker' = [worker EXCEPT ![w].pc = "fetch", ![w].cursor = next,
                                    ![w].count = @ + 1]
  <2>1. worker' = [worker EXCEPT ![w] = r]
    BY <1>3
  <2> HIDE DEF next, count
  <2>2. worker'[w] = r
    BY <1>0, <2>1
  <2>3. r.found = worker[w].found
    BY <1>0 DEF Request
  <2> QED
    BY <2>2, <2>3
<1> QED
  BY <1>1, <1>2, <1>3 DEF NextKey

OfRule(found, i) ==
  \A e \in found : \E q \in Sent :
    ~hasWildcard(q) /\ e.key = PolicyKey(q) /\ q.rule_id = i

LEMMA FetchFound ==
  ASSUME TypeOK, Sourced, NEW w \in Workers, Fetch(w), OfRule(worker[w].found, id(w))
  PROVE  OfRule(worker'[w].found, id(w))
<1> DEFINE entries == {[key |-> k, value |-> policy_map[k]] :
                         k \in worker[w].cursor \cap DOMAIN policy_map}
           hits == {e \in entries : e.value.rule_id = id(w)}
           found == IF worker[w].found = {} THEN hits ELSE worker[w].found
           r == [worker[w] EXCEPT !.pc = "next", !.found = found]
<1>0. worker \in [Workers -> Request] /\ worker[w] \in Request
  BY DEF TypeOK
<1>1. OfRule(hits, id(w))
  <2> SUFFICES ASSUME NEW k \in DOMAIN policy_map, policy_map[k].rule_id = id(w)
               PROVE  \E q \in Sent : /\ ~hasWildcard(q) /\ k = PolicyKey(q)
                                      /\ q.rule_id = id(w)
    BY DEF OfRule
  <2>1. PICK q \in Sent : ~hasWildcard(q) /\ k = PolicyKey(q)
                          /\ policy_map[k] = PolicyValue(q)
    BY DEF Sourced
  <2> QED
    BY <2>1, EntryIds
<1>2. OfRule(found, id(w))
  BY <1>1
<1>3. worker' = [worker EXCEPT ![w] = r]
  BY DEF Fetch
<1> HIDE DEF found
<1>4. worker'[w] = r /\ r.found = found
  BY <1>0, <1>3 DEF Request
<1> QED
  BY <1>2, <1>4

(***************************************************************************)
(* A step of w keeps track of what it has done to its rule.                *)
(***************************************************************************)
LEMMA WorkApplying ==
  ASSUME TypeOK, Sourced, OwnIds, NEW w \in Workers, Work(w),
         OnPath(worker[w]), OneWildcardWriter => Probing(w), Applying(w)
  PROVE  Applying(w)'
<1> DEFINE r == worker[w]
           q == worker'[w]
<1>1. PICK p : p = r.policy
  OBVIOUS
<1>2. PICK i : i = p.rule_id
  OBVIOUS
<1>0. /\ worker \in [Workers -> Request] /\ r \in Request
      /\ p \in Sent /\ id(w) = i
  BY <1>1, <1>2, IdTypes DEF TypeOK, id
<1>3. CASE Answer(w)
  BY <1>3, AnswerType DEF Applying, Mutates, Idle
<1>4. CASE ~Answer(w)
  <2>0. /\ r.pc # "idle" /\ q.op = r.op /\ q.policy = r.policy /\ q.sure = r.sure
    <3>1. Keeps(w)
      BY <1>4, EraseType, ForgetType, InsertType, ProbeWorkers, WriteType, SaveType,
         NextWorkers, FetchWorkers DEF Work, Replies
    <3> QED
      BY <3>1, WorkerSteps DEF Keeps
  <2> SUFFICES ASSUME Mutates(q)
               PROVE  /\ i \in open'
                      /\ q.pc = "insert" => ~hasWildcard(p)
                      /\ q.pc \in {"slot", "write"} => hasWildcard(p)
                      /\ i \in Owned => /\ Written(q) => Applied(p)'
                                        /\ Deleted(q) => Unapplied(i)'
                                        /\ q.sure /\ Before(q) => Good(i)'
                      /\ q.op = "DELETE" => OfRule(q.found, i)
    BY <1>1, <1>2, <2>0 DEF Applying, OfRule
  <2>1. Mutates(r) /\ r.op \in {"POST", "PUT", "DELETE"}
    BY <1>0, <2>0 DEF Mutates, Request
  <2>2. /\ i \in open
        /\ r.pc = "insert" => ~hasWildcard(p)
        /\ r.pc \in {"slot", "write"} => hasWildcard(p)
        /\ i \in Owned => /\ Written(r) => Applied(p)
                          /\ Deleted(r) => Unapplied(i)
                          /\ r.sure /\ Before(r) => Good(i)
        /\ r.op = "DELETE" => OfRule(r.found, i)
    BY <1>1, <1>2, <2>1 DEF Applying, OfRule
  <2>3. i \in open' /\ promised' = promised
    BY <1>4, <2>2 DEF Work, Erase, Forget, Insert, ProbeSlot, WriteSlot, Save,
       NextKey, Fetch, book
  <2> DEFINE Same == UNCHANGED <<policy_map, wildcard_policy_map>>
  <2>4. Same => /\ Applied(p) => Applied(p)'
                /\ Unapplied(i) => Unapplied(i)'
                /\ Good(i) => Good(i)'
    <3>1. Same => SameRule(i)
      BY UnchangedRule
    <3>2. SamePromise(i)
      BY <2>3 DEF SamePromise
    <3> QED
      BY <1>2, <3>1, <3>2, AppliedSame, UnappliedSame, GoodSame
  <2>5. CASE Erase(w)
    <3>1. CASE r.op = "PUT"
      <4>1. Go(w, "forget") \/ Erased(w) \/ Reply(w, "error")
        BY <2>5 DEF Erase
      <4>2. q.pc = "forget" \/ q.pc = Adding(p) \/ Told(q, "error")
        BY <1>0, <1>1, <3>1, <4>1, GoGoes, ErasedKeeps, ReplyReplies
           DEF Goes, Replies, Told, PC
      <4> QED
        BY <2>0, <2>3, <3>1, <4>2 DEF Adding, Written, Deleted, Before, Told
    <3>2. CASE r.op = "DELETE"
      <4>1. CASE Reply(w, "error")
        <5>1. Told(q, "error") /\ q.found = r.found
          BY <1>0, <4>1, ReplyReplies DEF Replies, Told
        <5> QED
          BY <2>0, <2>2, <2>3, <3>2, <5>1 DEF Written, Deleted, Before, Told
      <4>2. CASE /\ \E x \in Sent : /\ x.rule_id = id(w) /\ ~hasWildcard(x)
                                    /\ policy_map' = Without(policy_map, PolicyKey(x))
                 /\ UNCHANGED wildcard_policy_map
                 /\ Go(w, "forget") \/ Erased(w)
        <5>1. PICK x \in Sent : /\ x.rule_id = id(w) /\ ~hasWildcard(x)
                                /\ policy_map' = Without(policy_map, PolicyKey(x))
          BY <4>2
        <5>2. x.rule_id \in Owned => Unapplied(x.rule_id)'
          BY <4>2, <5>1, RemovedRule, OwnedRule
        <5>3. x.rule_id = i
          BY <1>0, <5>1
        <5>4. i \in Owned => Unapplied(i)'
          BY <5>2, <5>3 DEF Unapplied
        <5>5. (q.pc = "forget" \/ Told(q, "ok")) /\ q.found = r.found
          BY <1>0, <3>2, <4>2, GoGoes, ErasedKeeps DEF Goes, Replies, Told, PC
        <5> QED
          BY <2>0, <2>2, <2>3, <3>2, <5>4, <5>5 DEF Written, Deleted, Before, Told
      <4> QED
        BY <2>5, <3>2, <4>1, <4>2, EraseSource
    <3> QED
      BY <2>5, <3>1, <3>2, EraseSource
  <2>6. CASE Forget(w)
    <3>1. r.pc = "forget" /\ r.op \in {"PUT", "DELETE"} /\ Erased(w) /\ Same
      BY <1>0, <2>1, <2>6 DEF Forget, OnPath, tables
    <3>2. CASE r.op = "PUT"
      <4>1. q.pc = Adding(p)
        BY <1>0, <1>1, <3>1, <3>2, ErasedKeeps
      <4> QED
        BY <2>0, <2>3, <3>2, <4>1 DEF Adding, Written, Deleted, Before, Told
    <3>3. CASE r.op = "DELETE"
      <4>1. Told(q, "ok") /\ q.found = r.found
        BY <1>0, <3>1, <3>3, ErasedKeeps DEF Replies, Told
      <4>2. i \in Owned => Unapplied(i)'
        BY <2>2, <2>4, <3>1, <3>3 DEF Deleted
      <4> QED
        BY <2>0, <2>2, <2>3, <3>3, <4>1, <4>2 DEF Written, Before, Told
    <3> QED
      BY <3>1, <3>2, <3>3
  <2>7. CASE Insert(w) \/ WriteSlot(w)
    <3>1. r.op \in {"POST", "PUT"} /\ r.pc \in {"insert", "write"}
      BY <1>0, <2>1, <2>7 DEF Insert, WriteSlot, OnPath
    <3>2. CASE Reply(w, "error") /\ Same
      <4>1. Told(q, "error")
        BY <1>0, <3>2, ReplyReplies DEF Replies, Told
      <4>2. i \in Owned /\ r.sure /\ Before(r) => Good(i)'
        BY <2>2, <2>4, <3>2
      <4>3. r.op = "POST" => Before(r)
        BY <3>1 DEF Before, Told
      <4> QED
        BY <2>0, <2>3, <3>1, <4>1, <4>2, <4>3 DEF Written, Deleted, Before, Told
    <3>3. CASE Added(w) /\ (i \in Owned => Applied(p)')
      <4>1. q.pc = "save" \/ Told(q, "ok")
        BY <1>0, <3>3, AddedKeeps DEF Replies, Told
      <4> QED
        BY <2>0, <2>3, <3>1, <3>3, <4>1 DEF Deleted, Before, Told
    <3>4. CASE Insert(w)
      <4>1. ~hasWildcard(p) /\ UNCHANGED wildcard_policy_map
        BY <2>2, <3>4 DEF Insert
      <4>2. PutExact(p) => Applied(p)'
        BY <1>0, <4>1, PutRule
      <4> QED
        BY <1>1, <3>2, <3>3, <3>4, <4>1, <4>2 DEF Insert
    <3>5. CASE WriteSlot(w)
      <4>1. /\ OneWildcardWriter => r.slot \in Slots /\ Taken(r.slot, i)
            /\ hasWildcard(p)
        BY <1>1, <1>2, <2>2, <3>5 DEF WriteSlot, Probing
      <4>2. /\ wildcard_policy_map' = [wildcard_policy_map EXCEPT
                 ![r.slot] = WildcardEntry(p)]
            /\ UNCHANGED policy_map /\ Added(w)
        BY <1>1, <3>5 DEF WriteSlot
      <4>3. i \in Owned => Applied(p)'
        BY <1>0, <1>2, <4>1, <4>2, SlotRule
      <4> QED
        BY <3>3, <4>2, <4>3
    <3> QED
      BY <2>7, <3>4, <3>5
  <2>8. CASE ProbeSlot(w)
    <3>1. r.op \in {"POST", "PUT"} /\ r.pc = "slot" /\ Same
      BY <1>0, <2>1, <2>8 DEF ProbeSlot, OnPath, tables
    <3>2. q.pc \in {"slot", "write"} \/ Told(q, "error")
      BY <2>8, ProbeWorkers DEF Replies, Told
    <3>3. r.op = "POST" => Before(r)
      BY <3>1 DEF Before, Told
    <3>4. i \in Owned /\ r.sure /\ r.op = "POST" => Good(i)'
      BY <2>2, <2>4, <3>1, <3>3
    <3> QED
      BY <2>0, <2>2, <2>3, <3>1, <3>2, <3>4 DEF Written, Deleted, Before, Told
  <2>9. CASE Save(w)
    <3>1. r.op \in {"POST", "PUT"} /\ r.pc = "save" /\ Same /\ Told(q, "ok")
      BY <1>0, <2>1, <2>9, SaveType DEF Save, OnPath, Replies, Told, tables
    <3>2. i \in Owned => Applied(p)'
      BY <2>2, <2>4, <3>1 DEF Written
    <3> QED
      BY <2>0, <2>3, <3>1, <3>2 DEF Deleted, Before, Told
  <2>10. CASE NextKey(w) \/ Fetch(w)
    <3>1. r.op = "DELETE" /\ r.pc \in {"next", "fetch"} /\ Same
      BY <1>0, <2>1, <2>10 DEF NextKey, Fetch, OnPath, tables
    <3>2. /\ q.pc \in {"next", "fetch", "erase"} \/ Told(q, "not_found")
               \/ Told(q, "error")
      BY <2>10, <3>1, NextWorkers, FetchWorkers DEF Replies, Told
    <3>3. OfRule(q.found, i)
      BY <1>0, <2>2, <2>10, <3>1, NextFound, FetchFound
    <3>4. i \in Owned /\ r.sure => Good(i)'
      BY <2>2, <2>4, <3>1 DEF Before
    <3> QED
      BY <2>0, <2>3, <3>1, <3>2, <3>3, <3>4 DEF Written, Deleted, Before, Told
  <2> QED
    BY <1>4, <2>5, <2>6, <2>7, <2>8, <2>9, <2>10 DEF Work
<1> QED
  BY <1>3, <1>4

LEMMA AnswerApplying ==
  ASSUME TypeOK, NEW w \in Workers, Answer(w), Applying(w), Mutates(worker[w]),
         NEW i \in Owned, i = id(w), i \in open, i \notin open'
  PROVE  Good(i)'
<1> DEFINE r == worker[w]
<1>1. PICK p : p = r.policy
  OBVIOUS
<1>0. /\ r \in Request /\ r.pc = "answer" /\ r.op \in {"POST", "PUT", "DELETE"}
      /\ p.rule_id = i
  BY <1>1 DEF TypeOK, Answer, Mutates, Request, id
<1>2. /\ Written(r) => Applied(p)
      /\ Deleted(r) => Unapplied(i)
      /\ r.sure /\ Before(r) => Good(i)
  BY <1>0, <1>1 DEF Applying
<1>3. r.status = "ok" \/ (Harmless(r) /\ r.sure)
  BY DEF Answer
<1>4. UNCHANGED <<policy_map, wildcard_policy_map>>
  BY DEF Answer, tables
<1>5. SameRule(i)
  BY <1>4, UnchangedRule
<1>6. CASE r.op \in {"POST", "PUT"} /\ r.status = "ok"
  <2>1. promised' = Put(promised, i, p)
    BY <1>1, <1>6 DEF Answer
  <2>2. i \in DOMAIN promised' /\ promised'[i] = p
    BY <2>1 DEF Put
  <2>3. Applied(p)
    BY <1>0, <1>2, <1>6 DEF Written, Told
  <2>4. Applied(p)'
    BY <1>0, <1>5, <2>3, AppliedSame
  <2> QED
    BY <2>2, <2>4 DEF Good
<1>7. CASE r.op = "DELETE" /\ r.status = "ok"
  <2>1. promised' = Without(promised, i)
    BY <1>7 DEF Answer
  <2>2. i \notin DOMAIN promised'
    BY <2>1 DEF Without
  <2>3. Unapplied(i)
    BY <1>0, <1>2, <1>7 DEF Deleted, Told
  <2>4. Unapplied(i)'
    BY <1>5, <2>3, UnappliedSame
  <2> QED
    BY <2>2, <2>4 DEF Good
<1>8. CASE r.status # "ok"
  <2>1. promised' = promised
    BY <1>8 DEF Answer
  <2>2. Good(i)
    BY <1>0, <1>2, <1>3, <1>8 DEF Harmless, Before, Told
  <2>3. Applied(promised[i]) => Applied(promised[i])'
    <3>1. PICK x : x = promised[i]
      OBVIOUS
    <3>2. Applied(x) => Applied(x)'
      BY <1>4 DEF Applied
    <3> QED
      BY <2>1, <3>1, <3>2
  <2>4. Unapplied(i) => Unapplied(i)'
    BY <1>5, UnappliedSame
  <2> QED
    BY <2>1, <2>2, <2>3, <2>4 DEF Good
<1> QED
  BY <1>0, <1>6, <1>7, <1>8

-----------------------------------------------------------------------------
(***************************************************************************)
(* Policies are promised and saved under their own rule ids.               *)
(***************************************************************************)
LEMMA StepOwnIds ==
  ASSUME TypeOK, OwnIds, [Next]_vars
  PROVE  OwnIds'
<1>1. ASSUME NEW map, \A i \in DOMAIN map : map[i].rule_id = i, NEW new, NEW p, NEW k,
             new = map \/ new = Put(map, p.rule_id, p) \/ new = Without(map, k)
      PROVE  \A i \in DOMAIN new : new[i].rule_id = i
  <2>1. CASE new = map
    BY <1>1, <2>1
  <2>2. CASE new = Put(map, p.rule_id, p)
    BY <1>1, <2>2 DEF Put
  <2>3. CASE new = Without(map, k)
    BY <1>1, <2>3 DEF Without
  <2> QED
    BY <1>1, <2>1, <2>2, <2>3
<1>2. \E p, k : rows' = rows \/ rows' = Put(rows, p.rule_id, p) \/ rows' = Without(rows, k)
  <2>1. CASE \E w \in Workers : Forget(w) \/ Save(w)
    BY <2>1 DEF Forget, Save, id
  <2>2. CASE ~\E w \in Workers : Forget(w) \/ Save(w)
    <3>1. rows' = rows
      BY <2>2 DEF Next, Arrival, Begin, Work, Erase, Insert, ProbeSlot, WriteSlot, NextKey,
         Fetch, Answer, Lifecycle, Crash, StartFresh, StartPersisted, Restore, Serve, store,
         vars
    <3> QED
      BY <3>1
  <2> QED
    BY <2>1, <2>2
<1>3. \E p, k : \/ promised' = promised \/ promised' = Put(promised, p.rule_id, p)
                \/ promised' = Without(promised, k)
  <2>1. CASE \E w \in Workers : Answer(w)
    <3>1. PICK w \in Workers : Answer(w)
      BY <2>1
    <3>2. \/ promised' = promised \/ promised' = Put(promised, id(w), worker[w].policy)
          \/ promised' = Without(promised, id(w))
      BY <3>1 DEF Answer
    <3> QED
      BY <3>2 DEF id
  <2>2. CASE StartFresh
    BY <2>2 DEF StartFresh
  <2>3. CASE ~StartFresh /\ ~\E w \in Workers : Answer(w)
    <3>1. promised' = promised
      BY <2>3 DEF Next, Arrival, Begin, Work, Erase, Forget, Insert, ProbeSlot, WriteSlot,
         Save, NextKey, Fetch, Lifecycle, Crash, StartPersisted, Restore, Serve, book, vars
    <3> QED
      BY <3>1
  <2> QED
    BY <2>1, <2>2, <2>3
<1>4. \A i \in DOMAIN rows' : rows'[i].rule_id = i
  BY <1>1, <1>2 DEF OwnIds
<1>5. \A i \in DOMAIN promised' : promised'[i].rule_id = i
  BY <1>1, <1>3 DEF OwnIds
<1> QED
  BY <1>4, <1>5 DEF OwnIds

(***************************************************************************)
(* The agent starts from empty tables.                                     *)
(***************************************************************************)
LEMMA EmptyTables ==
  ASSUME policy_map = NoEntries, \A s \in Slots : wildcard_policy_map[s] = EmptySlot,
         NEW i \in RuleIds
  PROVE  Unapplied(i)
<1>1. i # 0 /\ EmptySlot.rule_id = 0
  BY SentTypes DEF RuleIds, EmptySlot
<1>2. DOMAIN policy_map = {}
  BY DEF NoEntries
<1> QED
  BY <1>1, <1>2 DEF Unapplied

LEMMA StartFreshApplied ==
  ASSUME AppliedInv, StartFresh
  PROVE  Sourced' /\ Resting' /\ OwnedIsApplied'
<1>0. /\ TypeOK /\ Sourced /\ Resting
      /\ \A s \in Slots : wildcard_policy_map[s] = EmptySlot
  BY DEF AppliedInv, SavingInv, Running, Resting, StartFresh
<1> DEFINE d == DefaultPolicy
<1>1. PICK n : n = d.rule_id
  OBVIOUS
<1>2. /\ d \in Sent /\ hasWildcard(d) /\ 0 \in Slots /\ policy_map = NoEntries
      /\ agent = "down" /\ agent' = "serving" /\ ~persistent /\ policy_map' = policy_map
      /\ wildcard_policy_map' = [wildcard_policy_map EXCEPT ![0] = WildcardEntry(d)]
      /\ promised' = Put(promised, n, d) /\ open' = open \ {n}
  BY <1>0, <1>1, CapacityAssumption, PolicyAssumption
     DEF StartFresh, Sent, Resting, Slots
<1>3. Taken(0, d.rule_id)
  BY <1>0, <1>2 DEF Taken, EmptySlot
<1>4. /\ Sourced' /\ (n \in Owned => Applied(d)')
      /\ \A i \in Owned : i # n => SameRule(i)
  BY <1>0, <1>1, <1>2, <1>3, SlotRule
<1>5. Resting'
  BY <1>2 DEF Resting
<1>6. ASSUME NEW i \in Owned, i \notin open'
      PROVE  Good(i)'
  <2>1. CASE i = n
    <3>1. i \in DOMAIN promised' /\ promised'[i] = d
      BY <1>2, <2>1 DEF Put
    <3> QED
      BY <1>4, <1>6, <2>1, <3>1 DEF Good
  <2>2. CASE i # n
    <3>1. i \in RuleIds /\ i \notin DOMAIN promised
      BY <1>0, <1>2, <1>6, <2>2, OwnedRule DEF Resting
    <3>2. i \notin DOMAIN promised'
      BY <1>2, <2>2, <3>1 DEF Put
    <3>3. Unapplied(i)
      BY <1>0, <1>2, <3>1, EmptyTables
    <3>4. Unapplied(i)'
      BY <1>4, <2>2, <3>3, UnappliedSame
    <3> QED
      BY <3>2, <3>4 DEF Good
  <2> QED
    BY <2>1, <2>2
<1> QED
  BY <1>4, <1>5, <1>6 DEF OwnedIsApplied, Good

LEMMA StartPersistedApplied ==
  ASSUME AppliedInv, StartPersisted
  PROVE  Sourced' /\ Resting' /\ OwnedIsApplied'
<1>0. /\ TypeOK /\ Sourced /\ Resting /\ OwnIds /\ PromisedIsSaved
      /\ \A s \in Slots : wildcard_policy_map[s] = EmptySlot
  BY DEF AppliedInv, SavingInv, Running, Resting, StartPersisted
<1>1. /\ agent = "down" /\ agent' = "restoring" /\ persistent /\ persistent' = persistent
      /\ left' = {rows[n] : n \in DOMAIN rows}
      /\ UNCHANGED <<policy_map, wildcard_policy_map, rows, unsaved, promised, open>>
      /\ policy_map = NoEntries /\ unsaved \subseteq open
  BY <1>0 DEF StartPersisted, tables, store, book, Resting
<1>2. Sourced' /\ OwnedIsApplied'
  BY <1>0, <1>1 DEF Sourced, OwnedIsApplied
<1>3. \A p \in left' : p.rule_id \in DOMAIN rows' /\ p = rows'[p.rule_id]
  BY <1>0, <1>1 DEF OwnIds
<1>4. ASSUME NEW i \in Owned, i \notin open'
      PROVE  Good(i)' \/ (i \in DOMAIN promised' /\ promised'[i] \in left')
  <2>0. i \in RuleIds
    BY <1>4, OwnedRule
  <2>1. CASE i \in DOMAIN promised
    BY <1>0, <1>1, <1>4, <2>0, <2>1 DEF PromisedIsSaved
  <2>2. CASE i \notin DOMAIN promised
    <3>1. Unapplied(i)
      BY <1>0, <1>1, <2>0, EmptyTables
    <3>2. Unapplied(i)'
      BY <1>1, <3>1 DEF Unapplied
    <3> QED
      BY <1>1, <2>2, <3>2 DEF Good
  <2> QED
    BY <2>1, <2>2
<1> QED
  BY <1>1, <1>2, <1>3, <1>4 DEF Resting

LEMMA RestoreApplied ==
  ASSUME AppliedInv, Restore
  PROVE  Sourced' /\ Resting' /\ OwnedIsApplied'
<1>0. TypeOK /\ Sourced /\ Resting /\ OwnIds /\ PromisedIsSaved
  BY DEF AppliedInv, SavingInv, Running
<1>1. /\ agent = "restoring" /\ agent' = agent /\ persistent /\ persistent' = persistent
      /\ UNCHANGED <<rows, unsaved, promised>> /\ open \subseteq open'
      /\ unsaved \subseteq open
  BY <1>0 DEF Restore, store, Resting
<1> DEFINE Same == UNCHANGED <<policy_map, wildcard_policy_map>>
<1>2. PICK p \in left :
        /\ left' = left \ {p}
        /\ \/ /\ ~hasWildcard(p) /\ PutExact(p)
              /\ UNCHANGED wildcard_policy_map
           \/ /\ hasWildcard(p) /\ UNCHANGED policy_map
              /\ \E n \in Slots :
                   /\ IsTargetSlot(wildcard_policy_map, p.rule_id, n)
                   /\ wildcard_policy_map' =
                        [wildcard_policy_map EXCEPT ![n] = WildcardEntry(p)]
           \/ Same /\ p.rule_id \in open'
  BY DEF Restore, tables
<1>3. p \in Sent /\ p.rule_id \in DOMAIN rows /\ p = rows[p.rule_id]
  BY <1>0, <1>1 DEF TypeOK, Resting
<1>4. /\ Sourced' /\ (p.rule_id \in Owned \ open' => Applied(p)')
      /\ \A i \in Owned : i # p.rule_id => SameRule(i)
  <2>1. CASE ~hasWildcard(p) /\ PutExact(p) /\ UNCHANGED wildcard_policy_map
    BY <1>0, <1>3, <2>1, PutRule, OwnedRule
  <2>2. CASE /\ hasWildcard(p) /\ UNCHANGED policy_map
             /\ \E n \in Slots :
                  /\ IsTargetSlot(wildcard_policy_map, p.rule_id, n)
                  /\ wildcard_policy_map' =
                       [wildcard_policy_map EXCEPT ![n] = WildcardEntry(p)]
    <3>1. PICK n \in Slots : /\ IsTargetSlot(wildcard_policy_map, p.rule_id, n)
                             /\ wildcard_policy_map' =
                                  [wildcard_policy_map EXCEPT ![n] = WildcardEntry(p)]
      BY <2>2
    <3>2. Taken(n, p.rule_id)
      BY <3>1 DEF IsTargetSlot, Taken
    <3> QED
      BY <1>0, <1>3, <2>2, <3>1, <3>2, SlotRule
  <2>3. CASE Same /\ p.rule_id \in open'
    BY <1>0, <2>3, UnchangedRule DEF Sourced
  <2> QED
    BY <1>2, <2>1, <2>2, <2>3
<1>5. \A x \in left' : x.rule_id \in DOMAIN rows' /\ x = rows'[x.rule_id]
  BY <1>0, <1>1, <1>2 DEF Resting
<1>6. ASSUME NEW i \in Owned, i \notin open'
      PROVE  Good(i)' \/ (i \in DOMAIN promised' /\ promised'[i] \in left')
  <2>1. Good(i) \/ (i \in DOMAIN promised /\ promised[i] \in left)
    BY <1>0, <1>1, <1>6 DEF Resting
  <2>2. CASE i # p.rule_id
    <3>1. CASE Good(i)
      <4>1. SameRule(i) /\ SamePromise(i)
        BY <1>1, <1>4, <2>2 DEF SamePromise
      <4> QED
        BY <1>0, <3>1, <4>1, GoodSame
    <3>2. CASE i \in DOMAIN promised /\ promised[i] \in left
      BY <1>0, <1>1, <1>2, <2>2, <3>2 DEF OwnIds
    <3> QED
      BY <2>1, <3>1, <3>2
  <2>3. CASE i = p.rule_id
    <3>1. i \in DOMAIN promised /\ promised[i] = p
      BY <1>0, <1>1, <1>3, <1>6, <2>3, OwnedRule DEF PromisedIsSaved
    <3>2. Applied(p)'
      BY <1>4, <1>6, <2>3
    <3> QED
      BY <1>1, <3>1, <3>2 DEF Good
  <2> QED
    BY <2>2, <2>3
<1>7. Resting' /\ OwnedIsApplied'
  BY <1>1, <1>5, <1>6 DEF Resting, OwnedIsApplied
<1> QED
  BY <1>4, <1>7

LEMMA ArrivalApplied ==
  ASSUME AppliedInv, Arrival
  PROVE  /\ Sourced' /\ Resting' /\ OwnedIsApplied'
         /\ \A v \in Workers : Applying(v)'
<1>0. /\ TypeOK /\ OwnIds /\ Sourced /\ OwnedIsApplied
      /\ \A v \in Workers : Applying(v)
  BY DEF AppliedInv, SavingInv, Running
<1>1. PICK w \in Workers, op \in {"POST", "PUT", "GET", "DELETE"}, p \in Sent :
        Begin(w, op, p)
  BY DEF Arrival
<1>2. /\ UNCHANGED <<agent, policy_map, wildcard_policy_map, promised>>
      /\ open \subseteq open' /\ agent = "serving"
      /\ op # "GET" => p.rule_id \in open'
  BY <1>1 DEF Begin, tables
<1>3. Sourced' /\ Resting' /\ OwnedIsApplied'
  <2>1. Sourced' /\ Resting'
    BY <1>0, <1>2 DEF Sourced, Resting
  <2>2. ASSUME NEW i \in Owned, i \notin open'
        PROVE  Good(i)'
    BY <1>0, <1>2, <2>2 DEF OwnedIsApplied, Good, Applied, Unapplied
  <2> QED
    BY <2>1, <2>2 DEF OwnedIsApplied, Good
<1>4. \A i : SameRule(i) /\ SamePromise(i)
  BY <1>2, UnchangedRule DEF SamePromise
<1>5. ASSUME NEW v \in Workers, v # w
      PROVE  Applying(v)'
  <2>1. /\ worker'[v].pc = worker[v].pc /\ worker'[v].op = worker[v].op
        /\ worker'[v].policy = worker[v].policy /\ worker'[v].status = worker[v].status
        /\ worker'[v].found = worker[v].found
        /\ worker'[v].sure => worker[v].sure
    BY <1>0, <1>1, <1>5, BeginWorkers
  <2> QED
    BY <1>0, <1>2, <1>4, <2>1, ApplyingElsewhere
<1>6. /\ worker'[w].pc = FirstStep(op, p) /\ worker'[w].op = op
      /\ worker'[w].policy = p /\ worker'[w].sure = (p.rule_id \notin open)
      /\ worker'[w].found = {}
  BY <1>0, <1>1, BeginWorkers
<1>7. Applying(w)'
  <2>1. PICK i : i = p.rule_id
    OBVIOUS
  <2>2. i \in Owned \ open => Good(i)'
    <3> SUFFICES ASSUME i \in Owned \ open PROVE Good(i)'
      OBVIOUS
    <3>1. Good(i)
      BY <1>0, <1>2 DEF OwnedIsApplied, Good
    <3> QED
      BY <1>0, <1>4, <3>1, GoodSame
  <2>3. ~Written(worker'[w]) /\ ~Deleted(worker'[w])
    BY <1>6 DEF Written, Deleted, Told, FirstStep, Adding
  <2>4. /\ worker'[w].pc = "insert" => ~hasWildcard(p)
        /\ worker'[w].pc \in {"slot", "write"} => hasWildcard(p)
    BY <1>6 DEF FirstStep, Adding
  <2> QED
    BY <1>2, <1>6, <2>1, <2>2, <2>3, <2>4 DEF Applying, Mutates
<1> QED
  BY <1>3, <1>5, <1>7

LEMMA WorkApplied ==
  ASSUME AppliedInv, \E w \in Workers : Work(w)
  PROVE  /\ Sourced' /\ Resting' /\ OwnedIsApplied'
         /\ \A v \in Workers : Applying(v)'
<1>0. /\ TypeOK /\ Coexist /\ Quiet /\ OwnIds /\ Sourced /\ OwnedIsApplied
      /\ \A v \in Workers : OnPath(worker[v]) /\ Applying(v)
      /\ OneWildcardWriter => \A v \in Workers : Probing(v)
  BY DEF AppliedInv, SavingInv, PackedInv, Running
<1>1. PICK w \in Workers : Work(w)
  OBVIOUS
<1>2. /\ \A v \in Workers : v # w => worker'[v] = worker[v]
      /\ agent' = agent /\ persistent' = persistent /\ worker[w].pc # "idle"
  BY <1>0, <1>1, WorkerSteps
<1>3. agent = "serving"
  BY <1>0, <1>2 DEF Quiet, Idle
<1>4. /\ Sourced'
      /\ \A i \in Owned : i # id(w) => SameRule(i)
      /\ ~(Erase(w) \/ Insert(w) \/ WriteSlot(w)) =>
           UNCHANGED <<policy_map, wildcard_policy_map>>
  BY <1>0, <1>1, WorkRules
<1>5. /\ \A i : i # id(w) => SamePromise(i) /\ (i \in open <=> i \in open')
      /\ ~Answer(w) => (\A i : SamePromise(i)) /\ open' = open
  <2>1. ~Answer(w) => UNCHANGED <<promised, open>>
    BY <1>1 DEF Work, Erase, Forget, Insert, ProbeSlot, WriteSlot, Save, NextKey,
       Fetch, book
  <2> QED
    BY <1>0, <1>1, <2>1, WorkSame DEF SameAt, SamePromise
<1>6. worker[w].op = "GET" =>
        /\ \A i : SameRule(i) /\ SamePromise(i)
        /\ open' = open
  <2> SUFFICES ASSUME worker[w].op = "GET"
               PROVE  UNCHANGED <<policy_map, wildcard_policy_map, promised, open>>
    BY UnchangedRule DEF SamePromise
  <2>1. UNCHANGED <<policy_map, wildcard_policy_map>>
    BY <1>0, <1>4 DEF Erase, Insert, WriteSlot, OnPath
  <2>2. CASE Answer(w)
    BY <2>1, <2>2 DEF Answer
  <2>3. CASE ~Answer(w)
    BY <1>1, <2>1, <2>3 DEF Work, Erase, Forget, Insert, ProbeSlot, WriteSlot, Save,
       NextKey, Fetch, book
  <2> QED
    BY <2>2, <2>3
<1>7. ASSUME NEW v \in Workers, v # w
      PROVE  Applying(v)'
  <2>1. worker'[v] = worker[v]
    BY <1>2, <1>7
  <2>2. PICK i : i = worker[v].policy.rule_id
    OBVIOUS
  <2>3. Mutates(worker[v]) => /\ i \in Owned => SameRule(i)
                              /\ SamePromise(i)
                              /\ i \in open => i \in open'
    <3>1. CASE worker[w].op = "GET"
      BY <1>6, <3>1
    <3>2. CASE Mutates(worker[w]) /\ Mutates(worker[v])
      <4>1. i # id(w)
        BY <1>0, <1>7, <2>2, <3>2 DEF Coexist, Compatible, id
      <4> QED
        BY <1>4, <1>5, <4>1
    <3> QED
      BY <1>2, <3>1, <3>2 DEF Mutates
  <2> QED
    BY <1>0, <2>1, <2>2, <2>3, ApplyingElsewhere
<1>8. Applying(w)'
  BY <1>0, <1>1, WorkApplying
<1>9. OwnedIsApplied'
  <2> SUFFICES ASSUME NEW i \in Owned, i \notin open'
               PROVE  Good(i)'
    BY DEF OwnedIsApplied, Good
  <2>1. i \notin open => Good(i)
    BY <1>0, <1>3 DEF OwnedIsApplied, Good
  <2>2. CASE worker[w].op = "GET"
    BY <1>0, <1>6, <2>1, <2>2, GoodSame
  <2>3. CASE i # id(w)
    BY <1>0, <1>4, <1>5, <2>1, <2>3, GoodSame
  <2>4. CASE i = id(w) /\ worker[w].op # "GET"
    <3>1. Mutates(worker[w])
      BY <1>2, <2>4 DEF Mutates
    <3>2. i \in open
      BY <1>0, <2>4, <3>1 DEF Applying, id
    <3>3. Answer(w)
      BY <1>5, <3>2
    <3> QED
      BY <1>0, <2>4, <3>1, <3>2, <3>3, AnswerApplying
  <2> QED
    BY <2>2, <2>3, <2>4
<1>10. Resting'
  BY <1>2, <1>3 DEF Resting
<1> QED
  BY <1>4, <1>7, <1>8, <1>9, <1>10

LEMMA StepApplied == AppliedInv /\ [Next]_vars => AppliedInv'
<1> SUFFICES ASSUME AppliedInv, [Next]_vars
             PROVE  AppliedInv'
  OBVIOUS
<1>1. SavingInv' /\ (OneWildcardWriter => PackedInv')
  BY StepSaving, StepPacked DEF AppliedInv
<1>2. OwnIds'
  BY StepOwnIds DEF AppliedInv, SavingInv, Running
<1> SUFFICES /\ Sourced' /\ Resting' /\ OwnedIsApplied'
             /\ \A v \in Workers : Applying(v)'
  BY <1>1, <1>2 DEF AppliedInv
<1>3. CASE Arrival
  BY <1>3, ArrivalApplied
<1>4. CASE \E w \in Workers : Work(w)
  BY <1>4, WorkApplied
<1>5. CASE Crash
  <2>1. /\ policy_map' = NoEntries /\ agent' = "down"
        /\ \A s \in Slots : wildcard_policy_map'[s] = EmptySlot
        /\ \A v \in Workers : worker'[v] = Idle
        /\ unsaved' = unsaved
        /\ persistent' = persistent
        /\ open' = open \cup (IF persistent THEN unsaved ELSE RuleIds)
    BY <1>5 DEF Crash, store
  <2>2. Sourced'
    BY <2>1 DEF Sourced, NoEntries
  <2>3. Resting' /\ OwnedIsApplied'
    BY <2>1 DEF Resting, OwnedIsApplied
  <2>4. \A v \in Workers : Applying(v)'
    BY <2>1 DEF Applying, Mutates, Idle
  <2> QED
    BY <2>2, <2>3, <2>4
<1>6. CASE StartFresh \/ StartPersisted \/ Restore
  <2>1. Sourced' /\ Resting' /\ OwnedIsApplied'
    BY <1>6, StartFreshApplied, StartPersistedApplied, RestoreApplied
  <2>2. \A v \in Workers : worker'[v] = Idle
    BY <1>6 DEF AppliedInv, SavingInv, Running, Quiet, StartFresh, StartPersisted, Restore
  <2> QED
    BY <2>1, <2>2 DEF Applying, Mutates, Idle
<1>7. CASE Serve
  <2>1. /\ agent = "restoring" /\ left = {} /\ agent' = "serving"
        /\ UNCHANGED <<policy_map, wildcard_policy_map, promised, open, worker>>
        /\ Sourced /\ Resting
        /\ \A v \in Workers : worker[v] = Idle
    BY <1>7 DEF Serve, tables, store, book, AppliedInv, SavingInv, Running, Quiet
  <2>2. Sourced' /\ Resting'
    BY <2>1 DEF Sourced, Resting
  <2>3. ASSUME NEW i \in Owned, i \notin open'
        PROVE  Good(i)'
    <3>1. Good(i)
      BY <2>1, <2>3 DEF Resting
    <3> QED
      BY <2>1, <3>1 DEF Good, Applied, Unapplied
  <2> QED
    BY <2>1, <2>2, <2>3 DEF OwnedIsApplied, Good, Applying, Mutates, Idle
<1>8. CASE UNCHANGED vars
  <2>1. /\ UNCHANGED <<agent, persistent, policy_map, wildcard_policy_map, rows, left,
                       worker, promised, open, unsaved>>
        /\ Sourced /\ Resting /\ OwnedIsApplied /\ OwnIds
        /\ \A v \in Workers : Applying(v)
    BY <1>8 DEF vars, AppliedInv
  <2>2. Sourced'
    BY <2>1 DEF Sourced
  <2>3. \A i : Good(i) <=> Good(i)'
    BY <2>1 DEF Good, Applied, Unapplied
  <2>4. Resting'
    BY <2>1, <2>3 DEF Resting
  <2>5. OwnedIsApplied'
    BY <2>1, <2>3 DEF OwnedIsApplied
  <2>6. \A i : SameRule(i) /\ SamePromise(i)
    BY <2>1, UnchangedRule DEF SamePromise
  <2>7. \A v \in Workers : Applying(v)'
    BY <2>1, <2>6, ApplyingElsewhere
  <2> QED
    BY <2>2, <2>4, <2>5, <2>7
<1> QED
  BY <1>3, <1>4, <1>5, <1>6, <1>7, <1>8 DEF Next, Lifecycle

LEMMA InitApplied == Init => AppliedInv
<1> SUFFICES ASSUME Init
             PROVE  /\ OwnIds /\ Sourced /\ Resting /\ OwnedIsApplied
                    /\ \A w \in Workers : Applying(w)
  BY InitSaving, InitPacked DEF AppliedInv
<1>1. OwnIds
  <2>1. \A i \in DOMAIN rows : rows[i].rule_id = i
    <3>1. CASE rows = NoEntries
      BY <3>1 DEF NoEntries
    <3>2. CASE rows \in Databases
      BY <3>2, PolicyAssumption
    <3> QED
      BY <3>1, <3>2 DEF Init
  <2> QED
    BY <2>1 DEF Init, OwnIds
<1>2. Sourced
  BY DEF Init, Sourced, NoEntries
<1>3. Resting
  BY DEF Init, Resting, NoEntries
<1>4. OwnedIsApplied
  BY DEF Init, OwnedIsApplied
<1>5. \A w \in Workers : Applying(w)
  BY DEF Init, Applying, Mutates, Idle
<1> QED
  BY <1>1, <1>2, <1>3, <1>4, <1>5

LEMMA AppliedAlways == Spec => []AppliedInv
<1>1. AppliedInv /\ [Next]_vars => AppliedInv'
  BY StepApplied
<1> QED
  BY <1>1, InitApplied, PTL DEF Spec

(***************************************************************************)
(* As long as clients change wildcard policies one at a time, what the API *)
(* confirmed of a rule that no client disputes is in the tables: a         *)
(* confirmed policy with its content, a deleted or refused one not at all, *)
(* for any number of requests at once, disputes about other rules among    *)
(* them, any size of the tables, and through crashes and restarts (the     *)
(* handlers of policy.go, AddPolicy, DeletePolicy and LoadPersisted of the *)
(* manager).                                                               *)
(***************************************************************************)
THEOREM ConfirmedIsApplied ==
  ASSUME OneWildcardWriter
  PROVE  Spec => []PromisedIsApplied
<1>1. AppliedInv => PromisedIsApplied
  BY DEF AppliedInv, OwnedIsApplied, Owned, Good, PromisedIsApplied
<1> QED
  BY <1>1, AppliedAlways, PTL

(***************************************************************************)
(* The race of addWildcardPolicy for a slot cannot touch an exact policy:  *)
(* however many requests change wildcard policies at once, a confirmed     *)
(* exact policy of a rule no client disputes is in policy_map with its     *)
(* content, and such a rule that is promised nothing has no entry there    *)
(* (addExactPolicy, DeletePolicy).                                         *)
(***************************************************************************)
ExactIsApplied ==
  agent = "serving" =>
    \A i \in Undisputed \ open :
      IF i \in DOMAIN promised
      THEN ~hasWildcard(promised[i]) => Applied(promised[i])
      ELSE \A k \in DOMAIN policy_map : policy_map[k].rule_id # i

THEOREM ExactSurvivesRaces == Spec => []ExactIsApplied
<1>1. AppliedInv => ExactIsApplied
  <2> SUFFICES ASSUME AppliedInv, agent = "serving", NEW i \in Undisputed \ open
               PROVE  IF i \in DOMAIN promised
                      THEN ~hasWildcard(promised[i]) => Applied(promised[i])
                      ELSE \A k \in DOMAIN policy_map : policy_map[k].rule_id # i
    BY DEF ExactIsApplied
  <2>0. TypeOK /\ OwnIds /\ Sourced /\ (i \in Owned => Good(i))
    BY DEF AppliedInv, SavingInv, Running, OwnedIsApplied
  <2>1. CASE i \in DOMAIN promised
    <3> SUFFICES ASSUME ~hasWildcard(promised[i])
                 PROVE  Applied(promised[i])
      BY <2>1
    <3>1. promised[i] \in Sent /\ promised[i].rule_id = i
      BY <2>0, <2>1 DEF TypeOK, IsMap, OwnIds
    <3>2. i \in Owned
      BY <3>1 DEF Owned
    <3> QED
      BY <2>0, <2>1, <3>2 DEF Good
  <2>2. CASE i \notin DOMAIN promised
    <3> SUFFICES ASSUME NEW k \in DOMAIN policy_map, policy_map[k].rule_id = i
                 PROVE  FALSE
      BY <2>2
    <3>1. i \in Owned
      BY <2>0, EntryIds DEF Sourced, Owned
    <3> QED
      BY <2>0, <2>2, <3>1 DEF Good, Unapplied
  <2> QED
    BY <2>1, <2>2
<1> QED
  BY <1>1, AppliedAlways, PTL

-----------------------------------------------------------------------------
(***************************************************************************)
(* Lists that are made while the table changes.  The keys of the table are *)
(* iterated bucket by bucket, each of them once.                           *)
(***************************************************************************)
ExactKeys == {PolicyKey(p) : p \in {q \in Sent : ~hasWildcard(q)}}

Ordered(s) ==
  \A x, y \in DOMAIN s : x < y => s[x] # s[y] /\ Bucket[s[x]] <= Bucket[s[y]]

Elements(s) == {s[x] : x \in DOMAIN s}

LayoutInv ==
  /\ layout \in Seq(ExactKeys)
  /\ Ordered(layout)
  /\ Elements(layout) = DOMAIN policy_map

(***************************************************************************)
(* Key k is behind an iteration that has still to come to key h: before it *)
(* in the table, or sure to be put back before it.                         *)
(***************************************************************************)
Behind(k, h) ==
  /\ k # h /\ Bucket[k] <= Bucket[h]
  /\ \A x, y \in DOMAIN layout : layout[x] = k /\ layout[y] = h => x < y

\* The keys other than k keep their order.
Follows(new, old, k) ==
  \A x, y \in DOMAIN new : x < y /\ new[x] # k /\ new[y] # k =>
    \E u, v \in DOMAIN old : u < v /\ old[u] = new[x] /\ old[v] = new[y]

LEMMA BucketType ==
  ASSUME NEW k \in ExactKeys
  PROVE  Bucket[k] \in Nat
BY BucketAssumption DEF ExactKeys

LEMMA RemoveShift ==
  ASSUME NEW K, NEW s \in Seq(K), NEW i \in 1 .. Len(s)
  PROVE  /\ RemoveAt(s, i) \in Seq(K)
         /\ Len(RemoveAt(s, i)) = Len(s) - 1
         /\ \A x \in 1 .. (Len(s) - 1) :
              RemoveAt(s, i)[x] = IF x < i THEN s[x] ELSE s[x + 1]
<1> DEFINE a == SubSeq(s, 1, i - 1)
           b == SubSeq(s, i + 1, Len(s))
<1>0. Len(s) \in Nat /\ i \in Int /\ \A x \in 1 .. Len(s) : s[x] \in K
  BY LenProperties, ElementOfSeq
<1>1. /\ a \in Seq(K) /\ Len(a) = i - 1
      /\ \A x \in 1 .. (i - 1) : a[x] = s[x]
  <2>1. \A x \in 1 .. (i - 1) : s[x] \in K
    BY <1>0
  <2> QED
    BY <1>0, <2>1, SubSeqProperties
<1>2. /\ b \in Seq(K) /\ Len(b) = Len(s) - i
      /\ \A x \in 1 .. (Len(s) - i) : b[x] = s[i + x]
  <2>1. \A x \in (i + 1) .. Len(s) : s[x] \in K
    BY <1>0
  <2>2. i + 1 \in Int /\ Len(s) \in Int
    BY <1>0
  <2>3. /\ b \in Seq(K)
        /\ Len(b) = IF i + 1 <= Len(s) THEN Len(s) - (i + 1) + 1 ELSE 0
        /\ \A x \in 1 .. (Len(s) - (i + 1) + 1) : b[x] = s[(i + 1) + x - 1]
    BY <2>1, <2>2, SubSeqProperties
  <2>4. Len(b) = Len(s) - i
    BY <1>0, <2>3
  <2>5. ASSUME NEW x \in 1 .. (Len(s) - i)
        PROVE  b[x] = s[i + x]
    <3>1. x \in 1 .. (Len(s) - (i + 1) + 1) /\ (i + 1) + x - 1 = i + x
      BY <1>0
    <3> QED
      BY <2>3, <3>1
  <2> QED
    BY <2>3, <2>4, <2>5
<1>3. RemoveAt(s, i) = a \o b
  BY DEF RemoveAt
<1> HIDE DEF a, b
<1>4. /\ a \o b \in Seq(K)
      /\ Len(a \o b) = Len(a) + Len(b)
      /\ \A x \in 1 .. (Len(a) + Len(b)) :
           (a \o b)[x] = IF x <= Len(a) THEN a[x] ELSE b[x - Len(a)]
  BY <1>1, <1>2, ConcatProperties
<1>5. ASSUME NEW x \in 1 .. (Len(s) - 1)
      PROVE  (a \o b)[x] = IF x < i THEN s[x] ELSE s[x + 1]
  <2>1. x \in 1 .. (Len(a) + Len(b))
    BY <1>0, <1>1, <1>2
  <2>2. CASE x < i
    BY <1>0, <1>1, <1>4, <2>1, <2>2
  <2>3. CASE ~(x < i)
    <3>1. x - Len(a) \in 1 .. (Len(s) - i) /\ i + (x - Len(a)) = x + 1
      BY <1>0, <1>1, <2>3
    <3>2. (a \o b)[x] = b[x - Len(a)]
      BY <1>0, <1>1, <1>4, <2>1, <2>3
    <3> QED
      BY <1>2, <2>3, <3>1, <3>2
  <2> QED
    BY <2>2, <2>3
<1>6. Len(a \o b) = Len(s) - 1
  BY <1>0, <1>1, <1>2, <1>4
<1> QED
  BY <1>3, <1>4, <1>5, <1>6

LEMMA InsertShift ==
  ASSUME NEW K, NEW s \in Seq(K), NEW i \in 1 .. (Len(s) + 1), NEW e \in K
  PROVE  /\ InsertAt(s, i, e) \in Seq(K)
         /\ Len(InsertAt(s, i, e)) = Len(s) + 1
         /\ \A x \in 1 .. (Len(s) + 1) :
              InsertAt(s, i, e)[x] = IF x < i THEN s[x] ELSE IF x = i THEN e ELSE s[x - 1]
<1> DEFINE a == SubSeq(s, 1, i - 1)
           b == SubSeq(s, i, Len(s))
           c == a \o <<e>>
<1>0. Len(s) \in Nat /\ i \in Int /\ \A x \in 1 .. Len(s) : s[x] \in K
  BY LenProperties, ElementOfSeq
<1>1. /\ a \in Seq(K) /\ Len(a) = i - 1
      /\ \A x \in 1 .. (i - 1) : a[x] = s[x]
  <2>1. \A x \in 1 .. (i - 1) : s[x] \in K
    BY <1>0
  <2> QED
    BY <1>0, <2>1, SubSeqProperties
<1>2. /\ b \in Seq(K) /\ Len(b) = Len(s) - i + 1
      /\ \A x \in 1 .. (Len(s) - i + 1) : b[x] = s[i + x - 1]
  <2>1. \A x \in i .. Len(s) : s[x] \in K
    BY <1>0
  <2> QED
    BY <1>0, <2>1, SubSeqProperties
<1>3. <<e>> \in Seq(K) /\ Len(<<e>>) = 1 /\ <<e>>[1] = e
  OBVIOUS
<1>4. InsertAt(s, i, e) = c \o b
  BY DEF InsertAt
<1> HIDE DEF a, b
<1>5. /\ c \in Seq(K) /\ Len(c) = i
      /\ \A x \in 1 .. i : c[x] = IF x < i THEN s[x] ELSE e
  <2>1. /\ c \in Seq(K) /\ Len(c) = Len(a) + 1
        /\ \A x \in 1 .. (Len(a) + 1) :
             c[x] = IF x <= Len(a) THEN a[x] ELSE <<e>>[x - Len(a)]
    BY <1>1, <1>3, ConcatProperties
  <2> QED
    BY <1>0, <1>1, <1>3, <2>1
<1> HIDE DEF c
<1>6. /\ c \o b \in Seq(K)
      /\ Len(c \o b) = Len(c) + Len(b)
      /\ \A x \in 1 .. (Len(c) + Len(b)) :
           (c \o b)[x] = IF x <= Len(c) THEN c[x] ELSE b[x - Len(c)]
  BY <1>2, <1>5, ConcatProperties
<1>7. ASSUME NEW x \in 1 .. (Len(s) + 1)
      PROVE  (c \o b)[x] = IF x < i THEN s[x] ELSE IF x = i THEN e ELSE s[x - 1]
  <2>1. x \in 1 .. (Len(c) + Len(b))
    BY <1>0, <1>2, <1>5
  <2>2. CASE x <= i
    BY <1>0, <1>5, <1>6, <2>1, <2>2
  <2>3. CASE ~(x <= i)
    <3>1. x - Len(c) \in 1 .. (Len(s) - i + 1) /\ i + (x - Len(c)) - 1 = x - 1
      BY <1>0, <1>5, <2>3
    <3>2. (c \o b)[x] = b[x - Len(c)]
      BY <1>0, <1>5, <1>6, <2>1, <2>3
    <3>3. b[x - Len(c)] = s[x - 1]
      <4>1. b[x - Len(c)] = s[i + (x - Len(c)) - 1]
        BY <1>2, <3>1
      <4> QED
        BY <3>1, <4>1
    <3>4. ~(x < i) /\ x # i
      BY <1>0, <2>3
    <3> QED
      BY <3>2, <3>3, <3>4
  <2> QED
    BY <2>2, <2>3
<1>8. Len(c \o b) = Len(s) + 1
  BY <1>0, <1>2, <1>5, <1>6
<1> QED
  BY <1>4, <1>6, <1>7, <1>8

LEMMA DroppedOrder ==
  ASSUME NEW K, layout \in Seq(K), Ordered(layout), NEW k
  PROVE  /\ Dropped(k) \in Seq(K) /\ Ordered(Dropped(k))
         /\ Elements(Dropped(k)) = Elements(layout) \ {k}
         /\ Follows(Dropped(k), layout, k)
<1> DEFINE at == {i \in DOMAIN layout : layout[i] = k}
           rest == Dropped(k)
<1>0. DOMAIN layout = 1 .. Len(layout) /\ Len(layout) \in Nat
  BY LenProperties
<1>1. CASE at = {}
  <2>1. rest = layout /\ k \notin Elements(layout)
    BY <1>1 DEF Dropped, Elements
  <2> QED
    BY <2>1 DEF Follows
<1>2. CASE at # {}
  <2>1. PICK i \in at : i = CHOOSE j \in at : TRUE
    BY <1>2
  <2>2. i \in 1 .. Len(layout) /\ layout[i] = k
    BY <1>0, <2>1
  <2>3. rest = RemoveAt(layout, i)
    BY <1>2, <2>1 DEF Dropped
  <2> HIDE DEF rest
  <2>4. /\ rest \in Seq(K) /\ DOMAIN rest = 1 .. (Len(layout) - 1)
        /\ \A x \in 1 .. (Len(layout) - 1) :
             rest[x] = IF x < i THEN layout[x] ELSE layout[x + 1]
    BY <2>2, <2>3, RemoveShift, LenProperties
  <2> DEFINE from(x) == IF x < i THEN x ELSE x + 1
  <2>5. \A x \in DOMAIN rest : from(x) \in DOMAIN layout /\ rest[x] = layout[from(x)]
    BY <1>0, <2>2, <2>4
  <2>6. \A x, y \in DOMAIN rest : x < y => from(x) < from(y)
    BY <1>0, <2>2, <2>4
  <2>7. \A x \in DOMAIN rest : from(x) # i
    BY <1>0, <2>2, <2>4
  <2>8. \A u \in DOMAIN layout : u # i => \E x \in DOMAIN rest : from(x) = u
    <3> SUFFICES ASSUME NEW u \in DOMAIN layout, u # i
                 PROVE  \E x \in DOMAIN rest : from(x) = u
      OBVIOUS
    <3>1. CASE u < i
      BY <1>0, <2>2, <2>4, <3>1
    <3>2. CASE ~(u < i)
      <4>1. u - 1 \in DOMAIN rest /\ from(u - 1) = u
        BY <1>0, <2>2, <2>4, <3>2
      <4> QED
        BY <4>1
    <3> QED
      BY <3>1, <3>2
  <2> HIDE DEF from
  <2>9. Ordered(rest) /\ Follows(rest, layout, k)
    BY <2>5, <2>6 DEF Ordered, Follows
  <2>10. \A u \in DOMAIN layout : u # i => layout[u] # k
    BY <1>0, <2>2 DEF Ordered
  <2>11. Elements(rest) = Elements(layout) \ {k}
    <3>1. ASSUME NEW x \in DOMAIN rest
          PROVE  rest[x] \in Elements(layout) \ {k}
      BY <2>5, <2>7, <2>10 DEF Elements
    <3>2. ASSUME NEW u \in DOMAIN layout, layout[u] # k
          PROVE  layout[u] \in Elements(rest)
      <4>1. u # i
        BY <2>2, <3>2
      <4> QED
        BY <2>5, <2>8, <4>1 DEF Elements
    <3> QED
      BY <3>1, <3>2 DEF Elements
  <2> QED
    BY <2>4, <2>9, <2>11 DEF rest
<1> QED
  BY <1>1, <1>2

(***************************************************************************)
(* In an ordered sequence the keys of lower buckets are a prefix, and as   *)
(* long as there are such keys.                                            *)
(***************************************************************************)
LEMMA LowerPrefix ==
  ASSUME NEW s \in Seq(ExactKeys), Ordered(s), NEW k \in ExactKeys,
         NEW n, n = Cardinality({i \in DOMAIN s : Bucket[s[i]] < Bucket[k]})
  PROVE  /\ n \in 0 .. Len(s)
         /\ \A x \in 1 .. Len(s) : Bucket[s[x]] < Bucket[k] <=> x <= n
<1> DEFINE lower == {i \in DOMAIN s : Bucket[s[i]] < Bucket[k]}
<1>0. DOMAIN s = 1 .. Len(s) /\ Len(s) \in Nat
  BY LenProperties
<1>1. \A x \in 1 .. Len(s) : Bucket[s[x]] \in Nat
  BY ElementOfSeq, BucketType
<1>2. Bucket[k] \in Nat
  BY BucketType
<1>3. \A m \in Nat : IsFiniteSet(1 .. m) /\ Cardinality(1 .. m) = m
  <2> SUFFICES ASSUME NEW m \in Nat
               PROVE  IsFiniteSet(1 .. m) /\ Cardinality(1 .. m) = m
    OBVIOUS
  <2>1. IsFiniteSet(1 .. m) /\ Cardinality(1 .. m) = IF 1 > m THEN 0 ELSE m - 1 + 1
    BY FS_Interval
  <2> QED
    BY <2>1
<1>4. IsFiniteSet(lower) /\ n \in Nat /\ n <= Len(s)
  <2>1. lower \in SUBSET (1 .. Len(s))
    BY <1>0
  <2>2. IsFiniteSet(lower) /\ Cardinality(lower) <= Cardinality(1 .. Len(s))
    BY <1>0, <1>3, <2>1, FS_Subset
  <2>3. Cardinality(lower) \in Nat
    BY <2>2, FS_CardinalityType
  <2> QED
    BY <1>0, <1>3, <2>2, <2>3
<1>5. ASSUME NEW x \in 1 .. Len(s), Bucket[s[x]] < Bucket[k]
      PROVE  x <= n
  <2>1. \A u \in 1 .. x : u \in lower
    <3> SUFFICES ASSUME NEW u \in 1 .. x
                 PROVE  Bucket[s[u]] < Bucket[k] /\ u \in 1 .. Len(s)
      BY <1>0
    <3>1. u \in 1 .. Len(s) /\ (u < x \/ u = x)
      BY <1>0
    <3>2. Bucket[s[u]] <= Bucket[s[x]]
      BY <1>0, <1>1, <3>1 DEF Ordered
    <3> QED
      BY <1>1, <1>2, <1>5, <3>1, <3>2
  <2>2. 1 .. x \in SUBSET lower
    BY <2>1
  <2>3. Cardinality(1 .. x) <= Cardinality(lower)
    BY <1>4, <2>2, FS_Subset
  <2> QED
    BY <1>0, <1>3, <2>3
<1>6. ASSUME NEW x \in 1 .. Len(s), ~(Bucket[s[x]] < Bucket[k])
      PROVE  n < x
  <2>1. ASSUME NEW u \in lower
        PROVE  u \in 1 .. (x - 1)
    <3>1. u \in 1 .. Len(s) /\ Bucket[s[u]] < Bucket[k]
      BY <1>0
    <3>2. ~(x < u)
      <4>1. x < u => Bucket[s[x]] <= Bucket[s[u]]
        BY <1>0, <3>1 DEF Ordered
      <4> QED
        BY <1>1, <1>2, <1>6, <3>1, <4>1
    <3>3. x # u
      BY <1>6, <3>1
    <3> QED
      BY <1>0, <3>1, <3>2, <3>3
  <2>2. lower \in SUBSET (1 .. (x - 1)) /\ x - 1 \in Nat
    BY <1>0, <2>1
  <2>3. Cardinality(lower) <= Cardinality(1 .. (x - 1))
    BY <1>3, <2>2, FS_Subset
  <2> QED
    BY <1>0, <1>3, <1>4, <2>2, <2>3
<1>7. ASSUME NEW x \in 1 .. Len(s)
      PROVE  Bucket[s[x]] < Bucket[k] <=> x <= n
  <2>1. n \in Nat /\ x \in Nat
    BY <1>0, <1>4
  <2>2. CASE Bucket[s[x]] < Bucket[k]
    BY <1>5, <2>2
  <2>3. CASE ~(Bucket[s[x]] < Bucket[k])
    BY <1>6, <2>1, <2>3
  <2> QED
    BY <2>2, <2>3
<1>8. n \in 0 .. Len(s)
  BY <1>0, <1>4
<1> QED
  BY <1>7, <1>8

LEMMA PlacedOrder ==
  ASSUME layout \in Seq(ExactKeys), Ordered(layout), NEW k \in ExactKeys
  PROVE  /\ Placed(k) \in Seq(ExactKeys) /\ Ordered(Placed(k))
         /\ Elements(Placed(k)) = Elements(layout) \cup {k}
         /\ Follows(Placed(k), layout, k)
         /\ \A x, y \in DOMAIN Placed(k) :
              x < y /\ Placed(k)[y] = k => Bucket[Placed(k)[x]] < Bucket[k]
<1> DEFINE rest == Dropped(k)
           before == {i \in DOMAIN rest : Bucket[rest[i]] < Bucket[k]}
           n == Cardinality(before)
           new == Placed(k)
<1>1. /\ rest \in Seq(ExactKeys) /\ Ordered(rest)
      /\ Elements(rest) = Elements(layout) \ {k}
      /\ Follows(rest, layout, k)
  BY DroppedOrder
<1>2. new = InsertAt(rest, n + 1, k)
  BY DEF Placed
<1> HIDE DEF rest
<1>3. /\ n \in 0 .. Len(rest)
      /\ \A x \in 1 .. Len(rest) : Bucket[rest[x]] < Bucket[k] <=> x <= n
  BY <1>1, LowerPrefix
<1>4. DOMAIN rest = 1 .. Len(rest) /\ Len(rest) \in Nat
  BY <1>1, LenProperties
<1> HIDE DEF new, n
<1>5. /\ new \in Seq(ExactKeys) /\ DOMAIN new = 1 .. (Len(rest) + 1)
      /\ \A x \in 1 .. (Len(rest) + 1) :
           new[x] = IF x < n + 1 THEN rest[x] ELSE IF x = n + 1 THEN k ELSE rest[x - 1]
  <2>1. n + 1 \in 1 .. (Len(rest) + 1)
    BY <1>3, <1>4
  <2>2. rest \in Seq(ExactKeys)
    BY <1>1
  <2>3. PICK m \in 1 .. (Len(rest) + 1) : m = n + 1
    BY <2>1
  <2>4. /\ InsertAt(rest, m, k) \in Seq(ExactKeys)
        /\ Len(InsertAt(rest, m, k)) = Len(rest) + 1
        /\ \A x \in 1 .. (Len(rest) + 1) :
             InsertAt(rest, m, k)[x] =
               IF x < m THEN rest[x] ELSE IF x = m THEN k ELSE rest[x - 1]
    BY <2>2, <2>3, InsertShift
  <2>5. new = InsertAt(rest, m, k)
    BY <1>2, <2>3
  <2>6. DOMAIN new = 1 .. Len(new)
    BY <2>4, <2>5, LenProperties
  <2> QED
    BY <2>3, <2>4, <2>5, <2>6
<1> DEFINE from(x) == IF x < n + 1 THEN x ELSE x - 1
<1>6. \A x \in DOMAIN new : x # n + 1 => /\ from(x) \in DOMAIN rest
                                         /\ new[x] = rest[from(x)]
  BY <1>3, <1>4, <1>5
<1>7. \A x, y \in DOMAIN new : x < y /\ x # n + 1 /\ y # n + 1 => from(x) < from(y)
  BY <1>3, <1>4, <1>5
<1>8. n + 1 \in DOMAIN new /\ new[n + 1] = k
  BY <1>3, <1>4, <1>5
<1>9. \A u \in DOMAIN rest : rest[u] # k
  BY <1>1 DEF Elements
<1>10. \A x \in DOMAIN new : new[x] = k => x = n + 1
  BY <1>6, <1>9
<1>11. \A x \in DOMAIN new : /\ x < n + 1 => Bucket[new[x]] < Bucket[k]
                             /\ n + 1 < x => ~(Bucket[new[x]] < Bucket[k])
  <2> SUFFICES ASSUME NEW x \in DOMAIN new, x # n + 1
               PROVE  Bucket[new[x]] < Bucket[k] <=> x < n + 1
    BY <1>3, <1>5
  <2>1. from(x) <= n <=> x < n + 1
    BY <1>3, <1>4, <1>5
  <2>2. from(x) \in 1 .. Len(rest) /\ new[x] = rest[from(x)]
    BY <1>4, <1>6
  <2> HIDE DEF from
  <2> QED
    BY <1>3, <2>1, <2>2
<1>12. \A u \in DOMAIN rest : \E x \in DOMAIN new : x # n + 1 /\ from(x) = u
  <2> SUFFICES ASSUME NEW u \in DOMAIN rest
               PROVE  \E x \in DOMAIN new : x # n + 1 /\ from(x) = u
    OBVIOUS
  <2>1. CASE u < n + 1
    BY <1>3, <1>4, <1>5, <2>1
  <2>2. CASE ~(u < n + 1)
    <3>1. u + 1 \in DOMAIN new /\ u + 1 # n + 1 /\ from(u + 1) = u
      BY <1>3, <1>4, <1>5, <2>2
    <3> QED
      BY <3>1
  <2> QED
    BY <2>1, <2>2
<1> HIDE DEF from
<1>13. Follows(new, layout, k)
  <2> SUFFICES ASSUME NEW x \in DOMAIN new, NEW y \in DOMAIN new,
                      x < y, new[x] # k, new[y] # k
               PROVE  \E u, v \in DOMAIN layout :
                        u < v /\ layout[u] = new[x] /\ layout[v] = new[y]
    BY DEF Follows
  <2>1. /\ from(x) \in DOMAIN rest /\ from(y) \in DOMAIN rest
        /\ new[x] = rest[from(x)] /\ new[y] = rest[from(y)] /\ from(x) < from(y)
    BY <1>6, <1>7, <1>8
  <2> QED
    BY <1>1, <2>1 DEF Follows
<1>14. Ordered(new)
  <2> SUFFICES ASSUME NEW x \in DOMAIN new, NEW y \in DOMAIN new, x < y
               PROVE  new[x] # new[y] /\ Bucket[new[x]] <= Bucket[new[y]]
    BY DEF Ordered
  <2>0. /\ Bucket[new[x]] \in Nat /\ Bucket[new[y]] \in Nat /\ Bucket[k] \in Nat
        /\ n \in Nat /\ x \in Nat /\ y \in Nat
    BY <1>3, <1>4, <1>5, BucketType, ElementOfSeq, LenProperties
  <2>1. CASE x = n + 1
    BY <1>8, <1>10, <1>11, <2>0, <2>1
  <2>2. CASE y = n + 1
    BY <1>8, <1>10, <1>11, <2>0, <2>2
  <2>3. CASE x # n + 1 /\ y # n + 1
    BY <1>1, <1>6, <1>7, <2>3 DEF Ordered
  <2> QED
    BY <2>1, <2>2, <2>3
<1>15. Elements(new) = Elements(layout) \cup {k}
  <2>1. ASSUME NEW x \in DOMAIN new
        PROVE  new[x] \in Elements(rest) \cup {k}
    BY <1>6, <1>8 DEF Elements
  <2>2. ASSUME NEW u \in DOMAIN rest
        PROVE  rest[u] \in Elements(new)
    BY <1>6, <1>12 DEF Elements
  <2>3. k \in Elements(new)
    BY <1>8 DEF Elements
  <2>4. Elements(new) = Elements(rest) \cup {k}
    BY <2>1, <2>2, <2>3 DEF Elements
  <2>5. k \in Elements(layout) \/ k \notin Elements(layout)
    OBVIOUS
  <2> QED
    BY <1>1, <2>4
<1>16. \A x, y \in DOMAIN new : x < y /\ new[y] = k => Bucket[new[x]] < Bucket[k]
  BY <1>10, <1>11
<1> QED
  BY <1>5, <1>13, <1>14, <1>15, <1>16 DEF new

-----------------------------------------------------------------------------
(***************************************************************************)
(* What a write of the table does to the order of iteration, and to keys   *)
(* that an iteration has passed.                                           *)
(***************************************************************************)
LEMMA RemoveLayout ==
  ASSUME LayoutInv, NEW k, policy_map' = Without(policy_map, k), layout' = Dropped(k)
  PROVE  LayoutInv'
<1>1. /\ layout' \in Seq(ExactKeys) /\ Ordered(layout')
      /\ Elements(layout') = Elements(layout) \ {k}
  BY DroppedOrder DEF LayoutInv
<1>2. DOMAIN policy_map' = DOMAIN policy_map \ {k}
  BY WithoutAt
<1> QED
  BY <1>1, <1>2 DEF LayoutInv, Ordered, Elements

LEMMA PutLayout ==
  ASSUME LayoutInv, NEW p \in Sent, ~hasWildcard(p), PutExact(p)
  PROVE  LayoutInv'
<1> DEFINE k == PolicyKey(p)
<1>0. k \in ExactKeys
  BY DEF ExactKeys
<1>1. policy_map' = Put(policy_map, k, PolicyValue(p)) /\ layout' = Placed(k)
  BY DEF PutExact
<1>2. /\ layout' \in Seq(ExactKeys) /\ Ordered(layout')
      /\ Elements(layout') = Elements(layout) \cup {k}
  BY <1>0, <1>1, PlacedOrder DEF LayoutInv
<1>3. DOMAIN policy_map' = DOMAIN policy_map \cup {k}
  BY <1>1, PutAt
<1> HIDE DEF k
<1> QED
  BY <1>2, <1>3 DEF LayoutInv, Ordered, Elements

LEMMA StayBehind ==
  ASSUME LayoutInv, NEW k, NEW h \in ExactKeys, h # k,
         layout' = Dropped(k) \/ (k \in ExactKeys /\ layout' = Placed(k)),
         NEW g, Behind(g, h)
  PROVE  Behind(g, h)'
<1>1. /\ layout' \in Seq(ExactKeys) /\ Follows(layout', layout, k)
      /\ \A x, y \in DOMAIN layout' :
           x < y /\ layout'[y] = k =>
             k \in ExactKeys /\ Bucket[layout'[x]] < Bucket[k]
  <2>1. CASE layout' = Dropped(k)
    <3>1. /\ layout' \in Seq(ExactKeys) /\ Follows(layout', layout, k)
          /\ Elements(layout') = Elements(layout) \ {k}
      BY <2>1, DroppedOrder DEF LayoutInv
    <3>2. \A y \in DOMAIN layout' : layout'[y] # k
      BY <3>1 DEF Elements
    <3> QED
      BY <3>1, <3>2
  <2>2. CASE k \in ExactKeys /\ layout' = Placed(k)
    <3>1. /\ Placed(k) \in Seq(ExactKeys) /\ Follows(Placed(k), layout, k)
          /\ \A x, y \in DOMAIN Placed(k) :
               x < y /\ Placed(k)[y] = k => Bucket[Placed(k)[x]] < Bucket[k]
      BY <2>2, PlacedOrder DEF LayoutInv
    <3> QED
      BY <2>2, <3>1
  <2> QED
    BY <2>1, <2>2
<1>2. /\ g # h /\ Bucket[g] <= Bucket[h]
      /\ \A x, y \in DOMAIN layout : layout[x] = g /\ layout[y] = h => x < y
  BY DEF Behind
<1>3. ASSUME NEW x \in DOMAIN layout', NEW y \in DOMAIN layout',
             layout'[x] = g, layout'[y] = h
      PROVE  x < y
  <2>1. x \in Nat /\ y \in Nat /\ x # y
    BY <1>1, <1>2, <1>3, LenProperties
  <2> SUFFICES ASSUME y < x
               PROVE  FALSE
    BY <2>1
  <2>2. CASE g = k
    <3>1. k \in ExactKeys /\ Bucket[h] < Bucket[k]
      BY <1>1, <1>3, <2>2
    <3>2. Bucket[h] \in Nat /\ Bucket[k] \in Nat
      BY <3>1, BucketType
    <3> QED
      BY <1>2, <2>2, <3>1, <3>2
  <2>3. CASE g # k
    <3>1. PICK u \in DOMAIN layout, v \in DOMAIN layout :
            u < v /\ layout[u] = h /\ layout[v] = g
      BY <1>1, <1>3, <2>3 DEF Follows
    <3>2. v < u
      BY <1>2, <3>1
    <3>3. u \in Nat /\ v \in Nat
      BY LenProperties DEF LayoutInv
    <3> QED
      BY <3>1, <3>2, <3>3
  <2> QED
    BY <2>2, <2>3
<1> QED
  BY <1>2, <1>3 DEF Behind

(***************************************************************************)
(* The key after one that is behind is behind too, or the one to come to.  *)
(***************************************************************************)
LEMMA NextBehind ==
  ASSUME LayoutInv, NEW h \in DOMAIN policy_map, NEW cursor,
         \A k \in cursor : Behind(k, h)
  PROVE  /\ NextKeys(cursor) # {}
         /\ \A k \in NextKeys(cursor) : k = h \/ Behind(k, h)
<1> DEFINE at == {i \in DOMAIN layout : layout[i] \in cursor}
           after == IF at = {} THEN {1} ELSE {i + 1 : i \in at}
<1>0. DOMAIN layout = 1 .. Len(layout) /\ Len(layout) \in Nat /\ Ordered(layout)
  BY LenProperties DEF LayoutInv
<1>1. PICK y \in DOMAIN layout : layout[y] = h
  BY DEF LayoutInv, Elements
<1>2. \A z \in DOMAIN layout : layout[z] = h => z = y
  BY <1>0, <1>1 DEF Ordered
<1>3. \A i \in at : i < y
  BY <1>1 DEF Behind
<1>4. after # {} /\ \A i \in after : i \in Nat /\ 1 <= i /\ i <= y
  <2>1. CASE at = {}
    BY <1>0, <1>1, <2>1
  <2>2. CASE at # {}
    <3>1. after = {i + 1 : i \in at}
      BY <2>2
    <3>2. \A i \in at : i \in Nat /\ 1 <= i + 1 /\ i + 1 <= y
      BY <1>0, <1>1, <1>3
    <3> HIDE DEF at, after
    <3> QED
      BY <2>2, <3>1, <3>2
  <2> QED
    BY <2>1, <2>2
<1>5. NextKeys(cursor) = {layout[i] : i \in after \cap DOMAIN layout}
  BY DEF NextKeys
<1> HIDE DEF after
<1>6. after \cap DOMAIN layout = after
  BY <1>0, <1>1, <1>4
<1>7. ASSUME NEW i \in after
      PROVE  layout[i] = h \/ Behind(layout[i], h)
  <2>0. i \in DOMAIN layout /\ i <= y
    BY <1>4, <1>6, <1>7
  <2>1. CASE i = y
    BY <1>1, <2>1
  <2>2. CASE i # y
    <3>1. i < y
      BY <1>0, <2>0, <2>2
    <3>2. layout[i] # h /\ Bucket[layout[i]] <= Bucket[h]
      BY <1>0, <1>1, <2>0, <3>1 DEF Ordered
    <3>3. \A x \in DOMAIN layout : layout[x] = layout[i] => x = i
      BY <1>0, <2>0 DEF Ordered
    <3> QED
      BY <1>2, <3>1, <3>2, <3>3 DEF Behind
  <2> QED
    BY <2>1, <2>2
<1> QED
  BY <1>4, <1>5, <1>6, <1>7

(***************************************************************************)
(* The writes of a request to the exact table.                             *)
(***************************************************************************)
Writes(q) ==
  \/ policy_map' = Without(policy_map, PolicyKey(q)) /\ layout' = Dropped(PolicyKey(q))
  \/ ~hasWildcard(q) /\ PutExact(q)

LEMMA WorkWrites ==
  ASSUME TypeOK, NEW w \in Workers, Work(w), OnPath(worker[w]), Applying(w)
  PROVE  \/ UNCHANGED <<policy_map, layout>>
         \/ /\ Mutates(worker[w])
            /\ \E q \in Sent : q.rule_id = id(w) /\ Writes(q)
<1>0. worker[w] \in Request /\ worker[w].policy \in Sent
  BY IdTypes
<1>1. CASE Erase(w)
  <2>1. Mutates(worker[w])
    BY <1>0, <1>1 DEF Erase, OnPath, Mutates
  <2>2. \/ UNCHANGED <<policy_map, layout>>
        \/ \E q \in Sent : /\ q.rule_id = id(w)
                            /\ policy_map' = Without(policy_map, PolicyKey(q))
                            /\ layout' = Dropped(PolicyKey(q))
    BY <1>1, EraseSource
  <2> QED
    BY <2>1, <2>2 DEF Writes
<1>2. CASE Insert(w)
  <2>1. Mutates(worker[w]) /\ ~hasWildcard(worker[w].policy)
    BY <1>0, <1>2 DEF Insert, OnPath, Mutates, Applying
  <2>2. PutExact(worker[w].policy) \/ UNCHANGED <<policy_map, layout>>
    BY <1>2 DEF Insert
  <2> QED
    BY <1>0, <2>1, <2>2 DEF Writes, id
<1>3. CASE ~(Erase(w) \/ Insert(w))
  BY <1>3 DEF Work, Forget, ProbeSlot, WriteSlot, Save, NextKey, Fetch, Answer, tables
<1> QED
  BY <1>1, <1>2, <1>3

-----------------------------------------------------------------------------
(***************************************************************************)
(* A request that reads about an undisputed rule nobody is changing: what  *)
(* it has found is the promised entry, and as long as it has found nothing *)
(* the promised entry is still ahead of it.                                *)
(***************************************************************************)
Reads(r) == /\ r.pc # "idle" /\ r.op \in {"GET", "DELETE"} /\ r.sure
            /\ r.policy.rule_id \in Undisputed

Entry(p) == [key |-> PolicyKey(p), value |-> PolicyValue(p)]

Ahead(r, h) == \A k \in r.cursor : Behind(k, h) \/ (r.pc = "fetch" /\ k = h)

FoundTrue(r, i) ==
  r.found # {} => i \in DOMAIN promised /\ r.found = {Entry(promised[i])}

NotMissed(r, i) ==
  i \in DOMAIN promised /\ ~hasWildcard(promised[i]) =>
    /\ ~Told(r, "not_found")
    /\ r.found = {} /\ r.pc \in {"next", "fetch"} => Ahead(r, PolicyKey(promised[i]))

Listing(w) ==
  LET r == worker[w]
      i == r.policy.rule_id
  IN  Reads(r) =>
        /\ \A v \in Workers \ {w} : Mutates(worker[v]) => worker[v].policy.rule_id # i
        /\ r.op = "GET" => i \notin open
        /\ FoundTrue(r, i)
        /\ NotMissed(r, i)

ListInv ==
  /\ AppliedInv
  /\ LayoutInv
  /\ \A w \in Workers : Listing(w)

LEMMA PromisedKey ==
  ASSUME TypeOK, OwnIds, NEW i \in DOMAIN promised
  PROVE  /\ promised[i] \in Sent /\ promised[i].rule_id = i
         /\ ~hasWildcard(promised[i]) => PolicyKey(promised[i]) \in ExactKeys
BY DEF TypeOK, IsMap, OwnIds, ExactKeys

(***************************************************************************)
(* A request is not disturbed by steps that leave its rule alone.          *)
(***************************************************************************)
LEMMA ListingElsewhere ==
  ASSUME TypeOK, OwnIds, LayoutInv, NEW w \in Workers, Listing(w),
         worker'[w].pc = worker[w].pc, worker'[w].op = worker[w].op,
         worker'[w].policy = worker[w].policy, worker'[w].status = worker[w].status,
         worker'[w].found = worker[w].found, worker'[w].cursor = worker[w].cursor,
         worker'[w].sure => worker[w].sure,
         Reads(worker'[w]) =>
           /\ \A v \in Workers \ {w} : Mutates(worker'[v]) =>
                worker'[v].policy.rule_id # worker[w].policy.rule_id
           /\ SamePromise(worker[w].policy.rule_id)
           /\ worker[w].op = "GET" /\ worker[w].policy.rule_id \notin open =>
                worker[w].policy.rule_id \notin open'
           /\ \/ UNCHANGED layout
              \/ \E q \in Sent : /\ q.rule_id # worker[w].policy.rule_id
                                  /\ Writes(q)
  PROVE  Listing(w)'
<1>0. PICK r, t : r = worker[w] /\ t = worker'[w]
  OBVIOUS
<1>1. PICK i : i = r.policy.rule_id
  OBVIOUS
<1> SUFFICES ASSUME Reads(t)
             PROVE  /\ \A v \in Workers \ {w} :
                         Mutates(worker'[v]) => worker'[v].policy.rule_id # i
                    /\ t.op = "GET" => i \notin open'
                    /\ FoundTrue(t, i)'
                    /\ NotMissed(t, i)'
  BY <1>0, <1>1 DEF Listing, FoundTrue, NotMissed, Ahead, Behind
<1>2. /\ Reads(r) /\ FoundTrue(r, i) /\ NotMissed(r, i)
      /\ r.op = "GET" => i \notin open
  BY <1>0, <1>1 DEF Reads, Listing
<1>3. /\ \A v \in Workers \ {w} : Mutates(worker'[v]) => worker'[v].policy.rule_id # i
      /\ SamePromise(i)
      /\ t.op = "GET" => i \notin open'
      /\ UNCHANGED layout \/ \E q \in Sent : q.rule_id # i /\ Writes(q)
  BY <1>0, <1>1, <1>2
<1>4. FoundTrue(t, i)'
  BY <1>0, <1>2, <1>3 DEF FoundTrue, SamePromise
<1>5. NotMissed(t, i)'
  <2> SUFFICES ASSUME i \in DOMAIN promised, ~hasWildcard(promised[i])
               PROVE  /\ ~Told(t, "not_found")
                      /\ t.found = {} /\ t.pc \in {"next", "fetch"} =>
                           Ahead(t, PolicyKey(promised[i]))'
    BY <1>3 DEF NotMissed, SamePromise
  <2>1. PICK h : h = PolicyKey(promised[i])
    OBVIOUS
  <2>2. h \in ExactKeys
    BY <2>1, PromisedKey
  <2>3. ASSUME NEW k, Behind(k, h)
        PROVE  Behind(k, h)'
    <3>1. CASE UNCHANGED layout
      BY <2>3, <3>1 DEF Behind
    <3>2. CASE \E q \in Sent : q.rule_id # i /\ Writes(q)
      <4>1. PICK q \in Sent : q.rule_id # i /\ Writes(q)
        BY <3>2
      <4>2. PICK x : x = PolicyKey(q)
        OBVIOUS
      <4>3. h # x
        BY <1>1, <1>2, <2>1, <4>1, <4>2, PromisedKey, UndisputedAt DEF Reads
      <4>4. layout' = Dropped(x) \/ (x \in ExactKeys /\ layout' = Placed(x))
        BY <4>1, <4>2 DEF Writes, PutExact, ExactKeys
      <4> QED
        BY <2>2, <2>3, <4>3, <4>4, StayBehind
    <3> QED
      BY <1>3, <3>1, <3>2
  <2>4. /\ ~Told(r, "not_found")
        /\ r.found = {} /\ r.pc \in {"next", "fetch"} => Ahead(r, h)
    BY <1>2, <2>1 DEF NotMissed
  <2>5. Ahead(r, h) => Ahead(t, h)'
    BY <1>0, <2>3 DEF Ahead
  <2>6. promised'[i] = promised[i]
    BY <1>3 DEF SamePromise
  <2> QED
    BY <1>0, <2>1, <2>4, <2>5, <2>6 DEF Told, Ahead, Behind
<1> QED
  BY <1>3, <1>4, <1>5

(***************************************************************************)
(* The rule of a request that reads is in the exact table or is not, as    *)
(* promised.                                                               *)
(***************************************************************************)
LEMMA ReadsGood ==
  ASSUME AppliedInv, NEW w \in Workers, Listing(w), Reads(worker[w]),
         worker[w].pc \in {"next", "fetch"}, id(w) \in Owned
  PROVE  Good(id(w))
<1>1. CASE worker[w].op = "GET"
  <2>1. id(w) \notin open
    BY <1>1 DEF Listing, id
  <2>2. agent = "serving"
    BY DEF AppliedInv, SavingInv, Running, Quiet, Idle
  <2> QED
    BY <2>1, <2>2 DEF AppliedInv, OwnedIsApplied
<1>2. CASE worker[w].op = "DELETE"
  BY <1>2 DEF AppliedInv, Applying, Mutates, Before, Reads, id
<1> QED
  BY <1>1, <1>2 DEF Reads

LEMMA NextReads ==
  ASSUME TypeOK, NEW w \in Workers, NextKey(w)
  PROVE  /\ worker'[w].found = worker[w].found
         /\ \/ Told(worker'[w], "error")
            \/ /\ NextKeys(worker[w].cursor) = {}
               /\ \/ worker[w].found = {} /\ Told(worker'[w], "not_found")
                  \/ worker[w].found # {} /\ worker'[w].pc = "erase"
                  \/ worker[w].found # {} /\ Told(worker'[w], "ok")
            \/ /\ worker'[w].pc = "fetch"
               /\ NextKeys(worker[w].cursor) # {}
               /\ worker'[w].cursor = NextKeys(worker[w].cursor)
<1> DEFINE next == NextKeys(worker[w].cursor)
           count == worker[w].count + 1
           r == [worker[w] EXCEPT !.pc = "fetch", !.cursor = next, !.count = count]
<1>0. worker \in [Workers -> Request] /\ worker[w] \in Request
  BY DEF TypeOK
<1>1. worker'[w].found = worker[w].found
  BY NextFound
<1>2. CASE Reply(w, "error")
  BY <1>0, <1>1, <1>2, ReplyReplies DEF Replies, Told
<1>3. CASE next = {} /\ Listed(w)
  BY <1>0, <1>1, <1>3, GoGoes, ReplyReplies DEF Listed, Goes, Replies, Told, PC
<1>4. CASE next # {} /\ worker' = [worker EXCEPT ![w].pc = "fetch", ![w].cursor = next,
                                                ![w].count = @ + 1]
  <2>1. worker' = [worker EXCEPT ![w] = r]
    BY <1>4
  <2> HIDE DEF next, count
  <2>2. worker'[w] = r
    BY <1>0, <2>1
  <2>3. r.pc = "fetch" /\ r.cursor = next
    BY <1>0 DEF Request
  <2> QED
    BY <1>1, <1>4, <2>2, <2>3 DEF next
<1> QED
  BY <1>2, <1>3, <1>4 DEF NextKey

Matched(w) ==
  {e \in {[key |-> k, value |-> policy_map[k]] :
            k \in worker[w].cursor \cap DOMAIN policy_map} : e.value.rule_id = id(w)}

LEMMA FetchReads ==
  ASSUME TypeOK, NEW w \in Workers, Fetch(w)
  PROVE  /\ worker'[w].pc = "next" /\ worker[w].pc = "fetch"
         /\ worker'[w].cursor = worker[w].cursor
         /\ worker'[w].found = IF worker[w].found = {} THEN Matched(w) ELSE worker[w].found
<1> DEFINE found == IF worker[w].found = {} THEN Matched(w) ELSE worker[w].found
           r == [worker[w] EXCEPT !.pc = "next", !.found = found]
<1>0. worker \in [Workers -> Request] /\ worker[w] \in Request
  BY DEF TypeOK
<1>1. worker' = [worker EXCEPT ![w] = r] /\ worker[w].pc = "fetch"
  BY DEF Fetch, Matched
<1> HIDE DEF found
<1>2. worker'[w] = r
  BY <1>0, <1>1
<1>3. r.pc = "next" /\ r.cursor = worker[w].cursor /\ r.found = found
  BY <1>0 DEF Request
<1> QED
  BY <1>1, <1>2, <1>3 DEF found

(***************************************************************************)
(* What a fetch hits is the promised entry, and it hits it at its key.     *)
(***************************************************************************)
LEMMA FetchHits ==
  ASSUME AppliedInv, NEW w \in Workers, Listing(w), Reads(worker[w]),
         worker[w].pc = "fetch", NEW i, i = id(w)
  PROVE  /\ Matched(w) # {} => i \in DOMAIN promised /\ Matched(w) = {Entry(promised[i])}
         /\ i \in DOMAIN promised /\ ~hasWildcard(promised[i])
              /\ PolicyKey(promised[i]) \in worker[w].cursor => Matched(w) # {}
<1>0. TypeOK /\ Sourced /\ OwnIds /\ i \in Undisputed
  BY DEF AppliedInv, SavingInv, Running, Reads, id
<1>1. i \in Owned => Good(i)
  BY ReadsGood
<1>2. ASSUME NEW e \in Matched(w)
      PROVE  i \in DOMAIN promised /\ e = Entry(promised[i])
  <2>1. PICK k \in DOMAIN policy_map : /\ e = [key |-> k, value |-> policy_map[k]]
                                       /\ policy_map[k].rule_id = i
    BY <1>2 DEF Matched
  <2>2. PICK q \in Sent : /\ ~hasWildcard(q) /\ k = PolicyKey(q)
                          /\ policy_map[k] = PolicyValue(q)
    BY <1>0 DEF Sourced
  <2>3. q.rule_id = i
    BY <2>1, <2>2, EntryIds
  <2>4. i \in Owned
    BY <1>0, <2>2, <2>3 DEF Owned
  <2>5. i \in DOMAIN promised /\ Applied(promised[i])
    BY <1>1, <2>1, <2>4 DEF Good, Unapplied
  <2>6. PICK p : p = promised[i]
    OBVIOUS
  <2>7. p \in Sent /\ p.rule_id = i
    BY <1>0, <2>5, <2>6, PromisedKey
  <2>8. ~hasWildcard(p) /\ PolicyKey(p) = k
    BY <1>0, <2>2, <2>3, <2>7, UndisputedAt
  <2>9. policy_map[k] = PolicyValue(p)
    BY <2>5, <2>6, <2>8 DEF Applied
  <2> QED
    BY <2>1, <2>5, <2>6, <2>8, <2>9 DEF Entry
<1>3. ASSUME i \in DOMAIN promised, ~hasWildcard(promised[i]),
             PolicyKey(promised[i]) \in worker[w].cursor
      PROVE  Matched(w) # {}
  <2>1. PICK p : p = promised[i]
    OBVIOUS
  <2>2. p \in Sent /\ p.rule_id = i
    BY <1>0, <1>3, <2>1, PromisedKey
  <2>3. Applied(p)
    BY <1>0, <1>1, <1>3, <2>1, <2>2 DEF Owned, Good
  <2>4. PICK h : h = PolicyKey(p)
    OBVIOUS
  <2>5. h \in DOMAIN policy_map /\ policy_map[h].rule_id = i
    BY <1>3, <2>1, <2>2, <2>3, <2>4, EntryIds DEF Applied
  <2>6. [key |-> h, value |-> policy_map[h]] \in Matched(w)
    BY <1>3, <2>1, <2>4, <2>5 DEF Matched
  <2> QED
    BY <2>6
<1> QED
  BY <1>2, <1>3

(***************************************************************************)
(* A step of a request that reads keeps track of the list.                 *)
(***************************************************************************)
LEMMA WorkListing ==
  ASSUME ListInv, NEW w \in Workers, Work(w)
  PROVE  Listing(w)'
<1>0. PICK r, t, i : r = worker[w] /\ t = worker'[w] /\ i = id(w)
  OBVIOUS
<1>1. /\ TypeOK /\ OwnIds /\ OnPath(r) /\ Listing(w) /\ AppliedInv
      /\ LayoutInv
      /\ r \in Request /\ r.policy \in Sent /\ i = r.policy.rule_id
  BY <1>0, IdTypes DEF ListInv, AppliedInv, SavingInv, Running, id
<1>2. CASE Answer(w)
  BY <1>1, <1>2, AnswerType DEF Listing, Reads, Idle
<1>3. CASE ~Answer(w)
  <2>1. /\ Keeps(w) /\ r.pc # "idle"
        /\ UNCHANGED <<promised, open>>
    <3>1. Keeps(w) \/ worker'[w] = Idle
      BY <1>1, WorkerSteps
    <3>2. Keeps(w)
      BY <1>1, <1>3, EraseType, ForgetType, InsertType, ProbeWorkers, WriteType, SaveType,
         NextWorkers, FetchWorkers DEF Work, Replies
    <3>3. UNCHANGED <<promised, open>>
      BY <1>3 DEF Work, Erase, Forget, Insert, ProbeSlot, WriteSlot, Save, NextKey,
         Fetch, book
    <3> QED
      BY <1>0, <1>1, <3>2, <3>3, WorkerSteps
  <2>2. t.op = r.op /\ t.policy = r.policy /\ t.sure = r.sure
    BY <1>0, <2>1 DEF Keeps
  <2> SUFFICES ASSUME Reads(t)
               PROVE  FoundTrue(t, i)' /\ NotMissed(t, i)'
    <3>1. Reads(t) => Reads(r)
      BY <2>1, <2>2 DEF Reads
    <3>2. Reads(r) => /\ \A v \in Workers \ {w} : Mutates(worker[v]) =>
                            worker[v].policy.rule_id # i
                      /\ r.op = "GET" => i \notin open
      BY <1>0, <1>1 DEF Listing
    <3>3. \A v \in Workers \ {w} : worker'[v] = worker[v]
      BY <2>1 DEF Keeps
    <3>4. Reads(t) => FoundTrue(t, i)' /\ NotMissed(t, i)'
      OBVIOUS
    <3> QED
      BY <1>0, <1>1, <2>1, <2>2, <3>1, <3>2, <3>3, <3>4
         DEF Listing, FoundTrue, NotMissed, Ahead, Behind
  <2>3. /\ Reads(r) /\ FoundTrue(r, i) /\ NotMissed(r, i)
    BY <1>0, <1>1, <2>1, <2>2 DEF Reads, Listing
  <2>4. r.op \in {"GET", "DELETE"}
    BY <2>3 DEF Reads
  <2> DEFINE exact == i \in DOMAIN promised /\ ~hasWildcard(promised[i])
  <2>5. PICK h : h = PolicyKey(promised[i])
    OBVIOUS
  <2> SUFFICES /\ FoundTrue(t, i)
               /\ exact => /\ ~Told(t, "not_found")
                           /\ t.found = {} /\ t.pc \in {"next", "fetch"} =>
                                \A k \in t.cursor :
                                  Behind(k, h)' \/ (t.pc = "fetch" /\ k = h)
    BY <2>1, <2>5 DEF FoundTrue, NotMissed, Ahead, Behind
  <2>6. CASE Erase(w) \/ Forget(w)
    <3>1. r.op = "DELETE"
      BY <1>0, <1>1, <2>4, <2>6 DEF OnPath, Erase, Forget
    <3>2. Go(w, "forget") \/ Erased(w) \/ Reply(w, "error")
      BY <2>6 DEF Erase, Forget
    <3>3. t.found = r.found /\ (t.pc = "forget" \/ Told(t, "ok") \/ Told(t, "error"))
      BY <1>0, <1>1, <3>1, <3>2, GoGoes, ErasedKeeps, ReplyReplies
         DEF Goes, Replies, Told, PC, TypeOK
    <3> QED
      BY <2>3, <3>3 DEF FoundTrue, Told
  <2>7. CASE NextKey(w)
    <3>1. UNCHANGED layout /\ r.pc = "next"
      BY <1>0, <2>7 DEF NextKey, tables
    <3>2. t.found = r.found
      BY <1>0, <1>1, <2>7, NextReads
    <3>3. FoundTrue(t, i)
      BY <2>3, <3>2 DEF FoundTrue
    <3> SUFFICES ASSUME exact, r.found = {}
                 PROVE  /\ ~Told(t, "not_found")
                        /\ t.pc \in {"next", "fetch"} =>
                             \A k \in t.cursor :
                               Behind(k, h)' \/ (t.pc = "fetch" /\ k = h)
      <4>1. r.found # {} => ~Told(t, "not_found")
        BY <1>0, <1>1, <2>7, NextReads DEF Told
      <4> QED
        BY <3>2, <3>3, <4>1
    <3>5. h \in DOMAIN policy_map
      <4>1. promised[i] \in Sent /\ promised[i].rule_id = i
        BY <1>1, PromisedKey
      <4>2. i \in Owned
        BY <1>0, <1>1, <2>3, <4>1 DEF Owned, Reads
      <4>3. Good(i)
        BY <1>0, <1>1, <2>3, <3>1, <4>2, ReadsGood
      <4> QED
        BY <2>5, <4>3 DEF Good, Applied
    <3>6. \A k \in r.cursor : Behind(k, h)
      BY <2>3, <2>5, <3>1 DEF NotMissed, Ahead
    <3>7. /\ NextKeys(r.cursor) # {}
          /\ \A k \in NextKeys(r.cursor) : k = h \/ Behind(k, h)
      BY <1>1, <3>5, <3>6, NextBehind
    <3>8. \/ Told(t, "error")
          \/ t.pc = "fetch" /\ t.cursor = NextKeys(r.cursor)
      BY <1>0, <1>1, <2>7, <3>7, NextReads
    <3>9. \A k : Behind(k, h) => Behind(k, h)'
      BY <3>1 DEF Behind
    <3> QED
      BY <3>7, <3>8, <3>9 DEF Told
  <2>8. CASE Fetch(w)
    <3>1. UNCHANGED layout /\ r.pc = "fetch" /\ t.pc = "next" /\ t.cursor = r.cursor
          /\ t.found = IF r.found = {} THEN Matched(w) ELSE r.found
      BY <1>0, <1>1, <2>8, FetchReads DEF Fetch, tables
    <3>2. /\ Matched(w) # {} => i \in DOMAIN promised /\ Matched(w) = {Entry(promised[i])}
          /\ exact /\ PolicyKey(promised[i]) \in r.cursor => Matched(w) # {}
      BY <1>0, <1>1, <2>3, <3>1, FetchHits
    <3>3. FoundTrue(t, i)
      BY <2>3, <3>1, <3>2 DEF FoundTrue
    <3>4. ASSUME exact, t.found = {}
          PROVE  \A k \in t.cursor : Behind(k, h)
      BY <2>3, <2>5, <3>1, <3>2, <3>4 DEF NotMissed, Ahead
    <3>5. \A k : Behind(k, h) => Behind(k, h)'
      BY <3>1 DEF Behind
    <3> QED
      BY <3>1, <3>3, <3>4, <3>5 DEF Told
  <2>9. CASE ~(Erase(w) \/ Forget(w) \/ NextKey(w) \/ Fetch(w))
    BY <1>0, <1>1, <1>3, <2>4, <2>9 DEF Work, OnPath, Insert, ProbeSlot, WriteSlot, Save
  <2> QED
    BY <2>6, <2>7, <2>8, <2>9
<1> QED
  BY <1>2, <1>3

(***************************************************************************)
(* Every step keeps the order of iteration and what requests have listed.  *)
(***************************************************************************)
LEMMA LayoutSame ==
  ASSUME LayoutInv, UNCHANGED <<policy_map, layout>>
  PROVE  LayoutInv'
BY DEF LayoutInv, Ordered, Elements

LEMMA ArrivalLists ==
  ASSUME ListInv, Arrival
  PROVE  LayoutInv' /\ \A v \in Workers : Listing(v)'
<1>0. /\ TypeOK /\ OwnIds /\ LayoutInv
      /\ \A v \in Workers : Listing(v) /\ Applying(v)
  BY DEF ListInv, AppliedInv, SavingInv, Running
<1>1. PICK w \in Workers, op \in {"POST", "PUT", "GET", "DELETE"}, p \in Sent :
        Begin(w, op, p)
  BY DEF Arrival
<1>2. /\ UNCHANGED <<policy_map, layout, promised>>
      /\ open' = IF op = "GET" THEN open ELSE open \cup {p.rule_id}
  BY <1>1 DEF Begin, tables
<1>3. PICK t : t = worker'[w]
  OBVIOUS
<1>4. /\ t.pc = FirstStep(op, p) /\ t.op = op /\ t.policy = p
      /\ t.sure = (p.rule_id \notin open) /\ t.found = {} /\ t.cursor = {}
      /\ \A v \in Workers \ {w} : Compatible(t, worker[v])
      /\ \A v \in Workers : v # w =>
           /\ worker'[v].pc = worker[v].pc /\ worker'[v].op = worker[v].op
           /\ worker'[v].policy = worker[v].policy
           /\ worker'[v].status = worker[v].status
           /\ worker'[v].found = worker[v].found
           /\ worker'[v].cursor = worker[v].cursor
           /\ worker'[v].sure => worker[v].sure /\ (op = "GET" \/ id(v) # p.rule_id)
  BY <1>0, <1>1, <1>3, BeginWorkers
<1>5. LayoutInv'
  BY <1>0, <1>2, LayoutSame
<1>6. ASSUME NEW v \in Workers, v # w
      PROVE  Listing(v)'
  <2>1. PICK i : i = worker[v].policy.rule_id
    OBVIOUS
  <2>2. ASSUME Reads(worker'[v])
        PROVE  /\ \A u \in Workers \ {v} :
                    Mutates(worker'[u]) => worker'[u].policy.rule_id # i
               /\ SamePromise(i)
               /\ worker[v].op = "GET" /\ i \notin open => i \notin open'
    <3>1. Reads(worker[v]) /\ (op = "GET" \/ i # p.rule_id)
      BY <1>4, <1>6, <2>1, <2>2 DEF Reads, id
    <3>2. \A u \in Workers \ {v} : Mutates(worker[u]) => worker[u].policy.rule_id # i
      BY <1>0, <2>1, <3>1 DEF Listing
    <3>3. ASSUME NEW u \in Workers \ {v}, Mutates(worker'[u])
          PROVE  worker'[u].policy.rule_id # i
      BY <1>3, <1>4, <3>1, <3>2, <3>3 DEF Mutates
    <3> QED
      BY <1>2, <3>1, <3>3 DEF SamePromise
  <2> QED
    BY <1>0, <1>2, <1>4, <1>6, <2>1, <2>2, ListingElsewhere
<1>7. Listing(w)'
  <2>1. PICK i : i = p.rule_id
    OBVIOUS
  <2> SUFFICES ASSUME Reads(t)
               PROVE  /\ \A v \in Workers \ {w} :
                           Mutates(worker'[v]) => worker'[v].policy.rule_id # i
                      /\ t.op = "GET" => i \notin open'
                      /\ FoundTrue(t, i)'
                      /\ NotMissed(t, i)'
    BY <1>3, <1>4, <2>1 DEF Listing, FoundTrue, NotMissed, Ahead, Behind
  <2>2. op \in {"GET", "DELETE"} /\ i \notin open /\ t.pc = "next"
    BY <1>4, <2>1 DEF Reads, FirstStep
  <2>3. ASSUME NEW v \in Workers \ {w}, Mutates(worker'[v])
        PROVE  worker'[v].policy.rule_id # i
    BY <1>0, <1>4, <2>2, <2>3 DEF Applying, Mutates
  <2>4. FoundTrue(t, i)' /\ NotMissed(t, i)'
    BY <1>4, <2>2 DEF FoundTrue, NotMissed, Ahead, Told
  <2> QED
    BY <1>2, <1>4, <2>2, <2>3, <2>4
<1> QED
  BY <1>5, <1>6, <1>7

LEMMA WorkLists ==
  ASSUME ListInv, NEW w \in Workers, Work(w)
  PROVE  LayoutInv' /\ \A v \in Workers : Listing(v)'
<1>0. /\ TypeOK /\ OwnIds /\ LayoutInv /\ OnPath(worker[w]) /\ Applying(w)
      /\ \A v \in Workers : Listing(v)
  BY DEF ListInv, AppliedInv, SavingInv, Running
<1>1. /\ worker[w].pc # "idle"
      /\ \A v \in Workers : v # w => worker'[v] = worker[v]
      /\ worker'[w] = Idle \/ Keeps(w)
  BY <1>0, WorkerSteps
<1>2. \/ UNCHANGED <<policy_map, layout>>
      \/ /\ Mutates(worker[w])
         /\ \E q \in Sent : q.rule_id = id(w) /\ Writes(q)
  BY <1>0, WorkWrites
<1>3. LayoutInv'
  <2>1. CASE UNCHANGED <<policy_map, layout>>
    BY <1>0, <2>1, LayoutSame
  <2>2. CASE \E q \in Sent : Writes(q)
    BY <1>0, <2>2, RemoveLayout, PutLayout DEF Writes
  <2> QED
    BY <1>2, <2>1, <2>2
<1>4. ASSUME NEW v \in Workers, v # w
      PROVE  Listing(v)'
  <2>1. PICK i : i = worker[v].policy.rule_id
    OBVIOUS
  <2>2. worker'[v] = worker[v]
    BY <1>1, <1>4
  <2>3. ASSUME Reads(worker[v])
        PROVE  /\ \A u \in Workers \ {v} :
                    Mutates(worker'[u]) => worker'[u].policy.rule_id # i
               /\ SamePromise(i)
               /\ worker[v].op = "GET" /\ i \notin open => i \notin open'
               /\ \/ UNCHANGED layout
                  \/ \E q \in Sent : q.rule_id # i /\ Writes(q)
    <3>1. \A u \in Workers \ {v} : Mutates(worker[u]) => worker[u].policy.rule_id # i
      BY <1>0, <2>1, <2>3 DEF Listing
    <3>2. ASSUME NEW u \in Workers \ {v}, Mutates(worker'[u])
          PROVE  worker'[u].policy.rule_id # i
      BY <1>1, <3>1, <3>2 DEF Keeps, Mutates, Idle
    <3>3. CASE Mutates(worker[w])
      <4>1. id(w) # i
        BY <1>4, <3>1, <3>3 DEF id
      <4>2. SamePromise(i) /\ (i \in open <=> i \in open')
        BY <1>0, <4>1, WorkSame DEF SameAt, SamePromise
      <4> QED
        BY <1>2, <3>2, <4>1, <4>2
    <3>4. CASE worker[w].op = "GET"
      <4>1. UNCHANGED <<promised, open>>
        <5>1. CASE Answer(w)
          BY <3>4, <5>1 DEF Answer
        <5>2. CASE ~Answer(w)
          BY <5>2 DEF Work, Erase, Forget, Insert, ProbeSlot, WriteSlot, Save, NextKey,
             Fetch, book
        <5> QED
          BY <5>1, <5>2
      <4>2. UNCHANGED layout
        BY <1>2, <3>4 DEF Mutates
      <4> QED
        BY <3>2, <4>1, <4>2 DEF SamePromise
    <3> QED
      BY <1>1, <3>3, <3>4 DEF Mutates
  <2> QED
    BY <1>0, <2>1, <2>2, <2>3, ListingElsewhere
<1>5. Listing(w)'
  BY WorkListing
<1> QED
  BY <1>3, <1>4, <1>5

LEMMA LifecycleLists ==
  ASSUME ListInv, Lifecycle
  PROVE  LayoutInv' /\ \A v \in Workers : Listing(v)'
<1>0. LayoutInv /\ Quiet /\ TypeOK /\ Resting
  BY DEF ListInv, AppliedInv, SavingInv, Running
<1>1. \A v \in Workers : worker'[v] = Idle
  BY <1>0 DEF Lifecycle, Crash, StartFresh, StartPersisted, Restore, Serve, Quiet
<1>2. \A v \in Workers : Listing(v)'
  BY <1>1 DEF Listing, Reads, Idle
<1>3. LayoutInv'
  <2>1. CASE Crash
    <3>1. policy_map' = NoEntries /\ layout' = <<>>
      BY <2>1 DEF Crash
    <3> QED
      BY <3>1 DEF LayoutInv, Ordered, Elements, NoEntries
  <2>2. CASE StartFresh \/ StartPersisted \/ Serve
    BY <1>0, <2>2, LayoutSame DEF StartFresh, StartPersisted, Serve, tables
  <2>3. CASE Restore
    <3>1. PICK p \in left : \/ ~hasWildcard(p) /\ PutExact(p)
                            \/ UNCHANGED <<policy_map, layout>>
      BY <2>3 DEF Restore, tables
    <3>2. p \in Sent
      BY <1>0, <3>1 DEF TypeOK
    <3> QED
      BY <1>0, <3>1, <3>2, PutLayout, LayoutSame
  <2> QED
    BY <2>1, <2>2, <2>3 DEF Lifecycle
<1> QED
  BY <1>2, <1>3

LEMMA StepLists == ListInv /\ [Next]_vars => ListInv'
<1> SUFFICES ASSUME ListInv, [Next]_vars
             PROVE  LayoutInv' /\ \A v \in Workers : Listing(v)'
  BY StepApplied DEF ListInv
<1>1. CASE Arrival
  BY <1>1, ArrivalLists
<1>2. CASE \E w \in Workers : Work(w)
  BY <1>2, WorkLists
<1>3. CASE Lifecycle
  BY <1>3, LifecycleLists
<1>4. CASE UNCHANGED vars
  <2>1. UNCHANGED <<policy_map, layout, worker, promised, open>>
    BY <1>4 DEF vars
  <2>2. /\ TypeOK /\ OwnIds /\ LayoutInv
        /\ \A v \in Workers : Listing(v)
    BY DEF ListInv, AppliedInv, SavingInv, Running
  <2>3. LayoutInv'
    BY <2>1, <2>2, LayoutSame
  <2>4. ASSUME NEW v \in Workers
        PROVE  Listing(v)'
    <3>1. Reads(worker[v]) =>
            \A u \in Workers \ {v} : Mutates(worker[u]) =>
              worker[u].policy.rule_id # worker[v].policy.rule_id
      BY <2>2 DEF Listing
    <3> QED
      BY <2>1, <2>2, <3>1, ListingElsewhere DEF SamePromise
  <2> QED
    BY <2>3, <2>4
<1> QED
  BY <1>1, <1>2, <1>3, <1>4 DEF Next

LEMMA InitLists == Init => ListInv
<1> SUFFICES ASSUME Init
             PROVE  LayoutInv /\ \A w \in Workers : Listing(w)
  BY InitApplied DEF ListInv
<1>1. LayoutInv
  BY DEF Init, LayoutInv, Ordered, Elements, NoEntries
<1>2. \A w \in Workers : Listing(w)
  BY DEF Init, Listing, Reads, Idle
<1> QED
  BY <1>1, <1>2

(***************************************************************************)
(* A list made key by key while requests about other rules change the      *)
(* table under it tells the truth about an undisputed rule that nobody is  *)
(* changing: a confirmed exact policy is never missed, and what is found   *)
(* is what was confirmed, for any number of requests at once, any table    *)
(* and any way the keys fall into buckets (GetPolicy and DeletePolicy of   *)
(* policy.go over ListPolicies).  No wildcard policy can spoil it, so      *)
(* clients need not change those one at a time.                            *)
(***************************************************************************)
THEOREM ListsAreTrue == Spec => []ListsTellTruth
<1>1. ListInv => ListsTellTruth
  <2> SUFFICES ASSUME ListInv, NEW w \in Workers, NEW r, r = worker[w],
                      NEW i, i = id(w),
                      r.pc = "answer", r.op \in {"GET", "DELETE"}, r.sure,
                      i \in Undisputed
               PROVE  /\ r.status = "not_found" /\ i \in DOMAIN promised =>
                           hasWildcard(promised[i])
                      /\ r.found # {} =>
                           i \in DOMAIN promised /\ r.found = {Entry(promised[i])}
    BY DEF ListsTellTruth, Entry
  <2>1. FoundTrue(r, i) /\ NotMissed(r, i)
    BY DEF ListInv, Listing, Reads, id
  <2> QED
    BY <2>1 DEF FoundTrue, NotMissed, Told
<1>2. ListInv /\ [Next]_vars => ListInv'
  BY StepLists
<1> QED
  BY <1>1, <1>2, InitLists, PTL DEF Spec
=============================================================================
