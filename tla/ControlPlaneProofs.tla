------------------------- MODULE ControlPlaneProofs -------------------------
(***************************************************************************)
(* Theorems about ControlPlane, for every number of requests at once,      *)
(* every set of policies and databases and every size of the tables.       *)
(***************************************************************************)
EXTENDS ControlPlane, SequenceTheorems, FiniteSetTheorems, TLAPS

-----------------------------------------------------------------------------
(***************************************************************************)
(* Maps.                                                                   *)
(***************************************************************************)
LEMMA PutType ==
  ASSUME NEW map, NEW K, NEW V, IsMap(map, K, V), NEW k \in K, NEW v \in V
  PROVE  IsMap(Put(map, k, v), K, V)
BY DEF IsMap, Put

LEMMA WithoutType ==
  ASSUME NEW map, NEW K, NEW V, IsMap(map, K, V), NEW k
  PROVE  IsMap(Without(map, k), K, V)
BY DEF IsMap, Without

LEMMA EmptyType ==
  ASSUME NEW K, NEW V
  PROVE  IsMap(NoEntries, K, V)
BY DEF IsMap, NoEntries

LEMMA PutAt ==
  ASSUME NEW map, NEW k, NEW v
  PROVE  /\ DOMAIN Put(map, k, v) = DOMAIN map \cup {k}
         /\ Put(map, k, v)[k] = v
         /\ \A x \in DOMAIN map : x # k => Put(map, k, v)[x] = map[x]
BY DEF Put

LEMMA WithoutAt ==
  ASSUME NEW map, NEW k
  PROVE  /\ DOMAIN Without(map, k) = DOMAIN map \ {k}
         /\ \A x \in DOMAIN map : x # k => Without(map, k)[x] = map[x]
BY DEF Without

(***************************************************************************)
(* The order of iteration stays a sequence of keys.                        *)
(***************************************************************************)
LEMMA DroppedType ==
  ASSUME NEW K, layout \in Seq(K), NEW k
  PROVE  Dropped(k) \in Seq(K)
<1> DEFINE at == {i \in DOMAIN layout : layout[i] = k}
<1>1. CASE at = {}
  BY <1>1 DEF Dropped
<1>2. CASE at # {}
  <2>1. PICK i \in at : i = CHOOSE j \in at : TRUE
    BY <1>2
  <2>2. i \in 1 .. Len(layout) /\ Len(layout) \in Nat
    BY <2>1, LenProperties
  <2>3. SubSeq(layout, 1, i - 1) \in Seq(K)
    BY <2>2, SubSeqProperties
  <2>4. SubSeq(layout, i + 1, Len(layout)) \in Seq(K)
    BY <2>2, SubSeqProperties
  <2>5. Dropped(k) = SubSeq(layout, 1, i - 1) \o SubSeq(layout, i + 1, Len(layout))
    BY <1>2, <2>1 DEF Dropped, RemoveAt
  <2> QED
    BY <2>3, <2>4, <2>5, ConcatProperties
<1> QED
  BY <1>1, <1>2

LEMMA PlacedType ==
  ASSUME NEW K, layout \in Seq(K), NEW k \in K
  PROVE  Placed(k) \in Seq(K)
<1> DEFINE rest == Dropped(k)
           before == {i \in DOMAIN rest : Bucket[rest[i]] < Bucket[k]}
           n == Cardinality(before) + 1
<1>1. rest \in Seq(K)
  BY DroppedType
<1>2. DOMAIN rest = 1 .. Len(rest) /\ Len(rest) \in Nat
  BY <1>1, LenProperties
<1>3. before \subseteq 1 .. Len(rest)
  BY <1>2
<1> DEFINE all == 1 .. Len(rest)
<1>10. IsFiniteSet(all) /\ Cardinality(all) = Len(rest)
  <2>1. 1 \in Int /\ Len(rest) \in Int
    BY <1>2
  <2>2. IsFiniteSet(all) /\ Cardinality(all) = IF 1 > Len(rest) THEN 0 ELSE Len(rest) - 1 + 1
    BY <2>1, FS_Interval
  <2> QED
    BY <1>2, <2>2
<1>4. IsFiniteSet(before) /\ Cardinality(before) <= Len(rest)
  <2>1. before \in SUBSET all
    BY <1>3
  <2> QED
    BY <1>10, <2>1, FS_Subset
<1>5. n \in 1 .. (Len(rest) + 1)
  BY <1>2, <1>4, FS_CardinalityType
<1> HIDE DEF n, rest
<1>6. SubSeq(rest, 1, n - 1) \in Seq(K)
  BY <1>1, <1>2, <1>5, SubSeqProperties
<1>7. SubSeq(rest, n, Len(rest)) \in Seq(K)
  BY <1>1, <1>2, <1>5, SubSeqProperties
<1>8. <<k>> \in Seq(K)
  OBVIOUS
<1>9. Placed(k) = SubSeq(rest, 1, n - 1) \o <<k>> \o SubSeq(rest, n, Len(rest))
  BY DEF Placed, InsertAt, n, rest
<1> QED
  BY <1>6, <1>7, <1>8, <1>9, ConcatProperties

-----------------------------------------------------------------------------
(***************************************************************************)
(* What a step of a request does to the workers: it keeps what is asked,   *)
(* and leaves the others alone.                                            *)
(***************************************************************************)
Keeps(w) ==
  /\ worker' \in [Workers -> Request]
  /\ \A v \in Workers : v # w => worker'[v] = worker[v]
  /\ worker'[w].op = worker[w].op
  /\ worker'[w].policy = worker[w].policy
  /\ worker'[w].sure = worker[w].sure

Goes(w, pc) ==
  /\ Keeps(w)
  /\ worker'[w] = [worker[w] EXCEPT !.pc = pc]
  /\ worker'[w].pc = pc
  /\ worker'[w].slot = worker[w].slot
  /\ worker'[w].found = worker[w].found
  /\ worker'[w].status = worker[w].status

Replies(w, status) ==
  /\ Keeps(w)
  /\ worker'[w].pc = "answer"
  /\ worker'[w].status = status
  /\ worker'[w].found = worker[w].found

LEMMA GoGoes ==
  ASSUME worker \in [Workers -> Request], NEW w \in Workers, NEW pc \in PC, Go(w, pc)
  PROVE  Goes(w, pc)
<1>1. worker' = [worker EXCEPT ![w] = [worker[w] EXCEPT !.pc = pc]]
  BY DEF Go
<1>2. worker[w] \in Request
  OBVIOUS
<1>3. [worker[w] EXCEPT !.pc = pc] \in Request
  BY <1>2 DEF Request
<1>4. worker'[w] = [worker[w] EXCEPT !.pc = pc]
  BY <1>1
<1>5. worker' \in [Workers -> Request]
  BY <1>1, <1>3
<1>6. \A v \in Workers : v # w => worker'[v] = worker[v]
  BY <1>1
<1> QED
  BY <1>2, <1>4, <1>5, <1>6 DEF Goes, Keeps, Request

LEMMA ReplyReplies ==
  ASSUME worker \in [Workers -> Request], NEW w \in Workers,
         NEW status \in {"ok", "not_found", "error"}, Reply(w, status)
  PROVE  Replies(w, status)
<1> DEFINE r == [worker[w] EXCEPT !.pc = "answer", !.status = status]
<1>1. worker' = [worker EXCEPT ![w] = r]
  BY DEF Reply
<1>2. worker[w] \in Request
  OBVIOUS
<1>3. r \in Request
  BY <1>2 DEF Request, PC
<1>4. worker'[w] = r
  BY <1>1
<1>5. worker' \in [Workers -> Request]
  BY <1>1, <1>3
<1>6. \A v \in Workers : v # w => worker'[v] = worker[v]
  BY <1>1
<1> QED
  BY <1>2, <1>4, <1>5, <1>6 DEF Replies, Keeps, Request

LEMMA AddedKeeps ==
  ASSUME worker \in [Workers -> Request], NEW w \in Workers, Added(w)
  PROVE  /\ Keeps(w)
         /\ persistent => worker'[w].pc = "save"
         /\ ~persistent => Replies(w, "ok")
BY GoGoes, ReplyReplies DEF Added, Goes, Replies, PC

LEMMA ErasedKeeps ==
  ASSUME worker \in [Workers -> Request], NEW w \in Workers, Erased(w)
  PROVE  /\ Keeps(w)
         /\ worker[w].op = "PUT" =>
              worker'[w].pc = Adding(worker[w].policy) /\ worker'[w].slot = worker[w].slot
         /\ worker[w].op # "PUT" => Replies(w, "ok")
<1>1. Adding(worker[w].policy) \in PC
  BY DEF Adding, PC
<1> QED
  BY <1>1, GoGoes, ReplyReplies DEF Erased, Goes, Replies

-----------------------------------------------------------------------------
(***************************************************************************)
(* Policies, keys and entries.                                             *)
(***************************************************************************)
LEMMA SentTypes ==
  ASSUME NEW p \in Sent
  PROVE  /\ p.rule_id \in RuleIds /\ p.rule_id \in Nat \ {0}
         /\ PolicyKey(p) \in Keys /\ PolicyValue(p) \in Values
         /\ WildcardEntry(p) \in Entries /\ WildcardEntry(p).rule_id = p.rule_id
BY PolicyAssumption DEF RuleIds, Keys, Values, Entries, WildcardEntry

LEMMA IdTypes ==
  ASSUME TypeOK, NEW w \in Workers
  PROVE  /\ worker[w] \in Request /\ worker[w].policy \in Sent
         /\ id(w) \in RuleIds /\ id(w) \in Nat \ {0}
<1>1. worker[w] \in Request
  BY DEF TypeOK
<1>2. worker[w].policy \in Sent
  BY <1>1 DEF Request
<1> QED
  BY <1>1, <1>2, SentTypes DEF id

LEMMA IdleType == Idle \in Request
BY DEF Idle, Request, PC, Sent

LEMMA PutExactType ==
  ASSUME TypeOK, NEW p \in Sent, PutExact(p)
  PROVE  IsMap(policy_map', Keys, Values) /\ layout' \in Seq(Keys)
<1>1. PolicyKey(p) \in Keys /\ PolicyValue(p) \in Values
  BY SentTypes
<1>2. layout' \in Seq(Keys)
  BY <1>1, PlacedType DEF PutExact, TypeOK
<1>3. IsMap(policy_map', Keys, Values)
  BY <1>1, PutType DEF PutExact, TypeOK
<1> QED
  BY <1>2, <1>3

LEMMA InitType == Init => TypeOK
<1> SUFFICES ASSUME Init PROVE TypeOK
  OBVIOUS
<1>1. IsMap(rows, RuleIds, Sent)
  <2>1. CASE rows = NoEntries
    BY <2>1, EmptyType
  <2>2. CASE rows \in Databases
    <3>1. rows \in [DOMAIN rows -> Sent] /\ \A i \in DOMAIN rows : rows[i].rule_id = i
      BY <2>2, PolicyAssumption
    <3>2. DOMAIN rows \subseteq RuleIds
      BY <3>1, SentTypes
    <3> QED
      BY <3>1, <3>2 DEF IsMap
  <2> QED
    BY <2>1, <2>2 DEF Init
<1>2. IsMap(policy_map, Keys, Values)
  BY EmptyType DEF Init
<1>3. layout \in Seq(Keys)
  BY DEF Init
<1>4. wildcard_policy_map \in [Slots -> Entries]
  BY DEF Init, Entries
<1>5. worker \in [Workers -> Request]
  BY IdleType DEF Init
<1> QED
  BY <1>1, <1>2, <1>3, <1>4, <1>5 DEF Init, TypeOK

LEMMA BeginWorkers ==
  ASSUME TypeOK, NEW w \in Workers, NEW op \in {"POST", "PUT", "GET", "DELETE"},
         NEW p \in Sent, Begin(w, op, p)
  PROVE  /\ worker' \in [Workers -> Request]
         /\ \A v \in Workers : v # w =>
              /\ worker'[v].pc = worker[v].pc /\ worker'[v].op = worker[v].op
              /\ worker'[v].policy = worker[v].policy
              /\ worker'[v].slot = worker[v].slot
              /\ worker'[v].found = worker[v].found
              /\ worker'[v].cursor = worker[v].cursor
              /\ worker'[v].status = worker[v].status
              /\ worker'[v].sure => worker[v].sure /\ (op = "GET" \/ id(v) # p.rule_id)
         /\ worker'[w].pc = FirstStep(op, p) /\ worker'[w].op = op
         /\ worker'[w].policy = p
         /\ worker'[w].sure = (p.rule_id \notin open)
         /\ worker'[w].slot = 0 /\ worker'[w].found = {} /\ worker'[w].status = "none"
         /\ worker'[w].cursor = {}
         /\ FirstStep(op, p) \in PC \ {"idle"}
         /\ \A v \in Workers \ {w} : Compatible(worker'[w], worker[v])
<1> DEFINE r == [Idle EXCEPT !.pc = FirstStep(op, p), !.op = op, !.policy = p,
                             !.sure = p.rule_id \notin open]
           s(v) == [worker[v] EXCEPT !.sure = @ /\ ~(Mutates(r) /\ id(v) = p.rule_id)]
<1>1. FirstStep(op, p) \in PC \ {"idle"}
  BY DEF FirstStep, Adding, PC
<1>2. r \in Request
  BY <1>1, IdleType DEF Request
<1>3. \A v \in Workers : s(v) \in Request
  BY ZenonT(30) DEF Request, TypeOK
<1>4. worker' = [v \in Workers |-> IF v = w THEN r ELSE s(v)]
  BY DEF Begin
<1>5. \A v \in Workers \ {w} : Compatible(r, worker[v])
  BY DEF Begin
<1>6. worker' \in [Workers -> Request]
  BY <1>2, <1>3, <1>4
<1>7. worker'[w] = r /\ \A v \in Workers : v # w => worker'[v] = s(v)
  BY <1>4
<1>8. /\ r.pc = FirstStep(op, p) /\ r.op = op /\ r.policy = p
      /\ r.sure = (p.rule_id \notin open)
      /\ r.slot = 0 /\ r.found = {} /\ r.status = "none" /\ r.cursor = {}
      /\ Mutates(r) <=> op # "GET"
  BY <1>1 DEF Idle, Mutates
<1>9. \A v \in Workers :
        /\ s(v).pc = worker[v].pc /\ s(v).op = worker[v].op
        /\ s(v).policy = worker[v].policy
        /\ s(v).slot = worker[v].slot
        /\ s(v).found = worker[v].found
        /\ s(v).cursor = worker[v].cursor
        /\ s(v).status = worker[v].status
        /\ s(v).sure => worker[v].sure /\ ~(Mutates(r) /\ id(v) = p.rule_id)
  <2> HIDE DEF r
  <2> QED
    BY DEF Request, TypeOK
<1> HIDE DEF r, s
<1> QED
  BY <1>1, <1>5, <1>6, <1>7, <1>8, <1>9

(***************************************************************************)
(* The steps of a request keep the types.                                  *)
(***************************************************************************)
LEMMA BeginType ==
  ASSUME TypeOK, NEW w \in Workers, NEW op \in {"POST", "PUT", "GET", "DELETE"},
         NEW p \in Sent, Begin(w, op, p)
  PROVE  TypeOK'
<1>1. worker' \in [Workers -> Request]
  BY BeginWorkers
<1>2. open' \subseteq RuleIds /\ requests' \in Nat
  BY SentTypes DEF Begin, TypeOK
<1> QED
  BY <1>1, <1>2 DEF Begin, TypeOK, tables, store

LEMMA EraseType ==
  ASSUME TypeOK, NEW w \in Workers, Erase(w)
  PROVE  TypeOK' /\ Keeps(w)
<1>0. worker \in [Workers -> Request]
  BY DEF TypeOK
<1>1. IsMap(policy_map', Keys, Values)
  BY WithoutType DEF Erase, TypeOK
<1>2. layout' \in Seq(Keys)
  BY DroppedType DEF Erase, TypeOK
<1>3. \/ Go(w, "forget") \/ Erased(w) \/ Reply(w, "error")
  BY DEF Erase
<1>4. Keeps(w)
  <2>1. CASE Go(w, "forget")
    BY <1>0, <2>1, GoGoes DEF PC, Goes
  <2>2. CASE Erased(w)
    BY <1>0, <2>2, ErasedKeeps
  <2>3. CASE Reply(w, "error")
    BY <1>0, <2>3, ReplyReplies DEF Replies
  <2> QED
    BY <1>3, <2>1, <2>2, <2>3
<1> QED
  BY <1>1, <1>2, <1>4 DEF Erase, TypeOK, store, book, life, Keeps

LEMMA ForgetType ==
  ASSUME TypeOK, NEW w \in Workers, Forget(w)
  PROVE  TypeOK' /\ Keeps(w)
<1>0. worker \in [Workers -> Request]
  BY DEF TypeOK
<1>1. IsMap(rows', RuleIds, Sent)
  BY WithoutType DEF Forget, TypeOK
<1>2. unsaved' \subseteq RuleIds
  BY IdTypes DEF Forget, TypeOK
<1>3. Keeps(w)
  BY <1>0, ErasedKeeps DEF Forget
<1> QED
  BY <1>1, <1>2, <1>3 DEF Forget, TypeOK, tables, book, life, Keeps

LEMMA InsertType ==
  ASSUME TypeOK, NEW w \in Workers, Insert(w)
  PROVE  TypeOK' /\ Keeps(w)
<1>0. worker \in [Workers -> Request]
  BY DEF TypeOK
<1>1. IsMap(policy_map', Keys, Values) /\ layout' \in Seq(Keys)
  BY IdTypes, PutExactType DEF Insert, TypeOK
<1>2. Added(w) \/ Reply(w, "error")
  BY DEF Insert
<1>3. Keeps(w)
  BY <1>0, <1>2, AddedKeeps, ReplyReplies DEF Replies
<1> QED
  BY <1>1, <1>3 DEF Insert, TypeOK, store, book, life, Keeps

LEMMA ProbeWorkers ==
  ASSUME TypeOK, NEW w \in Workers, ProbeSlot(w)
  PROVE  /\ Keeps(w)
         /\ LET i == worker[w].slot
            IN  \/ /\ i \in Slots /\ wildcard_policy_map[i].rule_id \in {0, id(w)}
                   /\ worker'[w].pc = "write" /\ worker'[w].slot = i
                \/ /\ i \in Slots /\ wildcard_policy_map[i].rule_id \notin {0, id(w)}
                   /\ worker'[w].pc = "slot" /\ worker'[w].slot = i + 1
                \/ Replies(w, "error")
<1> DEFINE i == worker[w].slot
<1>0. worker \in [Workers -> Request] /\ worker[w] \in Request /\ worker[w].pc = "slot"
  BY DEF TypeOK, ProbeSlot
<1>1. CASE i \in Slots /\ wildcard_policy_map[i].rule_id \in {0, id(w)} /\ Go(w, "write")
  BY <1>0, <1>1, GoGoes DEF Goes, PC
<1>2. CASE /\ i \in Slots /\ wildcard_policy_map[i].rule_id \notin {0, id(w)}
           /\ worker' = [worker EXCEPT ![w].slot = i + 1]
  <2> DEFINE r == [worker[w] EXCEPT !.slot = i + 1]
  <2>1. r \in Request
    BY <1>0 DEF Request
  <2>2. worker' = [worker EXCEPT ![w] = r]
    BY <1>2
  <2>3. worker' \in [Workers -> Request] /\ worker'[w] = r
        /\ \A v \in Workers : v # w => worker'[v] = worker[v]
    BY <1>0, <2>1, <2>2
  <2>4. r.pc = "slot" /\ r.slot = i + 1 /\ r.op = worker[w].op
        /\ r.policy = worker[w].policy /\ r.sure = worker[w].sure
    BY <1>0 DEF Request
  <2> QED
    BY <1>2, <2>3, <2>4 DEF Keeps
<1>3. CASE Reply(w, "error")
  BY <1>0, <1>3, ReplyReplies DEF Replies
<1> QED
  BY <1>1, <1>2, <1>3 DEF ProbeSlot

LEMMA ProbeType ==
  ASSUME TypeOK, NEW w \in Workers, ProbeSlot(w)
  PROVE  TypeOK'
BY ProbeWorkers DEF ProbeSlot, TypeOK, Keeps, tables, store, book, life

LEMMA WriteType ==
  ASSUME TypeOK, NEW w \in Workers, WriteSlot(w)
  PROVE  TypeOK' /\ Keeps(w)
<1>1. wildcard_policy_map' \in [Slots -> Entries]
  BY IdTypes, SentTypes DEF WriteSlot, TypeOK
<1>2. Keeps(w)
  BY AddedKeeps DEF WriteSlot, TypeOK
<1> QED
  BY <1>1, <1>2 DEF WriteSlot, TypeOK, store, book, life, Keeps

LEMMA SaveType ==
  ASSUME TypeOK, NEW w \in Workers, Save(w)
  PROVE  TypeOK' /\ Replies(w, "ok")
<1>1. IsMap(rows', RuleIds, Sent)
  BY IdTypes, PutType DEF Save, TypeOK
<1>2. unsaved' \subseteq RuleIds
  BY IdTypes DEF Save, TypeOK
<1>3. Replies(w, "ok")
  BY ReplyReplies DEF Save, TypeOK
<1> QED
  BY <1>1, <1>2, <1>3 DEF Save, TypeOK, tables, book, life, Replies, Keeps

LEMMA ListedWorkers ==
  ASSUME worker \in [Workers -> Request], NEW w \in Workers, Listed(w)
  PROVE  /\ Keeps(w)
         /\ \/ Replies(w, "not_found")
            \/ worker[w].op = "DELETE" /\ worker'[w].pc = "erase"
            \/ worker[w].op # "DELETE" /\ Replies(w, "ok")
BY GoGoes, ReplyReplies DEF Listed, Goes, Replies, PC

LEMMA NextWorkers ==
  ASSUME TypeOK, NEW w \in Workers, NextKey(w)
  PROVE  /\ Keeps(w)
         /\ \/ Replies(w, "error") \/ Replies(w, "not_found")
            \/ worker[w].op = "DELETE" /\ worker'[w].pc = "erase"
            \/ worker[w].op # "DELETE" /\ Replies(w, "ok")
            \/ worker'[w].pc = "fetch"
<1> DEFINE next == NextKeys(worker[w].cursor)
           count == worker[w].count + 1
           r == [worker[w] EXCEPT !.pc = "fetch", !.cursor = next,
                                  !.count = count]
<1>0. worker \in [Workers -> Request] /\ worker[w] \in Request
  BY DEF TypeOK
<1>1. CASE Reply(w, "error")
  BY <1>0, <1>1, ReplyReplies DEF Replies
<1>2. CASE Listed(w)
  BY <1>0, <1>2, ListedWorkers
<1>3. CASE worker' = [worker EXCEPT ![w].pc = "fetch", ![w].cursor = next,
                                    ![w].count = @ + 1]
  <2>1. next \subseteq Keys
    <3>1. layout \in [1 .. Len(layout) -> Keys] /\ DOMAIN layout = 1 .. Len(layout)
      BY LenProperties DEF TypeOK
    <3> QED
      BY <3>1 DEF NextKeys
  <2>2. next \in SUBSET Keys /\ count \in Nat
    BY <1>0, <2>1 DEF Request
  <2>3. worker' = [worker EXCEPT ![w] = r]
    BY <1>3
  <2> HIDE DEF next, count
  <2>4. r \in Request
    BY <1>0, <2>2 DEF Request, PC
  <2>5. worker' \in [Workers -> Request] /\ worker'[w] = r
        /\ \A v \in Workers : v # w => worker'[v] = worker[v]
    BY <1>0, <2>4, <2>3
  <2>6. r.pc = "fetch" /\ r.op = worker[w].op
        /\ r.policy = worker[w].policy /\ r.sure = worker[w].sure
    BY <1>0 DEF Request
  <2> QED
    BY <2>5, <2>6 DEF Keeps
<1> QED
  BY <1>1, <1>2, <1>3 DEF NextKey

LEMMA NextType ==
  ASSUME TypeOK, NEW w \in Workers, NextKey(w)
  PROVE  TypeOK'
BY NextWorkers DEF NextKey, TypeOK, Keeps, tables, store, book, life

LEMMA FetchWorkers ==
  ASSUME TypeOK, NEW w \in Workers, Fetch(w)
  PROVE  Keeps(w) /\ worker'[w].pc = "next"
<1> DEFINE entries == {[key |-> k, value |-> policy_map[k]] :
                         k \in worker[w].cursor \cap DOMAIN policy_map}
           hits == {e \in entries : e.value.rule_id = id(w)}
           found == IF worker[w].found = {} THEN hits ELSE worker[w].found
           r == [worker[w] EXCEPT !.pc = "next", !.found = found]
<1>0. worker \in [Workers -> Request] /\ worker[w] \in Request
  BY DEF TypeOK
<1>1. found \in SUBSET [key : Keys, value : Values]
  <2>1. hits \subseteq [key : Keys, value : Values]
    BY DEF TypeOK, IsMap
  <2>2. worker[w].found \in SUBSET [key : Keys, value : Values]
    BY <1>0 DEF Request
  <2> QED
    BY <2>1, <2>2
<1>2. worker' = [worker EXCEPT ![w] = r]
  BY DEF Fetch
<1> HIDE DEF found
<1>3. r \in Request
  BY <1>0, <1>1 DEF Request, PC
<1>4. worker' \in [Workers -> Request] /\ worker'[w] = r
      /\ \A v \in Workers : v # w => worker'[v] = worker[v]
  BY <1>0, <1>2, <1>3
<1>5. r.pc = "next" /\ r.op = worker[w].op
      /\ r.policy = worker[w].policy /\ r.sure = worker[w].sure
  BY <1>0 DEF Request
<1> QED
  BY <1>4, <1>5 DEF Keeps

LEMMA FetchType ==
  ASSUME TypeOK, NEW w \in Workers, Fetch(w)
  PROVE  TypeOK'
BY FetchWorkers DEF Fetch, TypeOK, Keeps, tables, store, book, life

LEMMA AnswerType ==
  ASSUME TypeOK, NEW w \in Workers, Answer(w)
  PROVE  /\ TypeOK'
         /\ worker'[w] = Idle
         /\ \A v \in Workers : v # w => worker'[v] = worker[v]
<1> DEFINE r == worker[w]
<1>0. r \in Request /\ r.policy \in Sent /\ id(w) \in RuleIds
  BY IdTypes
<1>1. IsMap(promised', RuleIds, Sent)
  <2>1. CASE r.op \in {"POST", "PUT"} /\ r.status = "ok"
    <3>1. promised' = Put(promised, id(w), r.policy)
      BY <2>1 DEF Answer
    <3> QED
      BY <1>0, <3>1, PutType DEF TypeOK
  <2>2. CASE r.op = "DELETE" /\ r.status = "ok"
    <3>1. promised' = Without(promised, id(w))
      BY <2>2 DEF Answer
    <3> QED
      BY <3>1, WithoutType DEF TypeOK
  <2>3. CASE ~(r.op \in {"POST", "PUT"} /\ r.status = "ok")
             /\ ~(r.op = "DELETE" /\ r.status = "ok")
    BY <2>3 DEF Answer, TypeOK
  <2> QED
    BY <2>1, <2>2, <2>3
<1>2. open' \subseteq RuleIds
  BY DEF Answer, TypeOK
<1>3. worker' = [worker EXCEPT ![w] = Idle]
  BY DEF Answer
<1>4. worker' \in [Workers -> Request]
  BY <1>3, IdleType DEF TypeOK
<1> QED
  BY <1>1, <1>2, <1>3, <1>4 DEF Answer, TypeOK, tables, store, life

(***************************************************************************)
(* So do crashes and restarts.                                             *)
(***************************************************************************)
LEMMA CrashType ==
  ASSUME TypeOK, Crash
  PROVE  TypeOK'
<1>1. IsMap(policy_map', Keys, Values) /\ layout' \in Seq(Keys)
  BY EmptyType DEF Crash
<1>2. wildcard_policy_map' \in [Slots -> Entries]
  BY DEF Crash, Entries
<1>3. worker' \in [Workers -> Request]
  BY IdleType DEF Crash
<1> QED
  BY <1>1, <1>2, <1>3 DEF Crash, TypeOK, store

LEMMA StartFreshType ==
  ASSUME TypeOK, StartFresh
  PROVE  TypeOK'
<1>0. DefaultPolicy \in Sent
  BY DEF Sent
<1>1. wildcard_policy_map' \in [Slots -> Entries]
  BY <1>0, SentTypes DEF StartFresh, TypeOK
<1>2. IsMap(promised', RuleIds, Sent) /\ open' \subseteq RuleIds
  BY <1>0, SentTypes, PutType DEF StartFresh, TypeOK
<1> QED
  BY <1>1, <1>2 DEF StartFresh, TypeOK, store

LEMMA RestoreType ==
  ASSUME TypeOK, Restore
  PROVE  TypeOK'
<1>1. PICK p \in left :
        /\ left' = left \ {p}
        /\ \/ /\ PutExact(p)
              /\ UNCHANGED <<wildcard_policy_map, open>>
           \/ /\ \E i \in Slots :
                   wildcard_policy_map' =
                     [wildcard_policy_map EXCEPT ![i] = WildcardEntry(p)]
              /\ UNCHANGED <<policy_map, layout, open>>
           \/ /\ open' = open \cup {p.rule_id}
              /\ UNCHANGED tables
  BY DEF Restore
<1>2. p \in Sent /\ left' \subseteq Sent
  BY <1>1 DEF TypeOK
<1>3. IsMap(policy_map', Keys, Values) /\ layout' \in Seq(Keys)
  BY <1>1, <1>2, PutExactType DEF TypeOK, tables
<1>4. wildcard_policy_map' \in [Slots -> Entries]
  BY <1>1, <1>2, SentTypes DEF TypeOK, PutExact, tables
<1>5. open' \subseteq RuleIds
  BY <1>1, <1>2, SentTypes DEF TypeOK, PutExact
<1> QED
  BY <1>2, <1>3, <1>4, <1>5 DEF Restore, TypeOK, store

LEMMA StepType == TypeOK /\ [Next]_vars => TypeOK'
<1> SUFFICES ASSUME TypeOK, [Next]_vars PROVE TypeOK'
  OBVIOUS
<1>1. CASE \E w \in Workers, op \in {"POST", "PUT", "GET", "DELETE"}, p \in Sent :
             Begin(w, op, p)
  BY <1>1, BeginType
<1>2. CASE \E w \in Workers : Work(w)
  BY <1>2, EraseType, ForgetType, InsertType, ProbeType, WriteType, SaveType,
     NextType, FetchType, AnswerType DEF Work
<1>3. CASE Crash
  BY <1>3, CrashType
<1>4. CASE StartFresh
  BY <1>4, StartFreshType
<1>5. CASE StartPersisted
  <2>1. left' \subseteq Sent
    BY <1>5 DEF StartPersisted, TypeOK, IsMap
  <2> QED
    BY <1>5, <2>1 DEF StartPersisted, TypeOK, tables, store, book
<1>6. CASE Restore
  BY <1>6, RestoreType
<1>7. CASE Serve
  BY <1>7 DEF Serve, TypeOK, tables, store, book
<1>8. CASE UNCHANGED vars
  BY <1>8 DEF vars, TypeOK
<1> QED
  BY <1>1, <1>2, <1>3, <1>4, <1>5, <1>6, <1>7, <1>8 DEF Next, Arrival, Lifecycle

(***************************************************************************)
(* Tables, database, requests and the order of iteration keep their types, *)
(* for every set of policies and databases (all of the control plane).     *)
(***************************************************************************)
THEOREM ControlPlaneTyped == Spec => []TypeOK
BY InitType, StepType, PTL DEF Spec

-----------------------------------------------------------------------------
(***************************************************************************)
(* Requests that may run together, and an agent that does not serve and    *)
(* has none.                                                               *)
(***************************************************************************)
Coexist == \A v, w \in Workers : v # w => Compatible(worker[v], worker[w])
Quiet   == agent # "serving" => \A w \in Workers : worker[w] = Idle

Running == TypeOK /\ Coexist /\ Quiet

LEMMA WorkerSteps ==
  ASSUME TypeOK, NEW w \in Workers, Work(w)
  PROVE  /\ worker[w].pc # "idle"
         /\ Keeps(w) \/ worker'[w] = Idle
         /\ \A v \in Workers : v # w => worker'[v] = worker[v]
         /\ UNCHANGED <<agent, persistent>>
<1>1. CASE Answer(w)
  BY <1>1, AnswerType DEF Answer, life
<1>2. CASE ~Answer(w)
  <2>1. Keeps(w)
    BY <1>2, EraseType, ForgetType, InsertType, ProbeWorkers, WriteType, SaveType,
       NextWorkers, FetchWorkers DEF Work, Replies
  <2>2. worker[w].pc # "idle" /\ UNCHANGED <<agent, persistent>>
    BY <1>2 DEF Work, Erase, Forget, Insert, ProbeSlot, WriteSlot, Save, NextKey,
       Fetch, life
  <2> QED
    BY <2>1, <2>2 DEF Keeps
<1> QED
  BY <1>1, <1>2

LEMMA CompatibleAfter ==
  ASSUME NEW r, NEW q, NEW s, NEW t, Compatible(r, q),
         Mutates(s) => Mutates(r) /\ s.op = r.op /\ s.policy = r.policy,
         Mutates(t) => Mutates(q) /\ t.op = q.op /\ t.policy = q.policy
  PROVE  Compatible(s, t)
BY DEF Compatible, WritesWildcard

LEMMA StepRunning == Running /\ [Next]_vars => Running'
<1> SUFFICES ASSUME Running, [Next]_vars PROVE Coexist' /\ Quiet'
  BY StepType DEF Running
<1>0. TypeOK /\ Coexist /\ Quiet
  BY DEF Running
<1>1. CASE Arrival
  <2>1. PICK w \in Workers, op \in {"POST", "PUT", "GET", "DELETE"}, p \in Sent :
          Begin(w, op, p)
    BY <1>1 DEF Arrival
  <2>2. Quiet'
    BY <2>1 DEF Begin, Quiet
  <2>3. \A v \in Workers \ {w} : Compatible(worker'[w], worker'[v])
    <3> SUFFICES ASSUME NEW v \in Workers \ {w}
                 PROVE  Compatible(worker'[w], worker'[v])
      OBVIOUS
    <3>1. Compatible(worker'[w], worker[v]) /\ worker'[v].pc = worker[v].pc
          /\ worker'[v].op = worker[v].op /\ worker'[v].policy = worker[v].policy
      BY <1>0, <2>1, BeginWorkers
    <3> QED
      BY <3>1, CompatibleAfter DEF Mutates
  <2>4. \A u, v \in Workers \ {w} : u # v => Compatible(worker'[u], worker'[v])
    <3> SUFFICES ASSUME NEW u \in Workers \ {w}, NEW v \in Workers \ {w}, u # v
                 PROVE  Compatible(worker'[u], worker'[v])
      OBVIOUS
    <3>1. Compatible(worker[u], worker[v])
      BY <1>0 DEF Coexist
    <3>2. /\ worker'[u].pc = worker[u].pc /\ worker'[u].op = worker[u].op
          /\ worker'[u].policy = worker[u].policy
          /\ worker'[v].pc = worker[v].pc /\ worker'[v].op = worker[v].op
          /\ worker'[v].policy = worker[v].policy
      BY <1>0, <2>1, BeginWorkers
    <3> QED
      BY <3>1, <3>2, CompatibleAfter DEF Mutates
  <2>5. \A r, q : Compatible(r, q) => Compatible(q, r)
    BY DEF Compatible
  <2> QED
    BY <2>2, <2>3, <2>4, <2>5 DEF Coexist
<1>2. CASE \E w \in Workers : Work(w)
  <2>1. PICK w \in Workers : Work(w)
    BY <1>2
  <2>2. /\ worker[w].pc # "idle" /\ (Keeps(w) \/ worker'[w] = Idle)
        /\ \A v \in Workers : v # w => worker'[v] = worker[v]
        /\ agent' = agent
    BY <1>0, <2>1, WorkerSteps
  <2>3. agent = "serving"
    BY <1>0, <2>2 DEF Quiet, Idle
  <2>4. Mutates(worker'[w]) => /\ Mutates(worker[w])
                               /\ worker'[w].op = worker[w].op
                               /\ worker'[w].policy = worker[w].policy
    BY <2>2 DEF Mutates, Keeps, Idle
  <2>5. \A u, v \in Workers : u # v => Compatible(worker'[u], worker'[v])
    <3> SUFFICES ASSUME NEW u \in Workers, NEW v \in Workers, u # v
                 PROVE  Compatible(worker'[u], worker'[v])
      OBVIOUS
    <3>1. Compatible(worker[u], worker[v])
      BY <1>0 DEF Coexist
    <3>2. \A x \in Workers : Mutates(worker'[x]) =>
            /\ Mutates(worker[x])
            /\ worker'[x].op = worker[x].op /\ worker'[x].policy = worker[x].policy
      BY <2>2, <2>4
    <3> QED
      BY <3>1, <3>2, CompatibleAfter
  <2> QED
    BY <2>2, <2>3, <2>5 DEF Coexist, Quiet
<1>3. CASE Crash
  BY <1>3 DEF Crash, Coexist, Quiet, Compatible, Mutates, WritesWildcard, Idle
<1>4. CASE StartFresh \/ StartPersisted \/ Restore \/ Serve \/ UNCHANGED vars
  BY <1>0, <1>4 DEF StartFresh, StartPersisted, Restore, Serve, vars, Coexist, Quiet
<1> QED
  BY <1>1, <1>2, <1>3, <1>4 DEF Next, Lifecycle

LEMMA InitRunning == Init => Running
<1>1. Init => Coexist /\ Quiet
  BY DEF Init, Coexist, Quiet, Compatible, Mutates, WritesWildcard, Idle
<1> QED
  BY <1>1, InitType DEF Running

-----------------------------------------------------------------------------
(***************************************************************************)
(* Why the database keeps what was promised: a rule under change is open   *)
(* and belongs to one request, which knows what its last write did.        *)
(***************************************************************************)
Agree(i) ==
  \/ i \in unsaved
  \/ /\ i \in DOMAIN promised <=> i \in DOMAIN rows
     /\ i \in DOMAIN promised => rows[i] = promised[i]

OnPath(r) ==
  /\ r.op = "POST" => r.pc \in {"insert", "slot", "write", "save", "answer"}
  /\ r.op = "PUT" => r.pc \in {"erase", "forget", "insert", "slot", "write",
                               "save", "answer"}
  /\ r.op = "DELETE" => r.pc \in {"next", "fetch", "erase", "forget", "answer"}
  /\ r.op = "GET" => r.pc \in {"idle", "next", "fetch", "answer"}

Told(r, status) == r.pc = "answer" /\ r.status = status

Saving(w) ==
  LET r == worker[w]
      i == r.policy.rule_id
  IN  persistent /\ Mutates(r) =>
        /\ i \in open
        /\ r.op \in {"POST", "PUT"} /\ Told(r, "ok") =>
             i \in unsaved \/ (i \in DOMAIN rows /\ rows[i] = r.policy)
        /\ r.op = "DELETE" /\ Told(r, "ok") => i \in unsaved \/ i \notin DOMAIN rows
        /\ r.sure /\ r.op = "POST" /\ ~Told(r, "ok") => Agree(i)
        /\ r.sure /\ r.op = "DELETE"
           /\ (r.pc \in {"next", "fetch", "erase"} \/ Told(r, "not_found")) => Agree(i)

SavingInv ==
  /\ Running
  /\ PromisedIsSaved
  /\ \A w \in Workers : OnPath(worker[w]) /\ Saving(w)

SameAt(i) ==
  /\ i \in unsaved' <=> i \in unsaved
  /\ i \in DOMAIN rows' <=> i \in DOMAIN rows
  /\ i \in DOMAIN rows => rows'[i] = rows[i]
  /\ i \in DOMAIN promised' <=> i \in DOMAIN promised
  /\ i \in DOMAIN promised => promised'[i] = promised[i]

LEMMA AgreeSame ==
  ASSUME NEW i, Agree(i), SameAt(i)
  PROVE  Agree(i)'
BY DEF Agree, SameAt

LEMMA SavingElsewhere ==
  ASSUME NEW v \in Workers, Saving(v), persistent' = persistent,
         worker'[v].pc = worker[v].pc, worker'[v].op = worker[v].op,
         worker'[v].policy = worker[v].policy, worker'[v].status = worker[v].status,
         worker'[v].sure => worker[v].sure,
         Mutates(worker[v]) => /\ SameAt(worker[v].policy.rule_id)
                               /\ worker[v].policy.rule_id \in open =>
                                    worker[v].policy.rule_id \in open'
  PROVE  Saving(v)'
<1> DEFINE r == worker[v]
           i == r.policy.rule_id
           q == worker'[v]
<1> SUFFICES ASSUME persistent, Mutates(q)
             PROVE  /\ i \in open'
                    /\ q.op \in {"POST", "PUT"} /\ Told(q, "ok") =>
                         i \in unsaved' \/ (i \in DOMAIN rows' /\ rows'[i] = q.policy)
                    /\ q.op = "DELETE" /\ Told(q, "ok") =>
                         i \in unsaved' \/ i \notin DOMAIN rows'
                    /\ q.sure /\ q.op = "POST" /\ ~Told(q, "ok") => Agree(i)'
                    /\ q.sure /\ q.op = "DELETE"
                       /\ (q.pc \in {"next", "fetch", "erase"} \/ Told(q, "not_found"))
                         => Agree(i)'
  BY DEF Saving
<1>1. Mutates(r) /\ SameAt(i)
  BY DEF Mutates
<1>2. \A x : Told(q, x) <=> Told(r, x)
  BY DEF Told
<1>3. Agree(i) => Agree(i)'
  BY <1>1, AgreeSame
<1>4. i \in open /\ i \in open'
  BY <1>1 DEF Saving
<1> HIDE DEF i
<1>5. /\ r.op \in {"POST", "PUT"} /\ Told(r, "ok") =>
           i \in unsaved \/ (i \in DOMAIN rows /\ rows[i] = r.policy)
      /\ r.op = "DELETE" /\ Told(r, "ok") => i \in unsaved \/ i \notin DOMAIN rows
      /\ r.sure /\ r.op = "POST" /\ ~Told(r, "ok") => Agree(i)
      /\ r.sure /\ r.op = "DELETE"
         /\ (r.pc \in {"next", "fetch", "erase"} \/ Told(r, "not_found")) => Agree(i)
  BY <1>1 DEF Saving, i
<1>6. q.op \in {"POST", "PUT"} /\ Told(q, "ok") =>
        i \in unsaved' \/ (i \in DOMAIN rows' /\ rows'[i] = q.policy)
  BY <1>1, <1>2, <1>5 DEF SameAt
<1>7. q.op = "DELETE" /\ Told(q, "ok") => i \in unsaved' \/ i \notin DOMAIN rows'
  BY <1>1, <1>2, <1>5 DEF SameAt
<1> QED
  BY <1>2, <1>3, <1>4, <1>5, <1>6, <1>7

(***************************************************************************)
(* A request changes what is known of its own rule only.                   *)
(***************************************************************************)
SameEntry(map, new, i) ==
  /\ i \in DOMAIN new <=> i \in DOMAIN map
  /\ i \in DOMAIN map => new[i] = map[i]

LEMMA PutElsewhere ==
  ASSUME NEW map, NEW new, NEW k, NEW v, NEW i, i # k,
         new = map \/ new = Put(map, k, v) \/ new = Without(map, k)
  PROVE  SameEntry(map, new, i)
<1>1. CASE new = map
  BY <1>1 DEF SameEntry
<1>2. CASE new = Put(map, k, v)
  BY <1>2 DEF SameEntry, Put
<1>3. CASE new = Without(map, k)
  BY <1>3 DEF SameEntry, Without
<1> QED
  BY <1>1, <1>2, <1>3

LEMMA WorkSame ==
  ASSUME TypeOK, NEW w \in Workers, Work(w)
  PROVE  /\ \A i : i # id(w) => SameAt(i) /\ (i \in open <=> i \in open')
         /\ ~(Forget(w) \/ Save(w) \/ Answer(w)) =>
              (\A i : SameAt(i)) /\ open' = open
<1>1. CASE ~(Forget(w) \/ Save(w) \/ Answer(w))
  <2>1. UNCHANGED <<rows, unsaved, promised, open>>
    BY <1>1 DEF Work, Erase, Insert, ProbeSlot, WriteSlot, NextKey, Fetch, store, book
  <2> QED
    BY <2>1 DEF SameAt
<1>2. CASE Forget(w) \/ Save(w)
  <2>1. /\ UNCHANGED <<promised, open>>
        /\ \/ rows' = rows \/ rows' = Without(rows, id(w))
           \/ rows' = Put(rows, id(w), worker[w].policy)
        /\ unsaved' = unsaved \cup {id(w)} \/ unsaved' = unsaved \ {id(w)}
    BY <1>2 DEF Forget, Save, book
  <2>2. \A i : i # id(w) => SameEntry(rows, rows', i)
    BY <2>1, PutElsewhere
  <2>3. \A i : i # id(w) => (i \in unsaved' <=> i \in unsaved)
    BY <2>1
  <2> QED
    BY <1>2, <2>1, <2>2, <2>3 DEF SameAt, SameEntry
<1>3. CASE Answer(w)
  <2>1. UNCHANGED <<rows, unsaved>>
    BY <1>3 DEF Answer, store
  <2>2. \/ promised' = promised
        \/ promised' = Put(promised, id(w), worker[w].policy)
        \/ promised' = Without(promised, id(w))
    BY <1>3 DEF Answer
  <2>3. \A i : i # id(w) => (i \in open <=> i \in open')
    BY <1>3 DEF Answer
  <2>4. \A i : i # id(w) => SameEntry(promised, promised', i)
    BY <2>2, PutElsewhere
  <2> QED
    BY <1>3, <2>1, <2>3, <2>4 DEF SameAt, SameEntry
<1> QED
  BY <1>1, <1>2, <1>3

(***************************************************************************)
(* A step of w takes it along its path, with the last write known.         *)
(***************************************************************************)
LEMMA WorkPath ==
  ASSUME TypeOK, NEW w \in Workers, Work(w), OnPath(worker[w])
  PROVE  OnPath(worker'[w])
<1>0. worker \in [Workers -> Request] /\ worker[w] \in Request
  BY DEF TypeOK
<1>1. CASE Erase(w)
  <2>1. worker[w].pc = "erase" /\ worker[w].op \in {"PUT", "DELETE"}
    BY <1>0, <1>1 DEF Erase, OnPath, Request
  <2>2. CASE Go(w, "forget")
    BY <1>0, <2>1, <2>2, GoGoes DEF Goes, Keeps, OnPath, PC
  <2>3. CASE Erased(w)
    BY <1>0, <2>1, <2>3, ErasedKeeps DEF Replies, Keeps, OnPath, Adding
  <2>4. CASE Reply(w, "error")
    BY <1>0, <2>1, <2>4, ReplyReplies DEF Replies, Keeps, OnPath
  <2> QED
    BY <1>1, <2>2, <2>3, <2>4 DEF Erase
<1>2. CASE Forget(w)
  <2>1. worker[w].op \in {"PUT", "DELETE"} /\ Erased(w)
    BY <1>0, <1>2 DEF Forget, OnPath, Request
  <2> QED
    BY <1>0, <2>1, ErasedKeeps DEF Replies, Keeps, OnPath, Adding
<1>3. CASE Insert(w) \/ WriteSlot(w)
  <2>1. worker[w].op \in {"POST", "PUT"}
    BY <1>0, <1>3 DEF Insert, WriteSlot, OnPath, Request
  <2>2. Added(w) \/ Reply(w, "error")
    BY <1>3 DEF Insert, WriteSlot
  <2>3. worker'[w].pc \in {"save", "answer"} /\ worker'[w].op = worker[w].op
    BY <1>0, <2>2, AddedKeeps, ReplyReplies DEF Replies, Keeps
  <2> QED
    BY <2>1, <2>3 DEF OnPath
<1>4. CASE ProbeSlot(w)
  <2>1. worker[w].op \in {"POST", "PUT"}
    BY <1>0, <1>4 DEF ProbeSlot, OnPath, Request
  <2>2. worker'[w].pc \in {"slot", "write", "answer"} /\ worker'[w].op = worker[w].op
    BY <1>4, ProbeWorkers DEF Replies, Keeps
  <2> QED
    BY <2>1, <2>2 DEF OnPath
<1>5. CASE Save(w)
  BY <1>5, SaveType DEF Save, OnPath, Replies, Keeps
<1>6. CASE NextKey(w)
  <2>1. worker[w].op \in {"GET", "DELETE"}
    BY <1>0, <1>6 DEF NextKey, OnPath, Request
  <2>2. /\ worker'[w].op = worker[w].op
        /\ \/ worker'[w].pc \in {"answer", "fetch"}
           \/ worker[w].op = "DELETE" /\ worker'[w].pc = "erase"
    BY <1>6, NextWorkers DEF Replies, Keeps
  <2> QED
    BY <2>1, <2>2 DEF OnPath
<1>7. CASE Fetch(w)
  <2>1. worker[w].op \in {"GET", "DELETE"}
    BY <1>0, <1>7 DEF Fetch, OnPath, Request
  <2>2. worker'[w].op = worker[w].op /\ worker'[w].pc = "next"
    BY <1>7, FetchWorkers DEF Keeps
  <2> QED
    BY <2>1, <2>2 DEF OnPath
<1>8. CASE Answer(w)
  BY <1>8, AnswerType DEF OnPath, Idle
<1> QED
  BY <1>1, <1>2, <1>3, <1>4, <1>5, <1>6, <1>7, <1>8 DEF Work

LEMMA WorkSaving ==
  ASSUME TypeOK, NEW w \in Workers, Work(w), OnPath(worker[w]), Saving(w)
  PROVE  Saving(w)'
<1> DEFINE r == worker[w]
           q == worker'[w]
<1>3. PICK i : i = r.policy.rule_id
  OBVIOUS
<1>0. worker \in [Workers -> Request] /\ r \in Request /\ id(w) = i
  BY <1>3 DEF TypeOK, id
<1>1. CASE Answer(w)
  BY <1>1, AnswerType DEF Saving, Mutates, Idle
<1>2. CASE ~Answer(w)
  <2>0. /\ r.pc # "idle" /\ q.op = r.op /\ q.policy = r.policy /\ q.sure = r.sure
        /\ persistent' = persistent
    <3>1. Keeps(w)
      BY <1>2, EraseType, ForgetType, InsertType, ProbeWorkers, WriteType, SaveType,
         NextWorkers, FetchWorkers DEF Work, Replies
    <3> QED
      BY <3>1, WorkerSteps DEF Keeps
  <2> SUFFICES ASSUME persistent, Mutates(q)
               PROVE  /\ i \in open'
                      /\ r.op \in {"POST", "PUT"} /\ Told(q, "ok") =>
                           i \in unsaved' \/ (i \in DOMAIN rows' /\ rows'[i] = r.policy)
                      /\ r.op = "DELETE" /\ Told(q, "ok") =>
                           i \in unsaved' \/ i \notin DOMAIN rows'
                      /\ r.sure /\ r.op = "POST" /\ ~Told(q, "ok") => Agree(i)'
                      /\ r.sure /\ r.op = "DELETE"
                         /\ (q.pc \in {"next", "fetch", "erase"} \/ Told(q, "not_found"))
                           => Agree(i)'
    BY <1>3, <2>0 DEF Saving
  <2>1. Mutates(r) /\ r.op \in {"POST", "PUT", "DELETE"}
    BY <1>0, <2>0 DEF Mutates, Request
  <2>2. i \in open
    BY <1>3, <2>1 DEF Saving
  <2>3. i \in open'
    BY <1>2, <2>2 DEF Work, Erase, Forget, Insert, ProbeSlot, WriteSlot, Save,
       NextKey, Fetch, book
  <2>4. ~(Forget(w) \/ Save(w)) => (Agree(i) => Agree(i)')
    BY <1>2, WorkSame, AgreeSame
  <2>5. r.sure /\ r.op = "POST" /\ ~Told(r, "ok") => Agree(i)
    BY <1>3, <2>1 DEF Saving
  <2>6. r.sure /\ r.op = "DELETE" /\ r.pc \in {"next", "fetch", "erase"} => Agree(i)
    BY <1>3, <2>1 DEF Saving
  <2>7. CASE Erase(w)
    <3>1. r.pc = "erase" /\ r.op \in {"PUT", "DELETE"}
      BY <1>0, <2>1, <2>7 DEF Erase, OnPath
    <3>2. CASE Go(w, "forget") \/ Reply(w, "error")
      <4>1. q.pc = "forget" \/ Told(q, "error")
        BY <1>0, <3>2, GoGoes, ReplyReplies DEF Goes, Replies, Told, PC
      <4> QED
        BY <2>3, <3>1, <4>1 DEF Told
    <3>3. CASE r.op = "PUT" /\ Erased(w)
      <4>1. q.pc = Adding(r.policy)
        BY <1>0, <3>3, ErasedKeeps
      <4> QED
        BY <2>3, <3>3, <4>1 DEF Told, Adding
    <3> QED
      BY <2>7, <3>2, <3>3 DEF Erase
  <2>8. CASE Forget(w)
    <3>1. r.pc = "forget" /\ r.op \in {"PUT", "DELETE"} /\ Erased(w)
      BY <1>0, <2>1, <2>8 DEF Forget, OnPath
    <3>2. r.op = "PUT" => q.pc = Adding(r.policy)
      BY <1>0, <3>1, ErasedKeeps
    <3>3. r.op = "DELETE" => Told(q, "ok")
      BY <1>0, <3>1, ErasedKeeps DEF Replies, Told
    <3>4. i \in unsaved' \/ i \notin DOMAIN rows'
      BY <1>0, <2>8, WithoutAt DEF Forget
    <3> QED
      BY <2>3, <3>1, <3>2, <3>3, <3>4 DEF Told, Adding
  <2>9. CASE Insert(w) \/ WriteSlot(w) \/ ProbeSlot(w)
    <3>1. r.op \in {"POST", "PUT"} /\ ~Told(r, "ok")
      BY <1>0, <2>1, <2>9 DEF Insert, WriteSlot, ProbeSlot, OnPath, Told
    <3>2. ~Told(q, "ok")
      BY <1>0, <2>9, AddedKeeps, ReplyReplies, ProbeWorkers
         DEF Insert, WriteSlot, Replies, Told
    <3>3. ~(Forget(w) \/ Save(w))
      BY <2>9 DEF Insert, WriteSlot, ProbeSlot, Forget, Save
    <3> QED
      BY <2>3, <2>4, <2>5, <3>1, <3>2, <3>3
  <2>10. CASE Save(w)
    <3>1. r.op \in {"POST", "PUT"} /\ Told(q, "ok")
      BY <1>0, <2>1, <2>10, SaveType DEF Save, OnPath, Replies, Told
    <3>2. i \in unsaved' \/ (i \in DOMAIN rows' /\ rows'[i] = r.policy)
      <4>1. rows' = Put(rows, i, r.policy) \/ unsaved' = unsaved \cup {i}
        BY <1>0, <2>10 DEF Save
      <4>2. CASE rows' = Put(rows, i, r.policy)
        BY <4>2 DEF Put
      <4> QED
        BY <4>1, <4>2
    <3> QED
      BY <2>3, <3>1, <3>2
  <2>11. CASE NextKey(w) \/ Fetch(w)
    <3>1. r.op = "DELETE" /\ r.pc \in {"next", "fetch"}
      BY <1>0, <2>1, <2>11 DEF NextKey, Fetch, OnPath
    <3>2. ~Told(q, "ok")
      BY <2>11, <3>1, NextWorkers, FetchWorkers DEF Replies, Told
    <3>3. ~(Forget(w) \/ Save(w))
      BY <2>11 DEF NextKey, Fetch, Forget, Save
    <3> QED
      BY <2>3, <2>4, <2>6, <3>1, <3>2, <3>3
  <2> QED
    BY <1>2, <2>7, <2>8, <2>9, <2>10, <2>11 DEF Work
<1> QED
  BY <1>1, <1>2

LEMMA AnswerSaving ==
  ASSUME TypeOK, NEW w \in Workers, Answer(w), OnPath(worker[w]), Saving(w), persistent,
         Mutates(worker[w]), NEW i, i = id(w), i \in open, i \notin open'
  PROVE  Agree(i)'
<1> DEFINE r == worker[w]
<1>0. r \in Request /\ r.pc = "answer" /\ r.op \in {"POST", "PUT", "DELETE"}
      /\ r.policy.rule_id = i
  BY DEF TypeOK, Answer, Mutates, Request, id
<1>1. r.status = "ok" \/ (Harmless(r) /\ r.sure)
  BY DEF Answer
<1>2. UNCHANGED <<rows, unsaved>>
  BY DEF Answer, store
<1>3. CASE r.op \in {"POST", "PUT"} /\ r.status = "ok"
  <2>1. promised' = Put(promised, i, r.policy)
    BY <1>3 DEF Answer
  <2>2. i \in DOMAIN promised' /\ promised'[i] = r.policy
    BY <2>1 DEF Put
  <2>3. i \in unsaved \/ (i \in DOMAIN rows /\ rows[i] = r.policy)
    BY <1>0, <1>3 DEF Saving, Told
  <2> QED
    BY <1>2, <2>2, <2>3 DEF Agree
<1>4. CASE r.op = "DELETE" /\ r.status = "ok"
  <2>1. promised' = Without(promised, i)
    BY <1>4 DEF Answer
  <2>2. i \notin DOMAIN promised'
    BY <2>1 DEF Without
  <2>3. i \in unsaved \/ i \notin DOMAIN rows
    BY <1>0, <1>4 DEF Saving, Told
  <2> QED
    BY <1>2, <2>2, <2>3 DEF Agree
<1>5. CASE r.status # "ok"
  <2>1. promised' = promised
    BY <1>5 DEF Answer
  <2>2. Agree(i)
    BY <1>0, <1>1, <1>5 DEF Saving, Told, Harmless
  <2> QED
    BY <1>2, <2>1, <2>2 DEF Agree
<1> QED
  BY <1>0, <1>3, <1>4, <1>5

LEMMA StepSaving == SavingInv /\ [Next]_vars => SavingInv'
<1> SUFFICES ASSUME SavingInv, [Next]_vars
             PROVE  PromisedIsSaved' /\ \A v \in Workers : OnPath(worker'[v]) /\ Saving(v)'
  BY StepRunning DEF SavingInv
<1>0. TypeOK /\ Coexist /\ Quiet /\ PromisedIsSaved
      /\ \A v \in Workers : OnPath(worker[v]) /\ Saving(v)
  BY DEF SavingInv, Running
<1>1. CASE Arrival
  <2>1. PICK w \in Workers, op \in {"POST", "PUT", "GET", "DELETE"}, p \in Sent :
          Begin(w, op, p)
    BY <1>1 DEF Arrival
  <2>2. /\ UNCHANGED <<rows, unsaved, promised, persistent>>
        /\ open \subseteq open'
        /\ op # "GET" => p.rule_id \in open'
    BY <2>1 DEF Begin, store
  <2>3. PromisedIsSaved'
    BY <1>0, <2>2 DEF PromisedIsSaved
  <2>4. ASSUME NEW v \in Workers, v # w
        PROVE  OnPath(worker'[v]) /\ Saving(v)'
    <3>1. /\ worker'[v].pc = worker[v].pc /\ worker'[v].op = worker[v].op
          /\ worker'[v].policy = worker[v].policy /\ worker'[v].status = worker[v].status
          /\ worker'[v].sure => worker[v].sure
      BY <1>0, <2>1, <2>4, BeginWorkers
    <3>2. OnPath(worker'[v])
      BY <1>0, <3>1 DEF OnPath
    <3>3. \A i : SameAt(i)
      BY <2>2 DEF SameAt
    <3> QED
      BY <1>0, <2>2, <3>1, <3>2, <3>3, SavingElsewhere
  <2>5. /\ worker'[w].pc = FirstStep(op, p) /\ worker'[w].op = op
        /\ worker'[w].policy = p /\ worker'[w].sure = (p.rule_id \notin open)
    BY <1>0, <2>1, BeginWorkers
  <2>6. OnPath(worker'[w])
    BY <2>5 DEF OnPath, FirstStep, Adding
  <2>7. Saving(w)'
    <3>1. PICK i : i = p.rule_id
      OBVIOUS
    <3>2. persistent /\ i \notin open => Agree(i)'
      <4> SUFFICES ASSUME persistent, i \notin open PROVE Agree(i)'
        OBVIOUS
      <4>1. i \in RuleIds
        BY <3>1, SentTypes
      <4>2. Agree(i)
        BY <1>0, <4>1 DEF PromisedIsSaved, Agree
      <4> QED
        BY <2>2, <4>2 DEF Agree
    <3>3. ~Told(worker'[w], "ok")
      BY <2>5 DEF Told, FirstStep, Adding
    <3> QED
      BY <2>2, <2>5, <3>1, <3>2, <3>3 DEF Saving, Mutates
  <2> QED
    BY <2>3, <2>4, <2>6, <2>7
<1>2. CASE \E w \in Workers : Work(w)
  <2>1. PICK w \in Workers : Work(w)
    BY <1>2
  <2>2. /\ \A v \in Workers : v # w => worker'[v] = worker[v]
        /\ persistent' = persistent /\ worker[w].pc # "idle"
    BY <1>0, <2>1, WorkerSteps
  <2>3. /\ \A i : i # id(w) => SameAt(i) /\ (i \in open <=> i \in open')
        /\ ~(Forget(w) \/ Save(w) \/ Answer(w)) => (\A i : SameAt(i)) /\ open' = open
    BY <1>0, <2>1, WorkSame
  <2>4. worker[w].op = "GET" => (\A i : SameAt(i)) /\ open' = open
    <3>1. CASE ~Answer(w)
      BY <1>0, <2>1, <2>3, <3>1 DEF Forget, Save, OnPath
    <3>2. CASE Answer(w) /\ worker[w].op = "GET"
      <4>1. UNCHANGED <<rows, unsaved, promised, open>>
        BY <3>2 DEF Answer, store
      <4> QED
        BY <4>1 DEF SameAt
    <3> QED
      BY <3>1, <3>2
  <2>5. ASSUME NEW v \in Workers, v # w
        PROVE  OnPath(worker'[v]) /\ Saving(v)'
    <3>1. worker'[v] = worker[v]
      BY <2>2, <2>5
    <3>2. Mutates(worker[v]) => /\ SameAt(worker[v].policy.rule_id)
                                /\ worker[v].policy.rule_id \in open =>
                                     worker[v].policy.rule_id \in open'
      <4>1. CASE worker[w].op = "GET"
        BY <2>4, <4>1
      <4>2. CASE Mutates(worker[w]) /\ Mutates(worker[v])
        <5>1. worker[v].policy.rule_id # id(w)
          BY <1>0, <2>5, <4>2 DEF Coexist, Compatible, id
        <5> QED
          BY <2>3, <5>1
      <4> QED
        BY <2>2, <4>1, <4>2 DEF Mutates
    <3>3. OnPath(worker'[v])
      BY <1>0, <3>1
    <3>4. Saving(v)'
      BY <1>0, <2>2, <3>1, <3>2, SavingElsewhere
    <3> QED
      BY <3>3, <3>4
  <2>6. OnPath(worker'[w]) /\ Saving(w)'
    BY <1>0, <2>1, WorkPath, WorkSaving
  <2>7. PromisedIsSaved'
    <3> SUFFICES ASSUME persistent', NEW i \in RuleIds, i \notin open', i \notin unsaved'
                 PROVE  Agree(i)'
      BY DEF PromisedIsSaved, Agree
    <3>1. persistent
      BY <2>2
    <3>2. i \notin open => Agree(i)
      BY <1>0, <3>1 DEF PromisedIsSaved, Agree
    <3>3. CASE i # id(w) \/ worker[w].op = "GET"
      BY <2>3, <2>4, <3>2, <3>3, AgreeSame
    <3>4. CASE i = id(w) /\ worker[w].op # "GET"
      <4>1. Mutates(worker[w])
        BY <2>2, <3>4 DEF Mutates
      <4>2. i \in open
        BY <1>0, <3>1, <3>4, <4>1 DEF Saving, id
      <4>3. Answer(w)
        BY <2>1, <4>2 DEF Work, Erase, Forget, Insert, ProbeSlot, WriteSlot, Save,
           NextKey, Fetch, book
      <4> QED
        BY <1>0, <3>1, <3>4, <4>1, <4>2, <4>3, AnswerSaving
    <3> QED
      BY <3>3, <3>4
  <2> QED
    BY <2>5, <2>6, <2>7
<1>3. CASE Crash
  <2>1. PromisedIsSaved'
    BY <1>0, <1>3 DEF Crash, PromisedIsSaved, store
  <2>2. \A v \in Workers : worker'[v] = Idle
    BY <1>3 DEF Crash
  <2> QED
    BY <2>1, <2>2 DEF OnPath, Saving, Mutates, Idle
<1>4. CASE StartFresh
  <2>1. ~persistent /\ ~persistent' /\ worker' = worker
    BY <1>4 DEF StartFresh
  <2> QED
    BY <1>0, <2>1 DEF PromisedIsSaved, Saving
<1>5. CASE StartPersisted \/ Restore \/ Serve \/ UNCHANGED vars
  <2>1. /\ UNCHANGED <<rows, unsaved, promised, persistent, worker>>
        /\ open \subseteq open'
    BY <1>5 DEF StartPersisted, Restore, Serve, PutExact, tables, store, book, vars
  <2>2. \A i : SameAt(i)
    BY <2>1 DEF SameAt
  <2>3. PromisedIsSaved'
    BY <1>0, <2>1 DEF PromisedIsSaved
  <2>4. \A v \in Workers : OnPath(worker'[v]) /\ Saving(v)'
    BY <1>0, <2>1, <2>2, SavingElsewhere
  <2> QED
    BY <2>3, <2>4
<1> QED
  BY <1>1, <1>2, <1>3, <1>4, <1>5 DEF Next, Lifecycle

LEMMA InitSaving == Init => SavingInv
<1> SUFFICES ASSUME Init PROVE PromisedIsSaved /\ \A v \in Workers : OnPath(worker[v]) /\ Saving(v)
  BY InitRunning DEF SavingInv
<1>1. \A v \in Workers : worker[v] = Idle
  BY DEF Init
<1> QED
  BY <1>1 DEF Init, PromisedIsSaved, OnPath, Saving, Mutates, Idle

(***************************************************************************)
(* What the API confirmed is in the database at every instant, crashes and *)
(* restarts included, unless a write of the row failed: for any number of  *)
(* requests at once, provided that no rule is changed by two of them       *)
(* (AddPolicy, DeletePolicy and the handlers that call them).              *)
(***************************************************************************)
THEOREM ConfirmedIsSaved == Spec => []PromisedIsSaved
<1>1. SavingInv => PromisedIsSaved
  BY DEF SavingInv
<1> QED
  BY <1>1, InitSaving, StepSaving, PTL DEF Spec

-----------------------------------------------------------------------------
(***************************************************************************)
(* Why the wildcard table stays packed: a request that has passed a slot   *)
(* knows what is below it, as long as it is the only one that writes.      *)
(***************************************************************************)
Taken(s, i) == wildcard_policy_map[s].rule_id \in {0, i}

Probing(w) ==
  LET r == worker[w]
      i == r.policy.rule_id
  IN  /\ r.op = "PUT" /\ r.pc \in {"erase", "forget"} => r.slot = 0
      /\ r.pc \in {"slot", "write"} =>
           /\ WritesWildcard(r)
           /\ \A s \in Slots : s < r.slot => ~Taken(s, i)
      /\ r.pc = "write" => r.slot \in Slots /\ Taken(r.slot, i)

PackedInv ==
  /\ Running
  /\ SlotsPacked
  /\ agent = "down" => \A s \in Slots : wildcard_policy_map[s] = EmptySlot
  /\ \A w \in Workers : Probing(w)

LEMMA WritePacked ==
  ASSUME TypeOK, SlotsPacked, NEW p \in Sent, NEW n \in Slots, Taken(n, p.rule_id),
         \A s \in Slots : s < n => ~Taken(s, p.rule_id),
         wildcard_policy_map' = [wildcard_policy_map EXCEPT ![n] = WildcardEntry(p)]
  PROVE  SlotsPacked'
<1> DEFINE rule(s) == wildcard_policy_map[s].rule_id
           i == p.rule_id
<1>1. i # 0 /\ WildcardEntry(p).rule_id = i
  BY SentTypes
<1>2. wildcard_policy_map \in [Slots -> Entries] /\ Slots \subseteq Int
  BY DEF TypeOK, Slots
<1>3. wildcard_policy_map'[n].rule_id = i
  BY <1>1, <1>2
<1>4. \A s \in Slots : s # n => wildcard_policy_map'[s].rule_id = rule(s)
  BY <1>2
<1>5. rule(n) \in {0, i} /\ \A s \in Slots : s < n => rule(s) \notin {0, i}
  BY DEF Taken
<1>6. \A s, t \in Slots : s < t =>
        /\ rule(t) # 0 => rule(s) # 0
        /\ rule(s) # 0 => rule(s) # rule(t)
  BY DEF SlotsPacked, Used
<1> HIDE DEF rule, i
<1> SUFFICES ASSUME NEW s \in Slots, NEW t \in Slots, s < t
             PROVE  /\ wildcard_policy_map'[t].rule_id # 0 => wildcard_policy_map'[s].rule_id # 0
                    /\ wildcard_policy_map'[s].rule_id # 0 =>
                         wildcard_policy_map'[s].rule_id # wildcard_policy_map'[t].rule_id
  BY DEF SlotsPacked, Used
<1>7. CASE t = n
  BY <1>1, <1>2, <1>3, <1>4, <1>5, <1>7
<1>8. CASE s = n
  BY <1>1, <1>2, <1>3, <1>4, <1>5, <1>6, <1>8
<1>9. CASE s # n /\ t # n
  BY <1>4, <1>6, <1>9
<1> QED
  BY <1>7, <1>8, <1>9

LEMMA ProbingElsewhere ==
  ASSUME NEW v \in Workers, Probing(v),
         worker'[v].pc = worker[v].pc, worker'[v].op = worker[v].op,
         worker'[v].policy = worker[v].policy, worker'[v].slot = worker[v].slot,
         wildcard_policy_map' = wildcard_policy_map \/ ~WritesWildcard(worker[v])
  PROVE  Probing(v)'
BY DEF Probing, Taken, WritesWildcard, Mutates

LEMMA WorkProbing ==
  ASSUME TypeOK, NEW w \in Workers, Work(w), Probing(w)
  PROVE  Probing(w)'
<1> DEFINE r == worker[w]
           q == worker'[w]
<1>0. worker \in [Workers -> Request] /\ r \in Request
  BY DEF TypeOK
<1>1. CASE Erase(w) \/ Forget(w)
  <2>1. /\ r.pc \in {"erase", "forget"}
        /\ wildcard_policy_map' = wildcard_policy_map
        /\ Go(w, "forget") \/ Erased(w) \/ Reply(w, "error")
    BY <1>1 DEF Erase, Forget, tables
  <2>2. r.op = "PUT" => r.slot = 0
    BY <2>1 DEF Probing
  <2>3. CASE Go(w, "forget") \/ Reply(w, "error")
    <3>1. q.op = r.op /\ (q.pc = "answer" \/ (q.pc = "forget" /\ q.slot = r.slot))
      BY <1>0, <2>3, GoGoes, ReplyReplies DEF Goes, Replies, Keeps, PC
    <3> QED
      BY <2>2, <3>1 DEF Probing
  <2>4. CASE Erased(w) /\ r.op # "PUT"
    <3>1. q.op = r.op /\ q.pc = "answer"
      BY <1>0, <2>4, ErasedKeeps DEF Replies, Keeps
    <3> QED
      BY <3>1 DEF Probing
  <2>5. CASE Erased(w) /\ r.op = "PUT"
    <3>1. /\ q.op = "PUT" /\ q.policy = r.policy /\ q.slot = 0
          /\ q.pc = Adding(r.policy)
      BY <1>0, <2>2, <2>5, ErasedKeeps DEF Keeps
    <3>2. \A s \in Slots : ~(s < 0)
      BY DEF Slots
    <3> QED
      BY <3>1, <3>2 DEF Probing, Adding, WritesWildcard, Mutates
  <2> QED
    BY <2>1, <2>3, <2>4, <2>5
<1>2. CASE Insert(w) \/ WriteSlot(w)
  <2>1. Added(w) \/ Reply(w, "error")
    BY <1>2 DEF Insert, WriteSlot
  <2>2. q.pc \in {"save", "answer"}
    BY <1>0, <2>1, AddedKeeps, ReplyReplies DEF Replies
  <2> QED
    BY <2>2 DEF Probing
<1>3. CASE ProbeSlot(w)
  <2>1. /\ r.pc = "slot" /\ wildcard_policy_map' = wildcard_policy_map
        /\ r.slot \in Nat /\ Slots \subseteq Int
    BY <1>0, <1>3 DEF ProbeSlot, tables, Request, Slots
  <2>2. q.op = r.op /\ q.policy = r.policy
    BY <1>3, ProbeWorkers DEF Keeps
  <2>3. WritesWildcard(r) /\ \A s \in Slots : s < r.slot => ~Taken(s, r.policy.rule_id)
    BY <2>1 DEF Probing
  <2>4. CASE q.pc = "write" /\ q.slot = r.slot /\ r.slot \in Slots
             /\ wildcard_policy_map[r.slot].rule_id \in {0, id(w)}
    BY <2>1, <2>2, <2>3, <2>4 DEF Probing, Taken, WritesWildcard, Mutates, id
  <2>5. CASE q.pc = "slot" /\ q.slot = r.slot + 1
             /\ wildcard_policy_map[r.slot].rule_id \notin {0, id(w)}
    <3>1. \A s \in Slots : s < r.slot + 1 => s < r.slot \/ s = r.slot
      BY <2>1
    <3>2. \A s \in Slots : s < q.slot => ~Taken(s, r.policy.rule_id)
      BY <2>3, <2>5, <3>1 DEF Taken, id
    <3> QED
      BY <2>1, <2>2, <2>3, <2>5, <3>2 DEF Probing, Taken, WritesWildcard, Mutates
  <2>6. CASE Replies(w, "error")
    BY <2>6 DEF Replies, Probing
  <2> QED
    BY <1>3, <2>4, <2>5, <2>6, ProbeWorkers
<1>4. CASE Save(w)
  BY <1>4, SaveType DEF Replies, Probing
<1>5. CASE NextKey(w)
  <2>1. q.op = r.op /\ (q.pc \in {"answer", "fetch"} \/ (r.op = "DELETE" /\ q.pc = "erase"))
    BY <1>5, NextWorkers DEF Replies, Keeps
  <2> QED
    BY <2>1 DEF Probing
<1>6. CASE Fetch(w)
  BY <1>6, FetchWorkers DEF Probing
<1>7. CASE Answer(w)
  BY <1>7, AnswerType DEF Probing, Idle
<1> QED
  BY <1>1, <1>2, <1>3, <1>4, <1>5, <1>6, <1>7 DEF Work

LEMMA StepPacked == OneWildcardWriter /\ PackedInv /\ [Next]_vars => PackedInv'
<1> SUFFICES ASSUME OneWildcardWriter, PackedInv, [Next]_vars
             PROVE  /\ SlotsPacked'
                    /\ agent' = "down" => \A s \in Slots : wildcard_policy_map'[s] = EmptySlot
                    /\ \A w \in Workers : Probing(w)'
  BY StepRunning DEF PackedInv
<1>0. /\ TypeOK /\ Coexist /\ Quiet /\ SlotsPacked
      /\ agent = "down" => \A s \in Slots : wildcard_policy_map[s] = EmptySlot
      /\ \A w \in Workers : Probing(w)
  BY DEF PackedInv, Running
<1>1. CASE Arrival
  <2>1. PICK w \in Workers, op \in {"POST", "PUT", "GET", "DELETE"}, p \in Sent :
          Begin(w, op, p)
    BY <1>1 DEF Arrival
  <2>2. wildcard_policy_map' = wildcard_policy_map /\ agent' = agent
    BY <2>1 DEF Begin, tables
  <2>3. ASSUME NEW v \in Workers, v # w
        PROVE  Probing(v)'
    BY <1>0, <2>1, <2>2, <2>3, BeginWorkers, ProbingElsewhere
  <2>4. /\ worker'[w].pc = FirstStep(op, p) /\ worker'[w].op = op
        /\ worker'[w].policy = p /\ worker'[w].slot = 0
    BY <1>0, <2>1, BeginWorkers
  <2>5. \A s \in Slots : ~(s < 0)
    BY DEF Slots
  <2>6. Probing(w)'
    BY <2>4, <2>5 DEF Probing, FirstStep, Adding, WritesWildcard, Mutates
  <2> QED
    BY <1>0, <2>2, <2>3, <2>6 DEF SlotsPacked, Used
<1>2. CASE \E w \in Workers : Work(w)
  <2>1. PICK w \in Workers : Work(w)
    BY <1>2
  <2>2. /\ \A v \in Workers : v # w => worker'[v] = worker[v]
        /\ agent' = agent /\ worker[w].pc # "idle"
    BY <1>0, <2>1, WorkerSteps
  <2>3. agent # "down"
    BY <1>0, <2>2 DEF Quiet, Idle
  <2>4. ~WriteSlot(w) => wildcard_policy_map' = wildcard_policy_map
    BY <2>1 DEF Work, Erase, Forget, Insert, ProbeSlot, Save, NextKey, Fetch, Answer,
       tables
  <2>5. WriteSlot(w) => WritesWildcard(worker[w])
    BY <1>0 DEF WriteSlot, Probing
  <2>6. \A v \in Workers : v # w /\ WriteSlot(w) => ~WritesWildcard(worker[v])
    BY <1>0, <2>5 DEF Coexist, Compatible
  <2>7. \A v \in Workers : Probing(v)'
    BY <1>0, <2>1, <2>2, <2>4, <2>6, WorkProbing, ProbingElsewhere
  <2>8. SlotsPacked'
    <3>1. CASE ~WriteSlot(w)
      BY <1>0, <2>4, <3>1 DEF SlotsPacked, Used
    <3>2. CASE WriteSlot(w)
      <4>1. /\ worker[w].slot \in Slots /\ worker[w].policy \in Sent
            /\ Taken(worker[w].slot, worker[w].policy.rule_id)
            /\ \A s \in Slots : s < worker[w].slot => ~Taken(s, worker[w].policy.rule_id)
        BY <1>0, <3>2, IdTypes DEF WriteSlot, Probing
      <4>2. wildcard_policy_map' = [wildcard_policy_map EXCEPT
              ![worker[w].slot] = WildcardEntry(worker[w].policy)]
        BY <3>2 DEF WriteSlot
      <4> QED
        BY <1>0, <4>1, <4>2, WritePacked
    <3> QED
      BY <3>1, <3>2
  <2> QED
    BY <2>2, <2>3, <2>7, <2>8
<1>3. CASE Crash
  <2>1. /\ \A s \in Slots : wildcard_policy_map'[s] = EmptySlot
        /\ \A v \in Workers : worker'[v] = Idle
    BY <1>3 DEF Crash
  <2> QED
    BY <2>1 DEF SlotsPacked, Used, EmptySlot, Probing, Idle
<1>4. CASE StartFresh
  <2>1. /\ agent = "down" /\ agent' = "serving" /\ worker' = worker
        /\ wildcard_policy_map' = [wildcard_policy_map EXCEPT
             ![0] = WildcardEntry(DefaultPolicy)]
        /\ \A v \in Workers : worker[v] = Idle
    BY <1>0, <1>4 DEF StartFresh, Quiet
  <2>2. 0 \in Slots /\ \A s \in Slots : ~(s < 0)
    BY CapacityAssumption DEF Slots
  <2>3. Taken(0, DefaultPolicy.rule_id) /\ DefaultPolicy \in Sent
    BY <1>0, <2>1, <2>2 DEF Taken, EmptySlot, Sent
  <2>4. SlotsPacked'
    BY <1>0, <2>1, <2>2, <2>3, WritePacked
  <2> QED
    BY <2>1, <2>4 DEF Probing, Idle
<1>5. CASE Restore
  <2>1. /\ agent = "restoring" /\ agent' = agent /\ worker' = worker
        /\ \A v \in Workers : worker[v] = Idle
    BY <1>0, <1>5 DEF Restore, Quiet
  <2>2. SlotsPacked'
    <3>1. CASE wildcard_policy_map' = wildcard_policy_map
      BY <1>0, <3>1 DEF SlotsPacked, Used
    <3>2. CASE wildcard_policy_map' # wildcard_policy_map
      <4>1. PICK p \in left, n \in Slots :
              /\ IsTargetSlot(wildcard_policy_map, p.rule_id, n)
              /\ wildcard_policy_map' =
                   [wildcard_policy_map EXCEPT ![n] = WildcardEntry(p)]
        BY <1>5, <3>2 DEF Restore, tables
      <4>2. p \in Sent /\ DOMAIN wildcard_policy_map = Slots
        BY <1>0 DEF TypeOK
      <4>3. /\ Taken(n, p.rule_id)
            /\ \A s \in Slots : s < n => ~Taken(s, p.rule_id)
        BY <4>1, <4>2 DEF IsTargetSlot, Taken
      <4> QED
        BY <1>0, <4>1, <4>2, <4>3, WritePacked
    <3> QED
      BY <3>1, <3>2
  <2> QED
    BY <2>1, <2>2 DEF Probing, Idle
<1>6. CASE StartPersisted \/ Serve \/ UNCHANGED vars
  <2>1. UNCHANGED <<wildcard_policy_map, worker>> /\ (agent' = "down" => agent = "down")
    BY <1>6 DEF StartPersisted, Serve, tables, vars
  <2> QED
    BY <1>0, <2>1, ProbingElsewhere DEF SlotsPacked, Used
<1> QED
  BY <1>1, <1>2, <1>3, <1>4, <1>5, <1>6 DEF Next, Lifecycle

LEMMA InitPacked == Init => PackedInv
<1> SUFFICES ASSUME Init
             PROVE  /\ SlotsPacked
                    /\ \A s \in Slots : wildcard_policy_map[s] = EmptySlot
                    /\ \A w \in Workers : Probing(w)
  BY InitRunning DEF PackedInv
<1>1. /\ \A s \in Slots : wildcard_policy_map[s] = EmptySlot
      /\ \A v \in Workers : worker[v] = Idle
  BY DEF Init
<1> QED
  BY <1>1 DEF SlotsPacked, Used, EmptySlot, Probing, Idle

(***************************************************************************)
(* As long as clients change wildcard policies one at a time, the wildcard *)
(* table has no gaps and no rule twice, for any number of other requests,  *)
(* any size of the table, and through restarts (addWildcardPolicy).        *)
(***************************************************************************)
THEOREM SlotsStayPacked ==
  ASSUME OneWildcardWriter
  PROVE  Spec => []SlotsPacked
<1>1. PackedInv => SlotsPacked
  BY DEF PackedInv
<1>2. PackedInv /\ [Next]_vars => PackedInv'
  BY StepPacked
<1> QED
  BY <1>1, <1>2, InitPacked, PTL DEF Spec
=============================================================================
