# Verification of the eBPF microsegmentation agent

TLA+ modules, TLC runs and TLAPS proofs about the microsegmentation agent in
`src/agent` (Go) and its packet filter in `src/bpf` (C). Paths below are
relative to the root of the repository; the filter is
`src/bpf/tc_microsegment.bpf.c`, called "the filter".

## 1. The system

A TC program runs for every packet that enters an interface, on whichever CPU
received it. It decides a flow's first packet by two policy tables and caches
the decision in a session; the agent in user space fills the tables through a
REST API, reads counters and logs events. The two sides share eBPF maps and
nothing else; there is no lock anywhere.

| Component | Source | State | Operations |
|---|---|---|---|
| Packet filter | the filter, `headers/common_types.h` | `session_map` (LRU hash, 100000), `stats_map` (per CPU), `flow_events` (ring buffer); reads the policy tables and counts `hit_count` | parse, session lookup, exact lookup, wildcard scan, create session, emit event, verdict |
| Policy encoding | `pkg/policy/policy.go` | none | parse CIDR, protocol, action; byte orders; routing to a table |
| Policy manager | `pkg/policy/policy.go` | `policy_map` (hash, 10000), `wildcard_policy_map` (array, 1000 slots), optional storage | `AddPolicy`, `DeletePolicy`, `ListPolicies`, `LoadPersisted` |
| Policy storage | `pkg/policy/storage.go` | SQLite table keyed by rule id | save, delete, load in priority order |
| Data plane | `pkg/dataplane/dataplane.go` | loaded objects, TCX link or legacy filter, ring buffer reader | `New`, `Close`, `GetStatistics`, `MonitorFlowEvents` |
| REST API | `pkg/api` | router, HTTP server | policy create/list/get/update/delete, statistics, health, configuration |
| Agent | `cmd/main.go` | process lifetime | start, default policy, goroutines, shutdown |

How they interact:

- API handlers call the policy manager from one goroutine per request; the
  manager turns each call into one or several map system calls and, with a
  storage, one statement of the database.
- The filter reads the tables while they change. An element of the hash
  `policy_map` is replaced as a whole; an element of the array
  `wildcard_policy_map` is overwritten in place, field by field.
- The filter keeps pointers into the maps over several reads: the session of
  the hot path, the exact policy whose hits it counts, and the best wildcard
  match of the scan.
- Events flow one way through the ring buffer; counters are summed over the
  CPUs by the reader, one system call per counter.
- A filter attached to the legacy hook outlives its process; one attached by a
  TCX link does not.
- `cmd/main.go` builds the manager without storage, so persistence is
  exercised by its own tests only. The manager offers it
  (`NewManagerWithStorage`), and both cases are modelled.

What is hard: the races between CPUs on `session_map` and on plain counters;
lookups that span many reads of a table under change; sessions that are
evicted, and their memory reused, under a packet; requests that are several
system calls each and run concurrently; iteration of a table under change;
partial failures of table and storage, crashes and restarts; statistics read
while they change; start and stop of several processes on one interface.
`PROJECT.json` lists each hazard at its line.

## 2. Modules

| Module | Contents |
|---|---|
| `PolicyTables` | pure definitions: encoding of policies, flow keys, matching, and the reference decision of a table |
| `DataPath` | the filter on several CPUs over the maps, user space changing the tables and draining the events; its properties |
| `StatefulFirewall` | what the filter promises, without maps, pointers, policies and loops |
| `DataPathRefinement` | the refinement mapping from `DataPath` to `StatefulFirewall` |
| `DataPathClaims` | four sentences of `openspec/` about the filter that do not hold, over `DataPath` with a history variable |
| `Statistics` | `GetStatistics` and `Close` composed with `DataPath` |
| `ControlPlane` | requests, policy manager, storage, crashes and restarts |
| `AgentLifecycle` | processes, hooks, API server, shutdown |
| `MCDataPath`, `MCDataPathClaims`, `MCStatistics`, `MCControlPlane` | packets, policies, databases, sets of CPUs and of workers for TLC |
| `DataPathProofs`, `EncodingProofs`, `RefinementProofs`, `EventProofs`, `StatisticsProofs`, `ControlPlaneProofs`, `AppliedProofs`, `LifecycleProofs` | TLAPS proofs, section 4 |

`DataPath` and `ControlPlane` both have the policy tables, at different
grains: `DataPath` has the single map operations of user space, in any order,
between the steps of the filter; `ControlPlane` has the requests these
operations belong to. `PolicyTables` is what they share: an entry that
`ControlPlane` says is applied is an entry that `DataPath` obeys.

### PolicyTables

A 32-bit word is the set of its 1-bits in network order, so the filter's
`key->src_ip & mask` is `\cap`. Address width and port base are parameters;
the code has 4 octets of 8 bits and base 256, the instances 4 octets of one
bit and base 2. `htons` swaps the two digits of a port, and `maskToUint32`
reverses the octets of a mask, which is what reading the mask in big-endian and
the address in little-endian amounts to. `hasWildcard` routes a policy as the
code does, by source port, the texts `0.0.0.0/0` and `::/0`, and protocol. A
policy has a protocol and a rule id other than 0, as `models.PolicyRequest`
demands. `IsWinner` and `WildcardDecision` are the reference: the
larger priority number, then the lower slot, ALLOW when nothing matches. This is
the order of the filter, of `common_types.h:97` ("higher = more important"), of
`WILDCARD_POLICY_FIX.md:304` and of the end-to-end test of priorities. The
requirements (`openspec/specs/policy-matching/spec.md:94` and `:241`) say the
opposite, a smaller number is a higher priority; `claim_priority` shows that the
filter does not follow them.

### DataPath

One packet is in flight per CPU; `pc[c]` says where and `frame[c]` holds its
locals. Each access to memory other CPUs see is a step of its own.

| Action | Code |
|---|---|
| `ReceiveUnparsed`, `ReceivePacket` | the filter: `extract_flow_key`, TOTAL counter, session lookup |
| `HotLoad`, `HotPath` | the hot path: loads of action and `packets_to_server`; store of the counter and the cached verdict |
| `LookupExact`, `BumpHit` | first half of `lookup_policy_action`: lookup and load, then store of `hit_count` and load of the action |
| `ScanSlot`, `ScanDone` | the loop over the wildcard table, one slot a step, and what follows it |
| `CreateSession`, `RefuseSession` | `create_session`: insertion with BPF_NOEXIST, event; or its failure, which the filter ignores |
| `EnforceNew` | the verdict after `create_session` |
| `addExactPolicy`, `DeletePolicy` | the map calls of the same functions of `policy.go` |
| `addWildcardPolicy`, `WildcardWritten` | begin and end of the copy into the first slot that is empty or has the rule id |
| `MonitorFlowEvents` | one record read from the ring buffer |

A pointer into a hash is the identity of an element of its preallocated memory
(`elem`). An element that is evicted, replaced or deleted may be given to
another key at once, under a packet that holds the pointer: `Pointees` is
the key the pointer then leads to, and a packet that reads an element nobody
has reads any action. Between `addWildcardPolicy` and `WildcardWritten` a
reader may see any mixture of old and new fields (`Readings`), except that a
new `rule_id`, copied last and read first, implies a new entry. `touched` is
auxiliary: it records what changed under the packet in flight, to state what
such a packet may rely on.

What the kernel does is modelled from how the filter uses it and marked
external in the map: hash maps are partial functions; an insertion into a full
`session_map` evicts some sessions, any of them, before it looks at the key.
Per-CPU lists of free elements may make the kernel evict a little before the
map is full; `SessionElements` then stands for the elements at hand.

Left out because nothing reads them: byte counters, `last_seen_ts`,
`tcp_state`, `flags`, `log_enabled`, and the rule id that is only printed in
debug builds.

Properties:

- `StatsConserved`: on each CPU, TOTAL is ALLOWED + DENIED plus the packet in
  flight; each packet is looked up at most once and creates at most one
  session.
- `PoliciesObeyed`: when a lookup is over, a matching entry that was in a
  scanned slot all along has lost only to one that beats it, the action is the
  winner's, the exact table has gone first, and the default means that there
  was no such entry. This holds *during* changes of other entries.
- `UndisturbedDecision`: its corollary when nothing changed, the reference
  decision. Both take the larger number as the higher priority, as the code does.
- `RulesCover`: a packet that installed rules cover, read as addresses, ports
  and a protocol, is decided by one of them. This relates what a rule says to
  the byte orders, masks and routing of the encoding. It holds for rules about
  hosts and about anywhere, not for ranges.
- `DecisionSticks`: while `session_map` has room a stored decision is never
  replaced, by another CPU or by a later packet.
- `EventsTellSessions`: events are DENY or LOG, one per packet, and tell of the
  session that is stored.
- `PacketsFinish`: every packet in flight gets its verdict.
- `Implements`: the filter is a `StatefulFirewall`. There a flow is judged
  once, the judgement is kept in one of a bounded number of sessions, packets
  of a flow with a session are treated as the session says unless it was
  evicted under them, and a kept DENY or LOG is reported once while there is
  room. `pc`, `frame` and `touched` map to the stage of the abstract packet;
  policies, counters of sessions and the lookup are invisible.

### Statistics

`GetStatistics` makes eight lookups of `stats_map`, each copying the counters
of the CPUs one after the other.

| Action | Code in `dataplane.go` |
|---|---|
| `BeginQuery`, `Respond` | the call and its return |
| `readStat` | the value of one counter on one CPU |
| `readStatFails` | a lookup of the closed map: the error becomes a 0 |
| `Close` | `objs.Close` |

`SnapshotAccounts`: in a response TOTAL exceeds ALLOWED + DENIED by no more
than one packet per CPU, and no session is counted without its lookup, because
of the order of the eight calls. `SnapshotCurrent`: a response lies between
the counters at the start and at the end of the call. The verdicts may exceed
the total by any number, so no property bounds that side.

### ControlPlane

Each worker is the goroutine of one request; every system call and every
statement is a step.

| Action | Code |
|---|---|
| `Begin` | a validated request to `handlers/policy.go`: POST, PUT, GET or DELETE |
| `Erase`, `Forget` | `Manager.DeletePolicy`: the map call, then `SQLiteStorage.DeletePolicy` |
| `Insert` | `addExactPolicy` |
| `ProbeSlot`, `WriteSlot` | `addWildcardPolicy`: one lookup of the search, and the write of the slot found |
| `Save` | `SQLiteStorage.SavePolicy` |
| `NextKey`, `Fetch` | `ListPolicies`: the next key, its value |
| `Answer` | the response |
| `Crash`, `StartFresh`, `StartPersisted`, `Restore`, `Serve` | death of the process; start without storage (default policy of `main.go`); `LoadPersisted`, policy by policy; serving |

The order of iteration of `policy_map` is modelled (`layout`): a new or
replaced key goes to the head of its bucket, and asking for the key after one
that is gone starts over, as the kernel does. Writes of rows may fail, which
the code only logs. `promised` (what the API has confirmed), `open` (rules
about which it has promised nothing just now) and `unsaved` (rules whose last
write of a row failed) are auxiliary.

- `PromisedIsApplied`: while the agent serves, a confirmed policy is in the
  table with its content and a deleted or refused one is in neither, whatever
  else is in progress, and after restarts.
- `PromisedIsSaved`: the same for the database, at every instant.
- `SlotsPacked`: the wildcard table has no gaps and no rule id twice, so that a
  policy is beyond the filter's limit only when a full 100 others are there.
- `ListsTellTruth`: a list made key by key tells the truth about rules nobody
  is changing; only wildcard policies are missing from it, always
  (`openspec/specs/policy-matching/spec.md:189` wants all policies listed).

Three conditions, none of which the code enforces, limit what these say:

- Two requests do not change one rule id at the same time (`Compatible`).
- Wildcard policies are changed one at a time (`OneWildcardWriter`), for
  `SlotsPacked` and `PromisedIsApplied`. Without it `claim_lost` shows an update
  lost; only wildcard policies can be lost that way, and lists stay true
  (section 4).
- `PromisedIsApplied` and `ListsTellTruth` speak of the `Undisputed` rules: those
  that are always sent as the same kind of policy, and if exact with one 5-tuple
  which no other rule is sent with. The others may be among the requests, and in
  `api` they are (rule 7 takes the 5-tuple of rule 4); the properties then say
  that everybody else's policies are untouched. Of the disputed rules nothing is
  said, because the code keeps nothing: a POST of another rule with the 5-tuple of
  a confirmed one is answered 201 and overwrites its entry, where
  `control-plane-api/spec.md:59-61` of the change `add-control-plane-api` expects
  409 (also `design.md:149` and `:364`), and a PUT with a changed 5-tuple leaves
  the entry of the old one in the table.

### AgentLifecycle

Processes started one after the other, possibly alive together, on one
interface and one API port.

| Action | Code |
|---|---|
| `Start`, `Kill` | a process begins; it dies at any moment and the kernel takes back what it owns |
| `Load`, `AttachTCX`, `QdiscAdd`, `FilterList`, `CleanUp`, `FilterAdd`, `NewReader`, `Undo` | `dataplane.New` with its fallback, its clean-up of an old filter and its error paths |
| `StartServer`, `StartMonitor`, `Notify` | `main.go` after `New` |
| `Listen`, `Request` | `api/server.go`: `ListenAndServe` in its goroutine, whose failure is fatal; requests that come and go |
| `MonitorEnds` | the end of `MonitorFlowEvents` |
| `Interrupt`, `Stop`, `Drained`, `Timeout` | the signal, `Server.Stop`, its end or its time-out |
| `CloseReader`, `Detach`, `Release`, `Return` | `DataPlane.Close` and the end of `main` |

`netlink.FilterDel` may fail, and every caller goes on: the clean-up of `New`
(line 106) and its error path (137) ignore the error, `Close` (191) collects it
for a `main` that drops it. `kept` records that it failed on the process's own
filter.

- `ServingEnforces`: a process that no other has joined has its filter, and
  only its own on the hook it uses, from `New` to `Close`; also after a process
  whose filter could not be removed. It says nothing of a process once another
  has joined it.
- `CleanExit`: a process that gave up in `New` or was shut down leaves a filter
  of its own only if the very `FilterDel` that was to remove it failed (`kept`),
  whatever others do to the hook.
- `RequestsSeeMaps`: a request loses the maps only after `Stop` waited for it in
  vain.
- `ShutdownEnds`: a process that got its signal ends, whether or not requests
  do.

## 3. Runs

| Run | Instance | Shows | States |
|---|---|---|---|
| `race` | 2 CPUs, 3 packets, a TCP and an ICMP flow and a packet that does not parse, 2 updates among two exact policies of one key and a wildcard one, 2 slots, 3 session and 2 policy elements, ring of 1 | types, counters, events, coverage, obeyed policies and stored decisions under races | 484k |
| `scan` | 1 CPU, 2 packets, 3 overlapping wildcard policies (two tied, one above) in 3 updates over 3 slots | the scan against the reference (larger number wins) in every order of installation and with entries rewritten under it | 29k |
| `live` | 2 CPUs, 3 packets of a flow and its reverse, 1 session element | termination, and the refinement, with sessions evicted and their element reused under a packet | 62k |
| `stats` | 2 CPUs, 2 packets of a flow, a policy that comes and goes, 1 query, `Close` | what a response may say | 1.0M |
| `api` | 2 requests at a time of 2 changes and any number of GETs, tables of 2 entries and 2 slots, an empty database or one of four policies that fills both tables, one rule with the 5-tuple of another, 1 crash | the four properties of the control plane | 2.2M |
| `lifecycle` | 3 processes, 2 alive at a time, 1 request, `FilterDel` may fail | the four properties of the agent | 315k |
| `claim_atomic` | 1 CPU, one wildcard rule rewritten | violated, see below | |
| `claim_stored`, `claim_counter` | 2 CPUs, one flow | violated, see below | |
| `claim_priority` | 1 CPU, two slots for overlapping wildcard policies of different priorities | violated, see below | |
| `claim_prefix` | 1 CPU, a rule about a range of addresses | violated, see below | |
| `claim_lost` | 2 requests for wildcard policies at a time, no crash | violated, see below | |

Bounds. Two CPUs are enough for every race in the filter: each shared access
relates one packet to one other writer. Three packets allow two racing
creators and a packet that finds the session, or a packet whose element goes
to another flow and a third that finds that. Two updates put a change and its
reversal under one lookup. Two requests are every pair of handlers, and tables
of two entries are full, and make the database not fit, at once; the first two
keys of `MCBucket` share a bucket, so that a key goes before the cursor of a
list. Three processes are a stale filter, an agent and one that joins it.
`MaxPackets`, `MaxUpdates`, `MaxQueries`, `MaxRequests`, `MaxCrashes`,
`MaxProcesses` and `MaxAlive` are bounds of the models and appear in guards;
the other numbers are capacities of the code, made small. `SCAN_LIMIT` equals
the number of slots in these runs. The invariants and action properties are
proved for all values, with one exception named in section 4.

`race`, `scan`, `stats` and `api` use the symmetry of CPUs or workers and of
elements, which the modules treat alike and compare only for equality; the
runs with liveness or refinement properties use none.

Deadlock is checked except in `lifecycle`, where every process may have ended
and no further one may start.

Fairness. `FairSpec` of `DataPath`: the steps of a CPU whose packet is in
flight are weakly fair because a TC program runs to completion and waits for
nobody; so is the end of a copy, a `memcpy` in the kernel, and
`MonitorFlowEvents`, an endless loop around a blocking read. The arrival of
packets and requests is not fair. `FairSpec` of `AgentLifecycle`: main's own
steps and the goroutine that listens run on, and the 30 seconds of `Stop` pass;
nothing makes a request end, a signal arrive or a process start.

What the six violated claims show:

- `claim_atomic` (`UpdatesAreAtomic`): the filter matches a wildcard entry,
  keeps a pointer to its slot and reads the action through it after the loop.
  If the rule is updated in between, the packet is decided by the match of the
  old entry and the action of the new one: a flow that both versions allow is
  denied, and the decision is cached.
- `claim_stored` (`FirstDecisionStored`): the loser of a race to create a
  session enforces its own decision, which is stored nowhere.
- `claim_counter` (`PacketAddsOne`): `packets_to_server` loses increments
  between CPUs.
- `claim_priority` (`SmallerNumberWins`): a packet that a DENY policy of
  priority 0 and an ALLOW policy of priority 1 match passes, although by the
  requirements the smaller number comes first. Code, header and tests agree with
  one another, so it is the requirements that have to be corrected, or all the
  others.
- `claim_prefix` (`RulesCover`): address and mask of a prefix are read in
  different byte orders, so a range that does not end at both orders' same
  bits covers the wrong addresses; a denied packet passes.
- `claim_lost` (`PromisedIsApplied`): two requests choose the same empty slot,
  and the policy of the one that has been answered 201 is overwritten by the
  other, which is answered 201 next.

## 4. Proofs

All theorems hold for every value of the constants that meets the named
assumptions of the modules (`WidthAssumption`, `CapacityAssumption`,
`PolicyAssumption`, `BucketAssumption`, `QueryAssumption`, `BoundAssumption`),
which TLC evaluates in the runs; further hypotheses are in the statements.

`DataPathProofs`, about `DataPath`:

- `TypeCorrect`: `Spec => []TypeOK`, inductive as it stands.
- `CountersAccount`: `Spec => []StatsConserved`, inductive with `TypeOK`. A
  step of CPU `c` that counts is one of a few moves (`Moves`) of its packet,
  and each move adds one to one counter.
- `FirstDecisionStays`: `Spec => DecisionSticks`, step by step from `TypeOK`.
- `PoliciesAreObeyed`: `Spec => []PoliciesObeyed`. `PoliciesObeyed` speaks of
  finished lookups only, so it is not inductive. `IInv` adds what the loop has
  established for the slots before `i` (`Seen`), what holds when it is over
  (`Decided`), what a hit or a miss in the exact table means (`FromExact`,
  `KeyAbsent`), and that a slot being written counts as touched, so that a
  slot nobody touched is read as it is (`SteadyRead`). One lemma per action of
  the packet keeps it; packets of other CPUs change nothing the invariant of
  `c` depends on (`LookupElsewhere`); user space changes either one key
  (`KeyChange`) or takes a slot out of `Steady` first (`SlotChange`).
- `LookupIsDecision`: `Spec => []UndisturbedDecision`, from the same `IInv`.
- `PacketsAreBounded`: `Spec => []WorkIsBounded /\ [][Finishing]_vars`, the
  safety half of `PacketsFinish`. `WorkLeft` counts the steps a packet can still
  take, at most the wildcard slots and four; each of its own steps lowers it,
  and nobody else's moves the packet. What is left to fairness is that the CPU
  goes on.

`EncodingProofs`: `PlainRulesCover`, `RulesCover` for addresses of any width if
every policy is `Plain`, that is about hosts, or about anywhere in the wildcard
table, and exact rules have a destination port. The invariant `Sourced` says
that every entry is the encoding of a policy; the rest is that masks of length
0 and of full length are the same in both byte orders, and that `htons` is its
own inverse.

`RefinementProofs`: `FilterIsStatefulFirewall`, `Spec => Implements`. Every
step maps to a step or a stutter, given `SessionsInv`: no two sessions share an
element (`ElementsOwned`), and a packet on the hot path whose session was not
evicted still holds its element (`HotHolds`). That sessions are bounded by
elements follows from the injection between them.

`EventProofs`: `EventsAreTrue`, `[]EventsTellSessions` for finitely many flow
keys. Packets that are still undecided have time stamps of their own, which no
event bears yet (`OwnTimes`, `OwnEvents`); and while there are more elements
than flows nothing is evicted.

`StatisticsProofs`: `ResponsesAccount` and `ResponsesCurrent`. `QueryInv`
carries, for every line already read, how the value read relates to the
counters at the start and now, and uses `StatsConserved` and that counters
never fall.

`ControlPlaneProofs`:

- `ControlPlaneTyped`: `Spec => []TypeOK`.
- `ConfirmedIsSaved`: `Spec => []PromisedIsSaved`. `SavingInv` adds that a
  request that changes a rule has it open and knows what its last write of the
  row did, and `Running`: compatible requests, none without a serving agent.
- `SlotsStayPacked`: `Spec => []SlotsPacked` under `OneWildcardWriter`.
  `PackedInv` adds that a request that has passed a slot knows that it was
  taken by another rule.

`AppliedProofs`:

- `ConfirmedIsApplied`: `Spec => []PromisedIsApplied` under `OneWildcardWriter`,
  for the `Undisputed` rules of which the property speaks. `AppliedInv` joins the two invariants above and adds that
  entries are encodings of policies of the right kind (`Sourced`), what each
  request knows of its rule in the tables (`Applying`), and that while the agent
  does not serve, a promised policy is applied or still to be restored
  (`Resting`). Restoring a row restores what was promised because of
  `PromisedIsSaved`. All of it is said of the rules whose entries nobody else
  writes (`Owned`): every undisputed rule under `OneWildcardWriter`, and the
  undisputed exact ones always, since their key is nobody else's.
- `ExactSurvivesRaces`: for undisputed exact policies the same without
  `OneWildcardWriter`, so that neither what `claim_lost` shows nor a dispute about
  another rule's key can happen to them. No run checks
  `ExactIsApplied` as such; it is the part of `PromisedIsApplied` that the races
  leave.
- `ListsAreTrue`: `Spec => []ListsTellTruth`, without `OneWildcardWriter`. `ListInv` adds to
  `AppliedInv` two things. `LayoutInv`: the order of iteration has each key of
  `policy_map` once, by ascending bucket. `Listing`: a request that reads about
  an undisputed rule nobody is changing has found nothing but the promised entry, and while
  it has found nothing, the promised key is ahead of its cursor (`Ahead`). The
  hard case is a cursor whose key is deleted, so that the iteration starts over,
  or deleted and put back, so that it moves to the head of its bucket:
  therefore `Behind` does not say that the cursor is in the table, only that
  its bucket is not after the promised key's and that it is before it if it is
  there. `StayBehind` and `NextBehind` show that this survives every write of
  another key and every step of the iterator; `DroppedOrder` and `PlacedOrder`
  say what a write does to the order, `RemoveShift` and `InsertShift` what
  `RemoveAt` and `InsertAt` of the community modules return.

`ListInv` and its parts were checked by TLC on the policies of the `api` run, with
`OneWildcardWriter` true and false, before they were proved.

`LifecycleProofs`: `LonelyAgentEnforces`, `ExitsAreClean` and
`RequestsKeepMaps` from one inductive invariant: what a process has on the hook
and on the port follows from where it is (`OnHook`, `OnPort`), a process alone
has no live neighbour (`Lonely`), and so owns the legacy slot once it took it
(`Owns`), and past its own `FilterDel` a process that still has the hook has
`kept` it.

Every safety invariant, action property and refinement that the passing runs
check is also a theorem. Checked by TLC only: the liveness properties
`PacketsFinish` and `ShutdownEnds`, because fairness and ENABLED are beyond the
prover (`PacketsAreBounded` is as much of the former as it reaches); and the six
counterexamples.

## 5. Not modelled

- Health, configuration, middleware and wire formats of the API keep no state.
  `GET /status` calls `ListPolicies` and `GetStatistics`, which are modelled.
- The generated bindings, test helpers, end-to-end framework and load
  generator.
- Vendored bpftool, libbpf and vmlinux headers: about 640000 of the 649000
  lines of C, Go and headers in the repository. The lines the map names are
  therefore a small share of all lines, and a large one of the agent and the
  filter.
- Two requests that change one rule id at once. What becomes of rules whose
  5-tuple another rule or another request about them contends for (section 2) is
  modelled, but no property speaks of it.
- The requirements that the code plainly does not implement, so that a
  counterexample would only restate a line: 409 for a POST with an existing
  5-tuple (`control-plane-api/spec.md:59-61`), wildcard policies in lists
  (`openspec/specs/policy-matching/spec.md:189`), and an event for every dropped
  packet (`openspec/specs/policy-enforcement/spec.md:113-114`; the packets of a
  denied flow after the first are dropped from the session cache without one).
- A TCX filter next to a stale legacy one of an earlier process: nothing in
  the code removes the latter, and how the two hooks then share a packet is
  the kernel's.
- `CLOSED_SESSIONS` and `ACTIVE_SESSIONS`, which no code changes.
- The scan limit with more than 100 wildcard policies: `SlotsPacked` says when
  it bites, and which policies are then ignored is the order of their slots.
