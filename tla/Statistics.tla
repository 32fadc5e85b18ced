----------------------------- MODULE Statistics -----------------------------
(***************************************************************************)
(* GetStatistics (pkg/dataplane/dataplane.go), called by the statistics    *)
(* endpoints and by main's ticker, while the filter counts packets: one    *)
(* lookup of stats_map per counter, each of which copies the counters of   *)
(* the CPUs one after the other.  The sums over the CPUs that the code     *)
(* returns are kept here as the parts they are made of.                    *)
(***************************************************************************)
EXTENDS DataPath

CONSTANT MaxQueries  \* bound: calls of GetStatistics

ASSUME QueryAssumption == MaxQueries \in Nat

VARIABLES line,     \* the counter that is being read, 0 between two calls
          unread,   \* CPUs whose counter of this line is not copied yet
          stats,    \* the statistics read so far, by CPU
          closed,   \* whether Close has closed the maps
          queries,  \* calls so far
          since     \* auxiliary: stats_map when the call began

reader    == <<line, unread, stats, closed, queries, since>>
queryVars == <<vars, reader>>

Order == <<"TOTAL_PACKETS", "ALLOWED_PACKETS", "DENIED_PACKETS", "NEW_SESSIONS",
           "CLOSED_SESSIONS", "ACTIVE_SESSIONS", "POLICY_HITS", "POLICY_MISSES">>

Between == 0
Done    == 9

NoStatistics == [c \in CPUs |-> [k \in StatsKey |-> 0]]

QueryInit ==
  /\ Init
  /\ line = Between /\ unread = CPUs /\ queries = 0
  /\ stats = NoStatistics /\ since = NoStatistics
  /\ closed = FALSE

BeginQuery ==
  /\ line = Between
  /\ queries < MaxQueries
  /\ queries' = queries + 1
  /\ line' = 1 /\ unread' = CPUs
  /\ stats' = NoStatistics /\ since' = stats_map
  /\ UNCHANGED <<vars, closed>>

\* Bug: the calls in another order, the total not first
readStatVerdictsFirst(c) ==
  LET key == Order[1 + ((line + 1) % 8)]
  IN  /\ line \in 1 .. 8
      /\ ~closed \/ unread # CPUs
      /\ c \in unread
      /\ stats' = [stats EXCEPT ![c][key] = stats_map[c][key]]
      /\ IF unread = {c} THEN line' = line + 1 /\ unread' = CPUs
         ELSE line' = line /\ unread' = unread \ {c}
      /\ UNCHANGED <<vars, closed, queries, since>>

\* Bug: a loop that leaves one CPU out
readStatNotAll(c) ==
  /\ line \in 1 .. 8
  /\ ~closed \/ unread # CPUs
  /\ c \in unread
  /\ stats' = [stats EXCEPT ![c][Order[line]] = stats_map[c][Order[line]]]
  /\ IF Cardinality(unread) <= 2 THEN line' = line + 1 /\ unread' = CPUs
     ELSE line' = line /\ unread' = unread \ {c}
  /\ UNCHANGED <<vars, closed, queries, since>>

(***************************************************************************)
(* One value of one counter.  A lookup that has begun holds the map, so it *)
(* ends also when the map is closed meanwhile.                             *)
(***************************************************************************)
readStat(c) ==
  /\ line \in 1 .. 8
  /\ ~closed \/ unread # CPUs
  /\ c \in unread
  /\ stats' = [stats EXCEPT ![c][Order[line]] = stats_map[c][Order[line]]]
  /\ IF unread = {c} THEN line' = line + 1 /\ unread' = CPUs
     ELSE line' = line /\ unread' = unread \ {c}
  /\ UNCHANGED <<vars, closed, queries, since>>

\* The lookup of a closed map fails and the counter stays 0.
readStatFails ==
  /\ line \in 1 .. 8
  /\ closed /\ unread = CPUs
  /\ line' = line + 1
  /\ UNCHANGED <<vars, unread, stats, closed, queries, since>>

Respond ==
  /\ line = Done
  /\ line' = Between
  /\ UNCHANGED <<vars, unread, stats, closed, queries, since>>

\* DataPlane.Close, at most once; the filter may finish what is in flight.
Close ==
  /\ ~closed
  /\ closed' = TRUE
  /\ UNCHANGED <<vars, line, unread, stats, queries, since>>

Query == BeginQuery \/ (\E c \in CPUs : readStat(c)) \/ readStatFails \/ Respond \/ Close

QueryNext == (Next /\ UNCHANGED reader) \/ Query

QuerySpec == QueryInit /\ [][QueryNext]_queryVars
-----------------------------------------------------------------------------
(***************************************************************************)
(* However packets are counted during the call, a response accounts for    *)
(* what it shows: the total, read first, exceeds the verdicts by no more   *)
(* than the packet a CPU had in flight, and no session was created without *)
(* a lookup that the same response counts (the order of the eight calls of *)
(* readStat).  The verdicts may exceed the total by any number.            *)
(***************************************************************************)
SnapshotAccounts ==
  line = Done /\ ~closed =>
    \A c \in CPUs :
      /\ stats[c]["TOTAL_PACKETS"] <=
           stats[c]["ALLOWED_PACKETS"] + stats[c]["DENIED_PACKETS"] + 1
      /\ stats[c]["NEW_SESSIONS"] <=
           stats[c]["POLICY_HITS"] + stats[c]["POLICY_MISSES"]

(***************************************************************************)
(* A response counts every packet that was counted before the call and     *)
(* none that has not been counted yet, so one response never falls behind  *)
(* an earlier one (readStat adds the values of all CPUs).                  *)
(***************************************************************************)
SnapshotCurrent ==
  line = Done /\ ~closed =>
    \A c \in CPUs, k \in StatsKey :
      since[c][k] <= stats[c][k] /\ stats[c][k] <= stats_map[c][k]
=============================================================================
