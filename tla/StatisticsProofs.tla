-------------------------- MODULE StatisticsProofs --------------------------
(***************************************************************************)
(* What a response of the statistics endpoints tells, for every number of  *)
(* CPUs and whatever the filter does during the call.                      *)
(***************************************************************************)
EXTENDS Statistics, DataPathProofs

-----------------------------------------------------------------------------
(***************************************************************************)
(* Every counter is read once.                                             *)
(***************************************************************************)
LEMMA OrderKeys ==
  /\ \A n \in 1 .. 8 : Order[n] \in StatsKey
  /\ \A k \in StatsKey : \E n \in 1 .. 8 : Order[n] = k
  /\ \A m, n \in 1 .. 8 : Order[m] = Order[n] => m = n
  /\ Order[1] = "TOTAL_PACKETS" /\ Order[2] = "ALLOWED_PACKETS"
  /\ Order[3] = "DENIED_PACKETS" /\ Order[4] = "NEW_SESSIONS"
  /\ Order[7] = "POLICY_HITS" /\ Order[8] = "POLICY_MISSES"
<1>1. /\ Order[1] = "TOTAL_PACKETS" /\ Order[2] = "ALLOWED_PACKETS"
      /\ Order[3] = "DENIED_PACKETS" /\ Order[4] = "NEW_SESSIONS"
      /\ Order[5] = "CLOSED_SESSIONS" /\ Order[6] = "ACTIVE_SESSIONS"
      /\ Order[7] = "POLICY_HITS" /\ Order[8] = "POLICY_MISSES"
  BY DEF Order
<1>2. \A n \in 1 .. 8 : n \in {1, 2, 3, 4, 5, 6, 7, 8}
  OBVIOUS
<1>3. {1, 2, 3, 4, 5, 6, 7, 8} \subseteq 1 .. 8
  OBVIOUS
<1> QED
  BY <1>1, <1>2, <1>3 DEF StatsKey

Counters == [CPUs -> [StatsKey -> Nat]]

ReaderTyped ==
  /\ line \in 0 .. 9 /\ unread \subseteq CPUs
  /\ stats \in Counters /\ since \in Counters
  /\ closed \in BOOLEAN

(***************************************************************************)
(* Whether the counter of line n is read on a CPU, and what the response   *)
(* would show of it if the rest were read at this instant.                 *)
(***************************************************************************)
Got(c, n) == line > n \/ (line = n /\ c \notin unread)

Shows(c, n) == IF Got(c, n) THEN stats[c][Order[n]] ELSE stats_map[c][Order[n]]

Accounts(c) ==
  /\ Got(c, 1) => stats[c][Order[1]] <= Shows(c, 2) + Shows(c, 3) + 1
  /\ Got(c, 4) => stats[c][Order[4]] <= Shows(c, 7) + Shows(c, 8)

Current(c) ==
  \A n \in 1 .. 8 : /\ since[c][Order[n]] <= Shows(c, n)
                    /\ Shows(c, n) <= stats_map[c][Order[n]]

QueryInv ==
  /\ TypeOK /\ StatsConserved /\ ReaderTyped
  /\ line # Between /\ ~closed => \A c \in CPUs : Accounts(c) /\ Current(c)

-----------------------------------------------------------------------------
(***************************************************************************)
(* Counters never fall.                                                    *)
(***************************************************************************)
LEMMA CountersGrow ==
  ASSUME TypeOK, [Next]_vars, NEW c \in CPUs, NEW k \in StatsKey
  PROVE  stats_map[c][k] \in Nat /\ stats_map'[c][k] \in Nat
         /\ stats_map[c][k] <= stats_map'[c][k]
<1>0. stats_map \in Counters
  BY DEF TypeOK, Counters
<1>1. \/ stats_map' = stats_map
      \/ \E d \in CPUs, key \in StatsKey : update_stats(d, key)
  BY DEF Next, Receive, Step, ReceiveUnparsed, ReceivePacket, HotLoad, HotPath,
     LookupExact, BumpHit, ScanSlot, ScanDone, CreateSession, RefuseSession,
     EnforceNew, Enforce, UserSpace, addExactPolicy, DeletePolicy,
     addWildcardPolicy, WildcardWritten, MonitorFlowEvents, kernel, vars, StatsKey
<1>2. CASE stats_map' = stats_map
  BY <1>0, <1>2 DEF Counters
<1>3. ASSUME NEW d \in CPUs, NEW key \in StatsKey, update_stats(d, key)
      PROVE  stats_map'[c][k] \in Nat /\ stats_map[c][k] <= stats_map'[c][k]
  <2> DEFINE s == [stats_map[d] EXCEPT ![key] = stats_map[d][key] + 1]
  <2>1. stats_map' = [stats_map EXCEPT ![d] = s]
    BY <1>3 DEF update_stats
  <2>2. stats_map[d] \in [StatsKey -> Nat] /\ stats_map[c] \in [StatsKey -> Nat]
    BY <1>0 DEF Counters
  <2>3. s[k] \in Nat /\ stats_map[d][k] <= s[k]
    BY <2>2
  <2>4. stats_map'[c] = IF c = d THEN s ELSE stats_map[c]
    BY <1>0, <2>1 DEF Counters
  <2> HIDE DEF s
  <2> QED
    BY <2>2, <2>3, <2>4
<1> QED
  BY <1>0, <1>1, <1>2, <1>3 DEF Counters

LEMMA ShowsType ==
  ASSUME TypeOK, ReaderTyped, NEW c \in CPUs, NEW n \in 1 .. 8
  PROVE  Shows(c, n) \in Nat /\ stats[c][Order[n]] \in Nat
         /\ stats_map[c][Order[n]] \in Nat /\ since[c][Order[n]] \in Nat
BY OrderKeys DEF Shows, TypeOK, ReaderTyped, Counters

(***************************************************************************)
(* The filter and user space go on.                                        *)
(***************************************************************************)
LEMMA OthersKeep ==
  ASSUME QueryInv, [Next]_vars, UNCHANGED reader, line # Between, ~closed,
         NEW c \in CPUs
  PROVE  Accounts(c)' /\ Current(c)'
<1>0. TypeOK /\ ReaderTyped /\ TypeOK' /\ ReaderTyped' /\ Accounts(c) /\ Current(c)
  BY StepTyped DEF QueryInv, ReaderTyped, reader
<1>1. \A n \in 1 .. 8 : stats_map[c][Order[n]] <= stats_map'[c][Order[n]]
  BY <1>0, OrderKeys, CountersGrow
<1>2. \A n \in 1 .. 8 : /\ Shows(c, n) \in Nat /\ Shows(c, n)' \in Nat
                        /\ stats[c][Order[n]] \in Nat
                        /\ stats_map[c][Order[n]] \in Nat
                        /\ stats_map'[c][Order[n]] \in Nat
                        /\ since[c][Order[n]] \in Nat
  <2>1. /\ stats \in Counters /\ stats' \in Counters /\ since \in Counters
        /\ stats_map \in Counters /\ stats_map' \in Counters
    BY <1>0 DEF TypeOK, ReaderTyped, Counters
  <2>2. \A f \in Counters : \A n \in 1 .. 8 : f[c][Order[n]] \in Nat
    BY OrderKeys DEF Counters
  <2> QED
    BY <2>1, <2>2 DEF Shows
<1>3. /\ stats' = stats /\ since' = since
      /\ \A n \in 1 .. 8 : Got(c, n)' <=> Got(c, n)
  BY DEF reader, Got
<1>4. ASSUME NEW n \in 1 .. 8
      PROVE  Shows(c, n) <= Shows(c, n)' /\ Shows(c, n)' <= stats_map'[c][Order[n]]
  <2>1. Shows(c, n) <= stats_map[c][Order[n]]
    BY <1>0 DEF Current
  <2>2. CASE Got(c, n)
    <3>1. Shows(c, n)' = Shows(c, n)
      BY <1>3, <2>2 DEF Shows
    <3> QED
      BY <1>1, <1>2, <2>1, <3>1
  <2>3. CASE ~Got(c, n)
    <3>1. /\ Shows(c, n) = stats_map[c][Order[n]]
          /\ Shows(c, n)' = stats_map'[c][Order[n]]
      BY <1>3, <2>3 DEF Shows
    <3> QED
      BY <1>1, <1>2, <3>1
  <2> QED
    BY <2>2, <2>3
<1>5. Accounts(c)'
  BY <1>0, <1>2, <1>3, <1>4 DEF Accounts
<1>6. Current(c)'
  BY <1>0, <1>2, <1>3, <1>4 DEF Current
<1> QED
  BY <1>5, <1>6

(***************************************************************************)
(* A value that is read shows what it would have shown.                    *)
(***************************************************************************)
LEMMA ReadKeeps ==
  ASSUME QueryInv, NEW d \in CPUs, readStat(d), ~closed, NEW c \in CPUs
  PROVE  ReaderTyped' /\ Accounts(c)' /\ Current(c)'
<1>0. /\ TypeOK /\ ReaderTyped /\ Conserved(c) /\ Accounts(c) /\ Current(c)
      /\ line \in 1 .. 8 /\ d \in unread
  BY DEF QueryInv, StatsConserved, readStat, Between
<1> DEFINE s == [stats[d] EXCEPT ![Order[line]] = stats_map[d][Order[line]]]
<1>1. stats' = [stats EXCEPT ![d] = s]
  BY DEF readStat
<1>2. Order[line] \in StatsKey /\ stats[d] \in [StatsKey -> Nat]
      /\ stats_map[d][Order[line]] \in Nat
  BY <1>0, OrderKeys DEF ReaderTyped, TypeOK, Counters
<1>3. s \in [StatsKey -> Nat]
  BY <1>2
<1>4. stats' \in Counters /\ stats'[c] = IF c = d THEN s ELSE stats[c]
  BY <1>0, <1>1, <1>3 DEF ReaderTyped, Counters
<1>5. /\ line' \in 1 .. 9 /\ unread' \subseteq CPUs
      /\ since' = since /\ stats_map' = stats_map /\ closed' = closed
  BY <1>0 DEF readStat, ReaderTyped, vars
<1>6. ReaderTyped'
  BY <1>0, <1>4, <1>5 DEF ReaderTyped
<1>7. \A n \in 1 .. 8 : Got(c, n)' <=> Got(c, n) \/ (c = d /\ n = line)
  BY <1>0 DEF readStat, Got, ReaderTyped
<1>8. ~Got(d, line)
  BY <1>0 DEF Got
<1>9. \A n \in 1 .. 8 : n # line => s[Order[n]] = stats[d][Order[n]]
  BY <1>0, <1>2, OrderKeys
<1>10. s[Order[line]] = stats_map[d][Order[line]]
  BY <1>2
<1> HIDE DEF s
<1>11. \A n \in 1 .. 8 : Shows(c, n)' = Shows(c, n)
  BY <1>0, <1>4, <1>5, <1>7, <1>8, <1>9, <1>10 DEF Shows
<1>12. \A n \in 1 .. 8 : Got(c, n)' => stats'[c][Order[n]] = Shows(c, n)
  BY <1>7, <1>11 DEF Shows
<1>13. stats_map[c] \in [StatsKey -> Nat]
  BY <1>0 DEF TypeOK
<1>14. ~Got(c, 2) /\ ~Got(c, 3) /\ Got(c, 1)' =>
         stats'[c][Order[1]] <= Shows(c, 2) + Shows(c, 3) + 1
  BY <1>0, <1>12, <1>13, OrderKeys DEF Conserved, Shows, Accounts, Count, StatsKey
<1>15. Got(c, 1) => stats'[c][Order[1]] <= Shows(c, 2) + Shows(c, 3) + 1
  BY <1>0, <1>7, <1>12 DEF Shows, Accounts
<1>16. Got(c, 2) \/ Got(c, 3) => Got(c, 1)
  BY <1>0 DEF Got, ReaderTyped
<1>17. ~Got(c, 7) /\ ~Got(c, 8) /\ Got(c, 4)' =>
         stats'[c][Order[4]] <= Shows(c, 7) + Shows(c, 8)
  BY <1>0, <1>12, <1>13, OrderKeys DEF Conserved, Shows, Accounts, Count, StatsKey
<1>18. Got(c, 4) => stats'[c][Order[4]] <= Shows(c, 7) + Shows(c, 8)
  BY <1>0, <1>7, <1>12 DEF Shows, Accounts
<1>19. Got(c, 7) \/ Got(c, 8) => Got(c, 4)
  BY <1>0 DEF Got, ReaderTyped
<1>20. Accounts(c)'
  BY <1>11, <1>14, <1>15, <1>16, <1>17, <1>18, <1>19 DEF Accounts
<1>21. Current(c)'
  BY <1>0, <1>5, <1>11 DEF Current
<1> QED
  BY <1>6, <1>20, <1>21

LEMMA InitQuery == QueryInit => QueryInv
<1>1. Init => TypeOK /\ StatsConserved
  BY InitTyped DEF Init, StatsConserved, Conserved, Count, StatsKey
<1>2. NoStatistics \in Counters
  BY DEF NoStatistics, Counters
<1>3. QueryInit => TypeOK /\ StatsConserved /\ line = Between
  BY <1>1 DEF QueryInit
<1>4. QueryInit => ReaderTyped
  <2> SUFFICES ASSUME QueryInit PROVE ReaderTyped
    OBVIOUS
  <2>1. line \in 0 .. 9 /\ unread \subseteq CPUs
    BY DEF QueryInit, Between
  <2>2. closed \in BOOLEAN
    BY Zenon DEF QueryInit
  <2>3. stats \in Counters /\ since \in Counters
    BY <1>2 DEF QueryInit
  <2> QED
    BY <2>1, <2>2, <2>3 DEF ReaderTyped
<1> QED
  BY <1>3, <1>4 DEF QueryInv

LEMMA StepQuery == QueryInv /\ [QueryNext]_queryVars => QueryInv'
<1> SUFFICES ASSUME QueryInv, [QueryNext]_queryVars
             PROVE  QueryInv'
  OBVIOUS
<1>0. TypeOK /\ StatsConserved /\ ReaderTyped
  BY DEF QueryInv
<1>1. CASE [Next]_vars /\ UNCHANGED reader
  <2>1. TypeOK' /\ StatsConserved' /\ ReaderTyped'
    BY <1>0, <1>1, StepTyped, StepConserves DEF ReaderTyped, reader
  <2> QED
    BY <1>1, <2>1, OthersKeep DEF QueryInv, reader
<1>2. CASE Query
  <2>1. vars' = vars
    BY <1>2 DEF Query, BeginQuery, readStat, readStatFails, Respond, Close
  <2>2. TypeOK' /\ StatsConserved'
    BY <1>0, <2>1, StepTyped, StepConserves
  <2>3. CASE BeginQuery
    <3>1. /\ line' = 1 /\ unread' = CPUs /\ since' = stats_map /\ closed' = closed
          /\ stats_map' = stats_map /\ stats' = NoStatistics
      BY <2>3 DEF BeginQuery, vars
    <3>2. ReaderTyped'
      BY <1>0, <3>1 DEF ReaderTyped, TypeOK, Counters, NoStatistics
    <3>3. \A c \in CPUs, n \in 1 .. 8 : ~Got(c, n)'
      BY <3>1 DEF Got
    <3>4. \A c \in CPUs : Accounts(c)'
      BY <3>3 DEF Accounts
    <3>5. \A c \in CPUs : Current(c)'
      <4> SUFFICES ASSUME NEW c \in CPUs, NEW n \in 1 .. 8
                   PROVE  /\ since'[c][Order[n]] <= Shows(c, n)'
                          /\ Shows(c, n)' <= stats_map'[c][Order[n]]
        BY DEF Current
      <4>1. stats_map[c][Order[n]] \in Nat
        BY <1>0, ShowsType
      <4>2. Shows(c, n)' = stats_map[c][Order[n]]
        BY <3>1, <3>3 DEF Shows
      <4> QED
        BY <3>1, <4>1, <4>2
    <3> QED
      BY <2>2, <3>2, <3>4, <3>5 DEF QueryInv
  <2>4. CASE \E d \in CPUs : readStat(d)
    <3>1. PICK d \in CPUs : readStat(d)
      BY <2>4
    <3>2. closed' = closed /\ line # Between
      BY <3>1 DEF readStat, Between
    <3>3. ReaderTyped'
      <4>1. CASE ~closed
        BY <3>1, <4>1, ReadKeeps
      <4>2. stats' \in Counters
        <5>1. Order[line] \in StatsKey
          BY <3>1, OrderKeys DEF readStat
        <5>2. stats_map[d][Order[line]] \in Nat
          BY <1>0, <5>1 DEF TypeOK
        <5> QED
          BY <1>0, <3>1, <5>1, <5>2 DEF readStat, ReaderTyped, Counters
      <4> QED
        BY <1>0, <3>1, <4>2 DEF readStat, ReaderTyped
    <3> QED
      BY <2>2, <3>1, <3>2, <3>3, ReadKeeps DEF QueryInv
  <2>5. CASE readStatFails
    BY <1>0, <2>2, <2>5 DEF readStatFails, QueryInv, ReaderTyped
  <2>6. CASE Respond
    BY <1>0, <2>2, <2>6 DEF Respond, QueryInv, ReaderTyped, Between
  <2>7. CASE Close
    BY <1>0, <2>2, <2>7 DEF Close, QueryInv, ReaderTyped
  <2> QED
    BY <1>2, <2>3, <2>4, <2>5, <2>6, <2>7 DEF Query
<1> QED
  BY <1>1, <1>2 DEF QueryNext, queryVars

(***************************************************************************)
(* A response accounts for what it shows on every CPU, however the filter  *)
(* counts during the call (GetStatistics, tc_microsegment_filter).         *)
(***************************************************************************)
THEOREM ResponsesAccount == QuerySpec => []SnapshotAccounts
<1>1. QueryInv => SnapshotAccounts
  <2> SUFFICES ASSUME QueryInv, line = Done, ~closed, NEW c \in CPUs
               PROVE  /\ stats[c]["TOTAL_PACKETS"] <=
                           stats[c]["ALLOWED_PACKETS"] + stats[c]["DENIED_PACKETS"] + 1
                      /\ stats[c]["NEW_SESSIONS"] <=
                           stats[c]["POLICY_HITS"] + stats[c]["POLICY_MISSES"]
    BY DEF SnapshotAccounts
  <2>1. Accounts(c)
    BY DEF QueryInv, Between, Done
  <2>2. \A n \in 1 .. 8 : Got(c, n)
    BY DEF Got, Done
  <2> QED
    BY <2>1, <2>2, OrderKeys DEF Accounts, Shows
<1> QED
  BY <1>1, InitQuery, StepQuery, PTL DEF QuerySpec

(***************************************************************************)
(* A response lies between the counters at the start of the call and those *)
(* at its end (GetStatistics).                                             *)
(***************************************************************************)
THEOREM ResponsesCurrent == QuerySpec => []SnapshotCurrent
<1>1. QueryInv => SnapshotCurrent
  <2> SUFFICES ASSUME QueryInv, line = Done, ~closed, NEW c \in CPUs, NEW k \in StatsKey
               PROVE  since[c][k] <= stats[c][k] /\ stats[c][k] <= stats_map[c][k]
    BY DEF SnapshotCurrent
  <2>1. PICK n \in 1 .. 8 : Order[n] = k
    BY OrderKeys
  <2>2. Current(c) /\ Got(c, n)
    BY DEF QueryInv, Between, Done, Got
  <2> QED
    BY <2>1, <2>2 DEF Current, Shows
<1> QED
  BY <1>1, InitQuery, StepQuery, PTL DEF QuerySpec
=============================================================================
