-------------------------- MODULE AgentWatchProofs --------------------------
(***************************************************************************)
(* What the follower guarantees for any pids, directories and bounds: no   *)
(* goroutine is left behind, nothing an agent spent before its exit is     *)
(* lost, nothing is counted for two holders of a PID, and the labels are   *)
(* right between passes.  All rest on where a tracker can be: in the       *)
(* table, in a queue of trackers to be stopped, or in stopOne, and never   *)
(* in two of them.                                                         *)
(***************************************************************************)
EXTENDS AgentWatch, SequenceTheorems, TLAPS

(***************************************************************************)
(* The inductive invariant                                                 *)
(***************************************************************************)
\* One process has a PID at a time.
OnePerPid(procs) == \A p, q \in procs : p.pid = q.pid => p = q

Agents == \A pid \in Pids : alive[pid] # NoProcess =>
            alive[pid] \in Processes /\ alive[pid].pid = pid

\* A PID that is about to be attached to has no tracker.
Free == \A p \in fresh : tracked[p.pid] = NoTracker

\* Where in a pass there can be something to attach to, or to stop.
Queues ==
  /\ step \notin {"replace", "attach"} => fresh = {}
  /\ step # "replace" => replaced = {}
  /\ step \in {"idle", "listed", "match"} => exited = {} /\ stopping = NoTracker

\* The table maps a PID to a tracker of that PID.
Table == \A pid \in Pids : tracked[pid] # NoTracker => trackers[tracked[pid]].proc.pid = pid

InTable(t) == tracked[trackers[t].proc.pid] = t
InQueue(t) == t \in replaced \cup exited
InStop(t) == t = stopping

Placed(t) ==
  /\ InTable(t) => Following(t) /\ ~InQueue(t) /\ ~InStop(t)
  /\ InQueue(t) => Following(t) /\ ~InStop(t)
  /\ InStop(t) => trackers[t].run # "stopped"
  /\ trackers[t].run = "final" => InStop(t)
  /\ trackers[t].run # "stopped" => InTable(t) \/ InQueue(t) \/ InStop(t)

\* A tracker owes no more than its key has spent, and pays all of it at the end.
Paid(t) ==
  /\ trackers[t].base <= spent[trackers[t].proc.key]
  /\ trackers[t].owed <= spent[trackers[t].proc.key]
  /\ trackers[t].run = "final" => trackers[t].base + trackers[t].sample >= trackers[t].owed
  /\ trackers[t].run = "stopped" => trackers[t].base + trackers[t].last >= trackers[t].owed

IInv ==
  /\ TypeOK
  /\ Agents
  /\ OnePerPid(found) /\ OnePerPid(fresh)
  /\ Free
  /\ Queues
  /\ Table
  /\ \A t \in Made : Placed(t)
  /\ \A t \in Made : Paid(t)

(***************************************************************************)
(* Sequences of trackers                                                   *)
(***************************************************************************)
\* The trackers made so far are numbered from 1, and 0 names none of them.
LEMMA MadeFacts ==
  ASSUME TypeOK
  PROVE  /\ Len(trackers) \in Nat /\ Made = 1..Len(trackers)
         /\ NoTracker \notin Made
         /\ \A t \in Made : trackers[t] \in Trackers
<1>1. trackers \in Seq(Trackers)
  BY DEF TypeOK
<1>2. Len(trackers) \in Nat /\ DOMAIN trackers = 1..Len(trackers)
  BY <1>1, LenProperties
<1>3. \A t \in 1..Len(trackers) : trackers[t] \in Trackers
  BY <1>1, ElementOfSeq
<1> QED
  BY <1>2, <1>3 DEF Made, NoTracker

\* A step of one tracker leaves the numbering and the other trackers alone.
LEMMA UpdateOne ==
  ASSUME NEW s \in Seq(Trackers), NEW t \in DOMAIN s, NEW r \in Trackers
  PROVE  /\ [s EXCEPT ![t] = r] \in Seq(Trackers)
         /\ DOMAIN [s EXCEPT ![t] = r] = DOMAIN s
         /\ [s EXCEPT ![t] = r][t] = r
         /\ \A u \in DOMAIN s : u # t => [s EXCEPT ![t] = r][u] = s[u]
<1>1. DOMAIN s = 1..Len(s)
  BY LenProperties
<1>2. t \in 1..Len(s)
  BY <1>1
<1>3. [s EXCEPT ![t] = r] \in Seq(Trackers)
  BY <1>2, ExceptSeq
<1> QED
  BY <1>3

\* So does a step that visits every tracker.
LEMMA UpdateAll ==
  ASSUME NEW s \in Seq(Trackers), NEW f, DOMAIN f = DOMAIN s, f = [u \in DOMAIN f |-> f[u]],
         \A u \in DOMAIN s : f[u] \in Trackers
  PROVE  f \in Seq(Trackers)
<1>1. Len(s) \in Nat /\ DOMAIN s = 1..Len(s)
  BY LenProperties
<1>2. f \in [1..Len(s) -> Trackers]
  BY <1>1
<1> QED
  BY <1>1, <1>2

\* A new tracker gets the next number, and the old ones keep theirs.
LEMMA AppendOne ==
  ASSUME NEW s \in Seq(Trackers), NEW r \in Trackers
  PROVE  /\ Append(s, r) \in Seq(Trackers)
         /\ DOMAIN Append(s, r) = DOMAIN s \cup {Len(s) + 1}
         /\ Append(s, r)[Len(s) + 1] = r
         /\ \A u \in DOMAIN s : Append(s, r)[u] = s[u]
         /\ Len(s) + 1 \notin DOMAIN s
<1>1. Len(s) \in Nat /\ DOMAIN s = 1..Len(s)
  BY LenProperties
<1>2. Append(s, r) \in Seq(Trackers) /\ Len(Append(s, r)) = Len(s) + 1
  OBVIOUS
<1>3. DOMAIN Append(s, r) = 1..(Len(s) + 1)
  BY <1>2, LenProperties
<1>4. 1..(Len(s) + 1) = (1..Len(s)) \cup {Len(s) + 1}
  BY <1>1
<1>5. Append(s, r)[Len(s) + 1] = r /\ \A u \in 1..Len(s) : Append(s, r)[u] = s[u]
  BY <1>1
<1> QED
  BY <1>1, <1>2, <1>3, <1>4, <1>5

(***************************************************************************)
(* Steps that move no tracker                                              *)
(***************************************************************************)
\* What a step may do to a tracker that stays where it is: nothing that the end of
\* its story depends on, or anything while its story goes on.
StaysPut(u) ==
  /\ trackers'[u].proc = trackers[u].proc
  /\ trackers'[u].base = trackers[u].base
  /\ \/ /\ trackers'[u].run = trackers[u].run
        /\ trackers'[u].sample = trackers[u].sample
        /\ trackers'[u].last = trackers[u].last
        /\ trackers'[u].owed = trackers[u].owed
     \/ /\ Following(u) /\ trackers'[u].run \notin {"final", "stopped"}
        /\ trackers'[u].owed \in {trackers[u].owed, spent[trackers[u].proc.key]}

\* Such a step keeps the table, the places and the payments.
LEMMA PutKeeps ==
  ASSUME IInv, TypeOK', UNCHANGED <<tracked, stopping, replaced, exited>>,
         \A key \in Keys : spent[key] <= spent'[key],
         DOMAIN trackers' = Made, \A u \in Made : StaysPut(u)
  PROVE  Table' /\ (\A t \in Made : Placed(t))' /\ (\A t \in Made : Paid(t))'
<1>1. TypeOK /\ Table /\ (\A t \in Made : Placed(t)) /\ (\A t \in Made : Paid(t))
  BY DEF IInv
<1>2. Made' = Made
  BY DEF Made
<1>3. NoTracker \notin Made /\ \A t \in Made : trackers[t] \in Trackers
  BY <1>1, MadeFacts
<1>4. Table'
  <2> SUFFICES ASSUME NEW pid \in Pids, tracked[pid] # NoTracker
               PROVE  trackers'[tracked[pid]].proc.pid = pid
    BY DEF Table
  <2>1. tracked[pid] \in Made
    BY <1>1 DEF TypeOK
  <2> QED
    BY <1>1, <2>1 DEF Table, StaysPut
<1>5. ASSUME NEW t \in Made
      PROVE  Placed(t)'
  <2>1. Placed(t) /\ StaysPut(t)
    BY <1>1
  <2>2. (InTable(t)' <=> InTable(t)) /\ (InQueue(t)' <=> InQueue(t)) /\ (InStop(t)' <=> InStop(t))
    BY <2>1 DEF InTable, InQueue, InStop, StaysPut
  <2>3. CASE trackers'[t].run = trackers[t].run
    BY <2>1, <2>2, <2>3 DEF Placed, Following
  <2>4. CASE Following(t) /\ trackers'[t].run \notin {"final", "stopped"}
    BY <2>1, <2>2, <2>4 DEF Placed, Following
  <2> QED
    BY <2>1, <2>3, <2>4 DEF StaysPut
<1>6. ASSUME NEW t \in Made
      PROVE  Paid(t)'
  <2> DEFINE key == trackers[t].proc.key
  <2>1. Paid(t) /\ StaysPut(t)
    BY <1>1
  <2>2. /\ key \in Keys /\ trackers[t].base \in Nat /\ trackers[t].owed \in Nat
        /\ trackers[t].base + trackers[t].sample \in Nat
    BY <1>3 DEF Trackers, Processes
  <2>3. spent[key] \in Nat /\ spent'[key] \in Nat /\ spent[key] <= spent'[key]
    BY <1>1, <2>2 DEF TypeOK
  <2>4. trackers'[t].base <= spent'[key] /\ trackers'[t].owed <= spent'[key]
    BY <2>1, <2>2, <2>3 DEF Paid, StaysPut
  <2> QED
    BY <2>1, <2>4 DEF Paid, StaysPut
<1> QED
  BY <1>2, <1>4, <1>5, <1>6

\* The parts of the invariant that speak of a pass, if the pass goes nowhere.
LEMMA PassKeeps ==
  ASSUME IInv, UNCHANGED <<tracked, stopping, pass>>
  PROVE  (OnePerPid(found) /\ OnePerPid(fresh) /\ Free /\ Queues)'
BY DEF IInv, OnePerPid, Free, Queues, pass

\* What is spent is a number.
LEMMA SpentKeeps ==
  ASSUME IInv, UNCHANGED spent
  PROVE  \A key \in Keys : spent[key] <= spent'[key]
<1>1. \A key \in Keys : spent[key] \in 0..MaxSpend
  BY DEF IInv, TypeOK
<1>2. \A key \in Keys : spent[key] \in Int
  BY <1>1
<1> QED
  BY <1>2

\* Agents start, spend, connect and exit at any moment.
LEMMA StartKeeps ==
  ASSUME IInv, NEW pid \in Pids, NEW key \in Keys, Start(pid, key)
  PROVE  IInv'
<1> USE DEF Start, pass
<1>1. TypeOK'
  <2>1. MaxStarts \in Nat /\ starts \in 0..MaxStarts /\ starts < MaxStarts
    BY AgentAssumption DEF AgentAssumption, IInv, TypeOK
  <2>2. starts + 1 \in 0..MaxStarts
    BY <2>1
  <2>3. alive' \in [Pids -> Processes \cup {NoProcess}]
    BY <2>2 DEF IInv, TypeOK, Processes
  <2> QED
    BY <2>2, <2>3 DEF IInv, TypeOK, Made
<1>2. Agents'
  <2>1. starts' \in 0..MaxStarts /\ alive \in [Pids -> Processes \cup {NoProcess}]
    BY <1>1 DEF TypeOK, IInv
  <2> QED
    BY <2>1 DEF IInv, Agents, Processes
<1>3. \A u \in Made : StaysPut(u)
  BY DEF StaysPut
<1>4. \A k \in Keys : spent[k] <= spent'[k]
  BY SpentKeeps
<1>5. Table' /\ (\A t \in Made : Placed(t))' /\ (\A t \in Made : Paid(t))'
  BY <1>1, <1>3, <1>4, PutKeeps DEF Made
<1> QED
  BY <1>1, <1>2, <1>5, PassKeeps DEF IInv

\* Tokens spent only raise what a tracker can still report.
LEMMA SpendKeeps ==
  ASSUME IInv, NEW pid \in Pids, Spend(pid)
  PROVE  IInv'
<1> USE DEF Spend, pass
<1> DEFINE key == alive[pid].key
<1>1. /\ MaxSpend \in Nat /\ spent \in [Keys -> 0..MaxSpend] /\ key \in Keys
      /\ \A k \in Keys : spent[k] \in 0..MaxSpend
  BY AgentAssumption DEF AgentAssumption, IInv, TypeOK, Agents, Processes
<1>2. spent[key] + 1 \in 0..MaxSpend
  BY <1>1
<1>3. spent' = [spent EXCEPT ![key] = spent[key] + 1]
  OBVIOUS
<1> HIDE DEF key
<1>4. spent' \in [Keys -> 0..MaxSpend] /\ \A k \in Keys : spent[k] <= spent'[k]
  BY <1>1, <1>2, <1>3
<1>5. TypeOK'
  BY <1>4 DEF IInv, TypeOK, Made
<1>6. \A u \in Made : StaysPut(u)
  BY DEF StaysPut
<1>7. Table' /\ (\A t \in Made : Placed(t))' /\ (\A t \in Made : Paid(t))'
  BY <1>4, <1>5, <1>6, PutKeeps DEF Made
<1>8. Agents'
  BY DEF IInv, Agents
<1> QED
  BY <1>5, <1>7, <1>8, PassKeeps DEF IInv

\* An exit fixes what the tracker of the agent owes.
LEMMA ExitKeeps ==
  ASSUME IInv, NEW pid \in Pids, Exit(pid)
  PROVE  IInv'
<1> USE DEF Exit, pass
<1>1. trackers \in Seq(Trackers) /\ NoTracker \notin Made
  BY MadeFacts DEF IInv, TypeOK
<1>2. \A t \in Made : trackers[t] \in Trackers
  BY MadeFacts DEF IInv
<1>3. \A t \in Made : spent[trackers[t].proc.key] \in 0..MaxSpend
  BY <1>2 DEF Trackers, Processes, IInv, TypeOK
<1>4. DOMAIN trackers' = Made /\ trackers' = [t \in DOMAIN trackers' |-> trackers'[t]]
  OBVIOUS
<1>5. \A t \in Made : trackers'[t] \in Trackers
  BY <1>2, <1>3 DEF Trackers
<1>6. trackers' \in Seq(Trackers)
  BY <1>1, <1>4, <1>5, UpdateAll DEF Made
<1>7. TypeOK'
  BY <1>4, <1>6 DEF IInv, TypeOK, Made, MovedBy
<1>8. ASSUME NEW t \in Made
      PROVE  StaysPut(t)
  <2>1. CASE TracksAgentOf(t, pid)
    <3>1. tracked[pid] = t /\ tracked[pid] # NoTracker
      BY <1>1, <2>1 DEF TracksAgentOf
    <3>2. InTable(t)
      BY <3>1 DEF IInv, Table, InTable
    <3>3. Following(t)
      BY <3>2 DEF IInv, Placed
    <3>4. trackers'[t] = [trackers[t] EXCEPT !.owed = spent[trackers[t].proc.key], !.bound = FALSE]
      BY <2>1
    <3> QED
      BY <1>2, <3>3, <3>4 DEF StaysPut, Following, Trackers
  <2>2. CASE ~TracksAgentOf(t, pid)
    BY <2>2 DEF StaysPut
  <2> QED
    BY <2>1, <2>2
<1>9. \A k \in Keys : spent[k] <= spent'[k]
  BY SpentKeeps
<1>10. Table' /\ (\A t \in Made : Placed(t))' /\ (\A t \in Made : Paid(t))'
  BY <1>4, <1>7, <1>8, <1>9, PutKeeps
<1>11. Agents'
  BY DEF IInv, TypeOK, Agents
<1> QED
  BY <1>7, <1>10, <1>11, PassKeeps DEF IInv

\* A connection made or closed concerns labels alone.
LEMMA ConnectKeeps ==
  ASSUME IInv, NEW pid \in Pids, Connect(pid)
  PROVE  IInv'
<1> USE DEF Connect, pass
<1>1. \A t \in Made : trackers[t] \in Trackers
  BY MadeFacts DEF IInv
<1>2. DOMAIN trackers' = Made /\ trackers' = [t \in DOMAIN trackers' |-> trackers'[t]]
  OBVIOUS
<1>3. \A t \in Made : trackers'[t] \in Trackers /\ StaysPut(t)
  <2> SUFFICES ASSUME NEW t \in Made
               PROVE  trackers'[t] \in Trackers /\ StaysPut(t)
    OBVIOUS
  <2>1. trackers'[t] = trackers[t] \/ trackers'[t] = [trackers[t] EXCEPT !.bound = FALSE]
    OBVIOUS
  <2> QED
    BY <1>1, <2>1 DEF Trackers, StaysPut
<1>4. trackers' \in Seq(Trackers)
  BY <1>2, <1>3, UpdateAll DEF IInv, TypeOK, Made
<1>5. TypeOK'
  BY <1>2, <1>4 DEF IInv, TypeOK, Made, MovedBy
<1>6. Table' /\ (\A t \in Made : Placed(t))' /\ (\A t \in Made : Paid(t))'
  BY <1>2, <1>3, <1>5, SpentKeeps, PutKeeps
<1>7. Agents'
  BY DEF IInv, Agents
<1> QED
  BY <1>5, <1>6, <1>7, PassKeeps DEF IInv

\* The end of the context moves no tracker by itself (Run).
LEMMA CancelKeeps ==
  ASSUME IInv, Cancel
  PROVE  IInv'
<1> USE DEF Cancel, pass, machine
<1>1. TypeOK' /\ Agents'
  BY DEF IInv, TypeOK, Agents, Made
<1>2. DOMAIN trackers' = Made /\ \A t \in Made : StaysPut(t)
  BY DEF StaysPut, Made
<1>3. Table' /\ (\A t \in Made : Placed(t))' /\ (\A t \in Made : Paid(t))'
  BY <1>1, <1>2, SpentKeeps, PutKeeps
<1> QED
  BY <1>1, <1>3, PassKeeps DEF IInv

(***************************************************************************)
(* A discovery pass                                                        *)
(***************************************************************************)
LEMMA LookKeeps ==
  ASSUME IInv, Look
  PROVE  IInv'
<1> USE DEF Look
<1>1. \A p \in found' : \E pid \in Pids : alive[pid] # NoProcess /\ p = Listed(alive[pid])
  OBVIOUS
<1>2. \A pid \in Pids : alive[pid] # NoProcess =>
        Listed(alive[pid]) \in Processes /\ Listed(alive[pid]).pid = pid
  BY AgentAssumption DEF IInv, Agents, Listed, Processes, AgentAssumption
<1>3. found' \subseteq Processes /\ OnePerPid(found')
  BY <1>1, <1>2 DEF OnePerPid
<1>4. TypeOK' /\ Agents'
  BY <1>3 DEF IInv, TypeOK, Agents, Made
<1>5. (OnePerPid(found) /\ OnePerPid(fresh) /\ Free /\ Queues)'
  BY <1>3 DEF IInv, OnePerPid, Free, Queues
<1>6. DOMAIN trackers' = Made /\ \A t \in Made : StaysPut(t)
  BY DEF StaysPut, Made
<1>7. Table' /\ (\A t \in Made : Placed(t))' /\ (\A t \in Made : Paid(t))'
  BY <1>4, <1>6, SpentKeeps, PutKeeps
<1> QED
  BY <1>4, <1>5, <1>7 DEF IInv

\* What leaves the table goes into one of the queues of the pass (discover).
LEMMA ClassifyKeeps ==
  ASSUME IInv, Classify
  PROVE  IInv'
<1> USE DEF Classify, machine
<1>1. /\ NoTracker \notin Made
      /\ replaced = {} /\ exited = {} /\ stopping = NoTracker
      /\ \A p \in found : p \in Processes /\ p.pid \in Pids
      /\ OnePerPid(found)
      /\ \A pid \in Pids : tracked[pid] \in Made \cup {NoTracker}
  BY MadeFacts DEF IInv, TypeOK, Queues, Processes
<1>2. \A pid \in Pids : tracked'[pid] \in {tracked[pid], NoTracker}
  OBVIOUS
<1>3. /\ \A t \in Replaced \cup Gone : t \in Made /\ InTable(t) /\ tracked'[trackers[t].proc.pid] # t
      /\ Replaced \cup Gone \subseteq Made
  <2>1. ASSUME NEW p \in found, Reused(p)
        PROVE  /\ tracked[p.pid] \in Made /\ InTable(tracked[p.pid])
               /\ tracked'[p.pid] = NoTracker /\ trackers[tracked[p.pid]].proc.pid = p.pid
    <3>1. tracked[p.pid] \in Made /\ trackers[tracked[p.pid]].proc.pid = p.pid
      BY <1>1, <2>1 DEF Reused, Seen, IInv, Table
    <3>2. ~ \E q \in found : q.pid = p.pid /\ ~Reused(q)
      BY <1>1, <2>1 DEF OnePerPid
    <3>3. tracked'[p.pid] = NoTracker
      BY <1>1, <3>2
    <3> QED
      BY <3>1, <3>3 DEF InTable
  <2>2. ASSUME NEW pid \in Pids, tracked[pid] # NoTracker, \A q \in found : q.pid # pid
        PROVE  /\ tracked[pid] \in Made /\ InTable(tracked[pid])
               /\ tracked'[pid] = NoTracker /\ trackers[tracked[pid]].proc.pid = pid
    <3>1. tracked[pid] \in Made /\ trackers[tracked[pid]].proc.pid = pid
      BY <1>1, <2>2 DEF IInv, Table
    <3>2. tracked'[pid] = NoTracker
      BY <2>2
    <3> QED
      BY <3>1, <3>2 DEF InTable
  <2>3. \A t \in Replaced : t \in Made /\ InTable(t) /\ tracked'[trackers[t].proc.pid] # t
    BY <1>1, <2>1 DEF Replaced
  <2>4. \A t \in Gone : t \in Made /\ InTable(t) /\ tracked'[trackers[t].proc.pid] # t
    BY <1>1, <2>2 DEF Gone
  <2> QED
    BY <2>3, <2>4
<1>4. TypeOK' /\ Agents'
  <2>1. tracked' \in [Pids -> Made \cup {NoTracker}]
    BY <1>1
  <2> QED
    BY <1>3, <2>1 DEF IInv, TypeOK, Agents, Made
<1>5. (OnePerPid(found) /\ OnePerPid(fresh) /\ Queues)'
  BY <1>1 DEF OnePerPid, Queues
<1>6. Free'
  <2> SUFFICES ASSUME NEW p \in found, ~Seen(p) \/ Reused(p)
               PROVE  tracked'[p.pid] = NoTracker
    BY DEF Free
  <2>1. CASE ~Seen(p)
    BY <1>1, <1>2, <2>1 DEF Seen
  <2>2. CASE Reused(p)
    <3>1. ~ \E q \in found : q.pid = p.pid /\ ~Reused(q)
      BY <1>1, <2>2 DEF OnePerPid
    <3> QED
      BY <1>1, <3>1
  <2> QED
    BY <2>1, <2>2
<1>7. Table'
  BY <1>1, <1>2 DEF IInv, Table
<1>8. ASSUME NEW t \in Made
      PROVE  Placed(t)'
  <2> DEFINE pid == trackers[t].proc.pid
  <2>1. Placed(t) /\ t # NoTracker /\ pid \in Pids
    BY <1>1, MadeFacts DEF IInv, Trackers, Processes
  <2>2. InQueue(t)' <=> t \in Replaced \cup Gone
    BY DEF InQueue
  <2>3. InTable(t)' => InTable(t) /\ ~InQueue(t)'
    BY <1>2, <1>3, <2>1, <2>2 DEF InTable
  <2>4. InTable(t) => InTable(t)' \/ InQueue(t)'
    <3> SUFFICES ASSUME tracked[pid] = t, tracked'[pid] # t
                 PROVE  t \in Replaced \cup Gone
      BY <2>2 DEF InTable
    <3>1. ~ \E p \in found : p.pid = pid /\ ~Reused(p)
      BY <2>1
    <3>2. CASE \E p \in found : p.pid = pid
      BY <3>1, <3>2 DEF Replaced
    <3>3. CASE ~ \E p \in found : p.pid = pid
      BY <2>1, <3>3 DEF Gone
    <3> QED
      BY <3>2, <3>3
  <2>5. InQueue(t)' => InTable(t)
    BY <1>3, <2>2
  <2>6. ~InQueue(t) /\ ~InStop(t) /\ ~InStop(t)'
    BY <1>1, <2>1 DEF InQueue, InStop
  <2> QED
    BY <2>1, <2>3, <2>4, <2>5, <2>6 DEF Placed, Following
<1>9. \A t \in Made : Paid(t)'
  BY DEF IInv, Paid
<1> QED
  BY <1>4, <1>5, <1>6, <1>7, <1>8, <1>9 DEF IInv, Made

\* A new tracker takes a PID that no other has, and owes nothing yet (discover).
LEMMA AttachKeeps ==
  ASSUME IInv, NEW p \in fresh, Attach(p)
  PROVE  IInv'
<1> USE DEF Attach, machine
<1>1. /\ step = "attach" /\ p \in Processes /\ p.pid \in Pids /\ p.key \in Keys
      /\ NoTracker \notin Made /\ Made = 1..Len(trackers) /\ Len(trackers) \in Nat
      /\ trackers \in Seq(Trackers)
      /\ tracked[p.pid] = NoTracker
      /\ OnePerPid(fresh)
  BY MadeFacts DEF IInv, TypeOK, Free, Processes
<1>2. PICK new \in Nat : new = Len(trackers) + 1
  BY <1>1
<1>3. (OnePerPid(found) /\ OnePerPid(fresh) /\ Queues)' /\ Agents'
  BY <1>1 DEF IInv, OnePerPid, Queues, Agents
<1>4. CASE p.key \notin Readable
  <2>1. UNCHANGED <<tracked, trackers>>
    BY <1>4
  <2>2. TypeOK'
    BY <2>1 DEF IInv, TypeOK, Made
  <2>3. Free' /\ Table'
    BY <2>1 DEF IInv, Free, Table
  <2>4. (\A t \in Made : Placed(t))' /\ (\A t \in Made : Paid(t))'
    BY <2>1 DEF IInv, Placed, Paid, InTable, InQueue, InStop, Following, Made
  <2> QED
    BY <1>3, <2>2, <2>3, <2>4 DEF IInv
<1>5. CASE p.key \in Readable
  <2> DEFINE r == Tracker(p)
  <2>1. tracked' = [tracked EXCEPT ![p.pid] = new] /\ trackers' = Append(trackers, r)
    BY <1>2, <1>5
  <2>2. spent[p.key] \in 0..MaxSpend /\ 0 \in 0..MaxSpend
    BY <1>1, AgentAssumption DEF IInv, TypeOK, AgentAssumption
  <2>3. /\ r \in Trackers /\ r.proc = p /\ r.run = "attached"
        /\ r.base = spent[p.key] /\ r.owed = spent[p.key]
    BY <1>1, <2>2 DEF Tracker, Trackers
  <2> HIDE DEF r
  <2>4. /\ trackers' \in Seq(Trackers)
        /\ Made' = Made \cup {new} /\ new \notin Made /\ new # NoTracker
        /\ trackers'[new] = r
        /\ \A u \in Made : trackers'[u] = trackers[u]
    <3>1. r \in Trackers
      BY <2>3
    <3>2. /\ Append(trackers, r) \in Seq(Trackers)
          /\ DOMAIN Append(trackers, r) = DOMAIN trackers \cup {new}
          /\ Append(trackers, r)[new] = r
          /\ \A u \in DOMAIN trackers : Append(trackers, r)[u] = trackers[u]
          /\ new \notin DOMAIN trackers
      BY <1>1, <1>2, <3>1, AppendOne
    <3>3. trackers' = Append(trackers, r) /\ new # 0
      BY <1>1, <1>2, <2>1
    <3> QED
      BY <3>2, <3>3 DEF Made, NoTracker
  <2>5. /\ tracked' \in [Pids -> Made' \cup {NoTracker}]
        /\ tracked'[p.pid] = new
        /\ \A pid \in Pids : pid # p.pid => tracked'[pid] = tracked[pid]
    BY <1>1, <2>1, <2>4 DEF IInv, TypeOK
  <2>6. TypeOK'
    BY <2>4, <2>5 DEF IInv, TypeOK
  <2>7. Free'
    BY <1>1, <2>5 DEF IInv, TypeOK, Free, OnePerPid, Processes
  <2>8. Table'
    BY <1>1, <2>3, <2>4, <2>5 DEF IInv, TypeOK, Table
  <2>9. ASSUME NEW t \in Made
        PROVE  Placed(t)' /\ Paid(t)'
    <3>1. trackers'[t] = trackers[t] /\ trackers[t].proc.pid \in Pids /\ t # new
          /\ t # NoTracker
      BY <1>1, <2>4, MadeFacts DEF IInv, Trackers, Processes
    <3>2. InTable(t)' <=> InTable(t)
      BY <1>1, <2>5, <3>1 DEF InTable
    <3> QED
      BY <3>1, <3>2 DEF IInv, Placed, Paid, InQueue, InStop, Following
  <2>10. Placed(new)' /\ Paid(new)'
    <3>1. new \notin replaced \cup exited \cup {stopping}
      BY <2>4 DEF IInv, TypeOK
    <3>2. InTable(new)' /\ ~InQueue(new)' /\ ~InStop(new)'
      BY <2>3, <2>4, <2>5, <3>1 DEF InTable, InQueue, InStop
    <3>3. spent[p.key] \in Int
      BY <2>2
    <3> QED
      BY <2>3, <2>4, <3>2, <3>3 DEF Placed, Paid, Following
  <2>11. (\A t \in Made : Placed(t))' /\ (\A t \in Made : Paid(t))'
    BY <2>4, <2>9, <2>10
  <2> QED
    BY <1>3, <2>6, <2>7, <2>8, <2>11 DEF IInv
<1> QED
  BY <1>4, <1>5

\* The steps of a pass that only go on to the next one.
LEMMA AdvanceKeeps ==
  ASSUME IInv, AttachNext \/ MatchingEndpoints \/ RunReturns
  PROVE  IInv'
<1> USE DEF AttachNext, MatchingEndpoints, RunReturns, machine
<1>1. UNCHANGED <<machine, tracked, trackers, stopping, found, fresh, replaced, exited, done>>
  OBVIOUS
<1>2. TypeOK' /\ Agents'
  BY DEF IInv, TypeOK, Agents, Made
<1>3. (OnePerPid(found) /\ OnePerPid(fresh) /\ Free /\ Queues)'
  BY DEF IInv, OnePerPid, Free, Queues, Stopped
<1>4. DOMAIN trackers' = Made /\ \A t \in Made : StaysPut(t)
  BY <1>1 DEF StaysPut, Made
<1>5. Table' /\ (\A t \in Made : Placed(t))' /\ (\A t \in Made : Paid(t))'
  BY <1>1, <1>2, <1>4, SpentKeeps, PutKeeps
<1> QED
  BY <1>2, <1>3, <1>5 DEF IInv

\* A tracker that starts to poll stays in the table (discover).
LEMMA LaunchKeeps ==
  ASSUME IInv, Launch
  PROVE  IInv'
<1> USE DEF Launch, machine
<1>1. \A t \in Made : trackers[t] \in Trackers
  BY MadeFacts DEF IInv
<1>2. DOMAIN trackers' = Made /\ trackers' = [t \in DOMAIN trackers' |-> trackers'[t]]
  OBVIOUS
<1>3. \A t \in Made : trackers'[t] \in Trackers /\ StaysPut(t)
  BY <1>1 DEF Trackers, StaysPut, Following
<1>4. trackers' \in Seq(Trackers)
  BY <1>2, <1>3, UpdateAll DEF IInv, TypeOK, Made
<1>5. TypeOK' /\ Agents'
  BY <1>2, <1>4 DEF IInv, TypeOK, Agents, Made
<1>6. (OnePerPid(found) /\ OnePerPid(fresh) /\ Free /\ Queues)'
  BY DEF IInv, OnePerPid, Free, Queues
<1>7. Table' /\ (\A t \in Made : Placed(t))' /\ (\A t \in Made : Paid(t))'
  BY <1>2, <1>3, <1>5, SpentKeeps, PutKeeps
<1> QED
  BY <1>5, <1>6, <1>7 DEF IInv

\* A label changes nothing else of a tracker (discover).
LEMMA LabelKeeps ==
  ASSUME IInv, Label
  PROVE  IInv'
<1> USE DEF Label, machine
<1>1. \A t \in Made : trackers[t] \in Trackers
  BY MadeFacts DEF IInv
<1>2. DOMAIN trackers' = Made /\ trackers' = [t \in DOMAIN trackers' |-> trackers'[t]]
  OBVIOUS
<1>3. \A pid : Labelled(pid) \in BOOLEAN
  BY DEF Labelled
<1>4. \A t \in Made : trackers'[t] \in Trackers /\ StaysPut(t)
  BY <1>1, <1>3 DEF Trackers, StaysPut
<1>5. trackers' \in Seq(Trackers)
  BY <1>2, <1>4, UpdateAll DEF IInv, TypeOK, Made
<1>6. TypeOK' /\ Agents'
  BY <1>2, <1>5 DEF IInv, TypeOK, Agents, Made
<1>7. (OnePerPid(found) /\ OnePerPid(fresh) /\ Free /\ Queues)'
  BY DEF IInv, OnePerPid, Free, Queues
<1>8. Table' /\ (\A t \in Made : Placed(t))' /\ (\A t \in Made : Paid(t))'
  BY <1>2, <1>4, <1>6, SpentKeeps, PutKeeps
<1> QED
  BY <1>6, <1>7, <1>8 DEF IInv

\* When all are stopped the whole table goes into the queue (stopAll).
LEMMA StopAllKeeps ==
  ASSUME IInv, stopAll
  PROVE  IInv'
<1> USE DEF stopAll, machine
<1>1. /\ NoTracker \notin Made
      /\ replaced = {} /\ exited = {} /\ fresh = {} /\ stopping = NoTracker
      /\ \A pid \in Pids : tracked[pid] \in Made \cup {NoTracker}
  BY MadeFacts DEF IInv, TypeOK, Queues
<1>2. TypeOK' /\ Agents'
  BY <1>1 DEF IInv, TypeOK, Agents, Made
<1>3. (OnePerPid(found) /\ OnePerPid(fresh) /\ Free /\ Queues)' /\ Table'
  BY <1>1 DEF IInv, OnePerPid, Free, Queues, Table
<1>4. ASSUME NEW t \in Made
      PROVE  Placed(t)'
  <2>1. Placed(t) /\ t # NoTracker /\ trackers[t].proc.pid \in Pids
    BY <1>1, MadeFacts DEF IInv, Trackers, Processes
  <2>2. InTable(t) <=> InQueue(t)'
    BY <1>1, <2>1 DEF IInv, Table, InTable, InQueue
  <2>3. ~InTable(t)' /\ ~InQueue(t) /\ ~InStop(t) /\ ~InStop(t)'
    BY <1>1, <2>1 DEF InTable, InQueue, InStop
  <2> QED
    BY <2>1, <2>2, <2>3 DEF Placed, Following
<1>5. \A t \in Made : Paid(t)'
  BY DEF IInv, Paid
<1> QED
  BY <1>2, <1>3, <1>4, <1>5 DEF IInv, Made

(***************************************************************************)
(* Trackers and their goroutines                                           *)
(***************************************************************************)
\* What a sample can be: no more than the key has spent since the attach.
LEMMA SampleBounds ==
  ASSUME IInv, NEW t \in Made
  PROVE  /\ Growth(t) \in 0..MaxSpend
         /\ trackers[t].base + Growth(t) = spent[trackers[t].proc.key]
         /\ \A s \in trackers[t].sample..Growth(t) : s \in 0..MaxSpend
<1> DEFINE key == trackers[t].proc.key
<1>1. trackers[t] \in Trackers /\ Paid(t)
  BY MadeFacts DEF IInv
<1>2. /\ MaxSpend \in Nat /\ key \in Keys /\ spent[key] \in 0..MaxSpend
      /\ trackers[t].base \in 0..MaxSpend /\ trackers[t].sample \in 0..MaxSpend
      /\ trackers[t].base <= spent[key]
  BY <1>1, AgentAssumption DEF Trackers, Processes, Paid, IInv, TypeOK, AgentAssumption
<1> HIDE DEF key
<1>3. Growth(t) = spent[key] - trackers[t].base
  BY DEF Growth, key
<1>4. Growth(t) \in 0..MaxSpend /\ trackers[t].base + Growth(t) = spent[key]
  BY <1>2, <1>3
<1>5. \A s \in trackers[t].sample..Growth(t) : s \in 0..MaxSpend
  BY <1>2, <1>4
<1> QED
  BY <1>4, <1>5 DEF key

\* A goroutine that polls and reports stays where it is.
LEMMA GoroutineKeeps ==
  ASSUME IInv, NEW t \in Made, NEW r \in Trackers,
         trackers' = [trackers EXCEPT ![t] = r],
         Following(t), r.run \notin {"final", "stopped"},
         r.proc = trackers[t].proc, r.base = trackers[t].base, r.owed = trackers[t].owed,
         UNCHANGED <<machine, tracked, stopping, pass, done>>
  PROVE  IInv'
<1> USE DEF machine, pass
<1>1. /\ trackers' \in Seq(Trackers) /\ DOMAIN trackers' = Made /\ trackers'[t] = r
      /\ \A u \in Made : u # t => trackers'[u] = trackers[u]
  BY UpdateOne DEF IInv, TypeOK, Made
<1>2. TypeOK' /\ Agents'
  BY <1>1 DEF IInv, TypeOK, Agents, Made
<1>3. \A u \in Made : StaysPut(u)
  BY <1>1 DEF StaysPut, Following
<1>4. Table' /\ (\A u \in Made : Placed(u))' /\ (\A u \in Made : Paid(u))'
  BY <1>1, <1>2, <1>3, SpentKeeps, PutKeeps
<1> QED
  BY <1>2, <1>4, PassKeeps DEF IInv

\* A poll reads no more than what was spent since the attach (Watcher.Run).
LEMMA PollKeeps ==
  ASSUME IInv, NEW t \in Made, Poll(t)
  PROVE  IInv'
<1>1. PICK s \in (trackers[t].sample + 1)..Growth(t) :
        trackers' = [trackers EXCEPT ![t].sample = s, ![t].run = "report"]
  BY DEF Poll
<1>2. trackers[t] \in Trackers /\ trackers[t].sample \in Int /\ Growth(t) \in Int
  BY MadeFacts, SampleBounds DEF IInv, Trackers
<1>3. s \in trackers[t].sample..Growth(t)
  BY <1>1, <1>2
<1>4. s \in 0..MaxSpend
  BY <1>3, SampleBounds
<1> DEFINE r == [trackers[t] EXCEPT !.sample = s, !.run = "report"]
<1>5. /\ r \in Trackers /\ r.run = "report"
      /\ r.proc = trackers[t].proc /\ r.base = trackers[t].base /\ r.owed = trackers[t].owed
  BY <1>2, <1>4 DEF Trackers
<1>6. trackers' = [trackers EXCEPT ![t] = r]
  BY <1>1
<1> HIDE DEF r
<1> QED
  BY <1>5, <1>6, GoroutineKeeps DEF Poll, Following

\* The last read of a tracker covers what it owes, and finds it being stopped
\* (Watcher.Run).
LEMMA EndKeeps ==
  ASSUME IInv, NEW t \in Made, End(t)
  PROVE  IInv'
<1> DEFINE next(s) == IF s > trackers[t].sample THEN "lastReport" ELSE "finished"
<1>1. PICK s \in trackers[t].sample..Growth(t) :
        trackers' = [trackers EXCEPT ![t].sample = s, ![t].run = next(s)]
  BY DEF End
<1>2. trackers[t] \in Trackers
  BY MadeFacts DEF IInv
<1>3. s \in 0..MaxSpend
  BY SampleBounds
<1>4. next(s) \in {"lastReport", "finished"}
  OBVIOUS
<1> HIDE DEF next
<1> DEFINE r == [trackers[t] EXCEPT !.sample = s, !.run = next(s)]
<1>5. /\ r \in Trackers /\ r.run = next(s)
      /\ r.proc = trackers[t].proc /\ r.base = trackers[t].base /\ r.owed = trackers[t].owed
  BY <1>2, <1>3, <1>4 DEF Trackers
<1>6. trackers' = [trackers EXCEPT ![t] = r]
  BY <1>1
<1> HIDE DEF r
<1> QED
  BY <1>4, <1>5, <1>6, GoroutineKeeps DEF End, Following

\* A report leaves last no smaller than the sample.
LEMMA ReportedFacts ==
  ASSUME IInv, NEW t \in Made
  PROVE  /\ Reported(t) \in Trackers
         /\ Reported(t).last >= trackers[t].sample
         /\ Reported(t).proc = trackers[t].proc /\ Reported(t).base = trackers[t].base
         /\ Reported(t).owed = trackers[t].owed
<1>1. trackers[t] \in Trackers
  BY MadeFacts DEF IInv
<1>2. trackers[t].last \in Nat /\ trackers[t].sample \in Nat
  BY <1>1 DEF Trackers
<1>3. CASE Grown(t)
  <2>1. Reported(t) = [trackers[t] EXCEPT !.last = trackers[t].sample]
    BY <1>3 DEF Reported
  <2> QED
    BY <1>1, <1>2, <2>1 DEF Trackers
<1>4. CASE ~Grown(t)
  <2>1. Reported(t) = trackers[t]
    BY <1>4 DEF Reported
  <2> QED
    BY <1>1, <1>2, <1>4, <2>1 DEF Grown
<1> QED
  BY <1>3, <1>4

\* The last report of a tracker pays what it owes; its place in stopOne is free then.
LEMMA ReportKeeps ==
  ASSUME IInv, NEW t \in Made, report(t)
  PROVE  IInv'
<1> DEFINE r == [Reported(t) EXCEPT !.run = AfterReport[trackers[t].run]]
<1>1. /\ trackers' = [trackers EXCEPT ![t] = r]
      /\ trackers[t].run \in {"report", "lastReport", "final"}
  BY DEF report, AfterReport
<1>2. /\ r \in Trackers /\ r.run = AfterReport[trackers[t].run]
      /\ r.last >= trackers[t].sample
      /\ r.proc = trackers[t].proc /\ r.base = trackers[t].base /\ r.owed = trackers[t].owed
  <2>1. AfterReport[trackers[t].run] \in {"polling", "finished", "stopped"}
    BY <1>1 DEF AfterReport
  <2> QED
    BY <2>1, ReportedFacts DEF Trackers
<1> HIDE DEF r
<1>3. CASE trackers[t].run # "final"
  <2>1. r.run \in {"polling", "finished"} /\ UNCHANGED stopping
    BY <1>1, <1>2, <1>3 DEF report, AfterReport
  <2> QED
    BY <1>1, <1>2, <1>3, <2>1, GoroutineKeeps DEF report, Following
<1>4. CASE trackers[t].run = "final"
  <2> USE DEF machine, pass
  <2>1. stopping = t /\ stopping' = NoTracker /\ r.run = "stopped"
        /\ UNCHANGED <<machine, tracked, pass, done>>
    BY <1>2, <1>4 DEF report, AfterReport, IInv, Placed, InStop
  <2>2. /\ trackers' \in Seq(Trackers) /\ Made' = Made /\ trackers'[t] = r
        /\ \A u \in Made : u # t => trackers'[u] = trackers[u]
    BY <1>1, <1>2, UpdateOne DEF IInv, TypeOK, Made
  <2>3. TypeOK' /\ Agents'
    BY <2>1, <2>2 DEF IInv, TypeOK, Agents
  <2>4. (OnePerPid(found) /\ OnePerPid(fresh) /\ Free /\ Queues)'
    BY <2>1 DEF IInv, OnePerPid, Free, Queues
  <2>5. Table'
    BY <1>2, <2>1, <2>2 DEF IInv, TypeOK, Table
  <2>6. ASSUME NEW u \in Made
        PROVE  Placed(u)'
    <3>1. Placed(u) /\ (InTable(u)' <=> InTable(u)) /\ (InQueue(u)' <=> InQueue(u))
          /\ ~InStop(u)' /\ (InStop(u) <=> u = t)
      BY <1>2, <2>1, <2>2, MadeFacts DEF IInv, InTable, InQueue, InStop
    <3>2. CASE u = t
      BY <2>1, <2>2, <3>1, <3>2 DEF Placed, Following
    <3>3. CASE u # t
      BY <2>2, <3>1, <3>3 DEF Placed, Following
    <3> QED
      BY <3>2, <3>3
  <2>7. ASSUME NEW u \in Made
        PROVE  Paid(u)'
    <3>1. CASE u = t
      <4>1. r.base + r.last >= r.owed
        <5>1. trackers[t].base + trackers[t].sample >= trackers[t].owed
          BY <1>4 DEF IInv, Paid
        <5>2. /\ trackers[t].base \in Nat /\ trackers[t].sample \in Nat
              /\ trackers[t].owed \in Nat /\ r.last \in Nat
          BY <1>2, MadeFacts DEF IInv, Trackers
        <5> QED
          BY <1>2, <5>1, <5>2
      <4> QED
        BY <1>2, <2>1, <2>2, <3>1, <4>1 DEF IInv, Paid
    <3>2. CASE u # t
      BY <2>1, <2>2, <3>2 DEF IInv, Paid
    <3> QED
      BY <3>1, <3>2
  <2>8. (\A u \in Made : Placed(u))' /\ (\A u \in Made : Paid(u))'
    BY <2>2, <2>6, <2>7
  <2> QED
    BY <2>3, <2>4, <2>5, <2>8 DEF IInv
<1> QED
  BY <1>3, <1>4

\* The forced poll sees all that the key has spent.
LEMMA LastPollKeeps ==
  ASSUME IInv, NEW t \in Made, LastPoll(t)
  PROVE  IInv'
<1> USE DEF machine, pass
<1> DEFINE r == [trackers[t] EXCEPT !.sample = Growth(t), !.run = "final"]
<1>1. /\ trackers' = [trackers EXCEPT ![t] = r]
      /\ stopping = t /\ trackers[t].run = "finished"
      /\ UNCHANGED <<machine, tracked, stopping, pass, done>>
  BY DEF LastPoll, ForcedPoll
<1>2. /\ trackers[t] \in Trackers /\ Growth(t) \in 0..MaxSpend
      /\ trackers[t].base + Growth(t) = spent[trackers[t].proc.key]
  BY MadeFacts, SampleBounds DEF IInv
<1>3. /\ r \in Trackers /\ r.run = "final" /\ r.sample = Growth(t)
      /\ r.proc = trackers[t].proc /\ r.base = trackers[t].base /\ r.owed = trackers[t].owed
  BY <1>2 DEF Trackers
<1> HIDE DEF r
<1>4. /\ trackers' \in Seq(Trackers) /\ Made' = Made /\ trackers'[t] = r
      /\ \A u \in Made : u # t => trackers'[u] = trackers[u]
  BY <1>1, <1>3, UpdateOne DEF IInv, TypeOK, Made
<1>5. TypeOK' /\ Agents'
  BY <1>1, <1>4 DEF IInv, TypeOK, Agents
<1>6. Table'
  BY <1>1, <1>3, <1>4 DEF IInv, TypeOK, Table
<1>7. ASSUME NEW u \in Made
      PROVE  Placed(u)'
  <2>1. Placed(u) /\ (InTable(u)' <=> InTable(u)) /\ (InQueue(u)' <=> InQueue(u))
        /\ (InStop(u)' <=> InStop(u)) /\ (InStop(u) <=> u = t)
    BY <1>1, <1>3, <1>4 DEF IInv, InTable, InQueue, InStop
  <2>2. CASE u = t
    BY <1>3, <1>4, <2>1, <2>2 DEF Placed, Following
  <2>3. CASE u # t
    BY <1>4, <2>1, <2>3 DEF Placed, Following
  <2> QED
    BY <2>2, <2>3
<1>8. ASSUME NEW u \in Made
      PROVE  Paid(u)'
  <2>1. CASE u = t
    <3>1. Paid(t) /\ r.base + r.sample = spent[r.proc.key]
      BY <1>2, <1>3 DEF IInv
    <3>2. r.base + r.sample >= r.owed
      BY <1>3, <3>1 DEF Paid
    <3> QED
      BY <1>1, <1>3, <1>4, <2>1, <3>1, <3>2 DEF Paid
  <2>2. CASE u # t
    BY <1>1, <1>4, <2>2 DEF IInv, Paid
  <2> QED
    BY <2>1, <2>2
<1>9. (\A u \in Made : Placed(u))' /\ (\A u \in Made : Paid(u))'
  BY <1>4, <1>7, <1>8
<1> QED
  BY <1>1, <1>5, <1>6, <1>9, PassKeeps DEF IInv

\* stopOne takes a tracker from a queue.
LEMMA StopNextKeeps ==
  ASSUME IInv, NEW t \in Made, StopNext(t)
  PROVE  IInv'
<1> USE DEF StopNext, machine
<1> DEFINE r == [trackers[t] EXCEPT !.canceled = TRUE]
<1>1. trackers' = [trackers EXCEPT ![t] = r] /\ stopping = NoTracker /\ stopping' = t
  OBVIOUS
<1>2. trackers[t] \in Trackers /\ NoTracker \notin Made /\ InQueue(t)
  BY MadeFacts DEF IInv, InQueue
<1>3. r \in Trackers
  BY <1>2 DEF Trackers
<1>4. /\ r.proc = trackers[t].proc /\ r.base = trackers[t].base /\ r.owed = trackers[t].owed
      /\ r.run = trackers[t].run /\ r.sample = trackers[t].sample /\ r.last = trackers[t].last
  BY <1>2 DEF Trackers
<1> HIDE DEF r
<1>5. /\ trackers' \in Seq(Trackers) /\ Made' = Made /\ trackers'[t] = r
      /\ \A u \in Made : u # t => trackers'[u] = trackers[u]
  <2>1. trackers \in Seq(Trackers) /\ t \in DOMAIN trackers
    BY DEF IInv, TypeOK, Made
  <2>2. /\ [trackers EXCEPT ![t] = r] \in Seq(Trackers)
        /\ DOMAIN [trackers EXCEPT ![t] = r] = DOMAIN trackers
        /\ [trackers EXCEPT ![t] = r][t] = r
        /\ \A u \in DOMAIN trackers : u # t => [trackers EXCEPT ![t] = r][u] = trackers[u]
    BY <1>3, <2>1, UpdateOne
  <2> QED
    BY <1>1, <2>2 DEF Made
<1>6. TypeOK' /\ Agents'
  BY <1>1, <1>5 DEF IInv, TypeOK, Agents
<1>7. (OnePerPid(found) /\ OnePerPid(fresh) /\ Free /\ Queues)'
  BY <1>1 DEF IInv, OnePerPid, Free, Queues
<1>8. Table'
  BY <1>4, <1>5 DEF IInv, TypeOK, Table
<1>9. ASSUME NEW u \in Made
      PROVE  Placed(u)'
  <2>1. /\ Placed(u) /\ (InTable(u)' <=> InTable(u)) /\ (InStop(u)' <=> u = t) /\ ~InStop(u)
        /\ InQueue(u)' <=> InQueue(u) /\ u # t
        /\ trackers'[u].run = trackers[u].run
    BY <1>1, <1>2, <1>4, <1>5 DEF IInv, InTable, InQueue, InStop
  <2>2. CASE u = t
    BY <1>2, <2>1, <2>2 DEF Placed, Following
  <2>3. CASE u # t
    BY <2>1, <2>3 DEF Placed, Following
  <2> QED
    BY <2>2, <2>3
<1>10. \A u \in Made : Paid(u)'
  BY <1>4, <1>5 DEF IInv, Paid
<1>11. (\A u \in Made : Placed(u))' /\ (\A u \in Made : Paid(u))'
  BY <1>5, <1>9, <1>10
<1> QED
  BY <1>6, <1>7, <1>8, <1>11 DEF IInv

(***************************************************************************)
(* Theorems                                                                *)
(***************************************************************************)
LEMMA InitHolds == Init => IInv
<1> SUFFICES ASSUME Init
             PROVE  IInv
  OBVIOUS
<1> USE DEF Init
<1>1. Made = {} /\ trackers \in Seq(Trackers)
  BY DEF Made
<1>2. MaxStarts \in Nat /\ MaxSpend \in Nat /\ Stamping \subseteq BOOLEAN
  BY AgentAssumption DEF AgentAssumption
<1>3. 0 \in 0..MaxStarts /\ 0 \in 0..MaxSpend
  BY <1>2
<1>4. /\ alive \in [Pids -> Processes \cup {NoProcess}]
      /\ spent \in [Keys -> 0..MaxSpend]
      /\ tracked \in [Pids -> Made \cup {NoTracker}]
  BY <1>3
<1>5. TypeOK
  BY <1>1, <1>3, <1>4 DEF TypeOK
<1> QED
  BY <1>1, <1>5 DEF IInv, Agents, OnePerPid, Free, Queues, Table

\* Every step of the passes, the trackers and the machine keeps the invariant.
LEMMA NextKeeps == IInv /\ [Next]_vars => IInv'
<1> SUFFICES ASSUME IInv, [Next]_vars
             PROVE  IInv'
  OBVIOUS
<1>1. CASE Machine
  BY <1>1, StartKeeps, SpendKeeps, ExitKeeps, ConnectKeeps, CancelKeeps DEF Machine
<1>2. CASE discover
  BY <1>2, LookKeeps, ClassifyKeeps, AdvanceKeeps, AttachKeeps, LaunchKeeps, LabelKeeps
  DEF discover
<1>3. CASE stopAll \/ RunReturns
  BY <1>3, StopAllKeeps, AdvanceKeeps
<1>4. ASSUME NEW t \in Made, stopOne(t) \/ Goroutine(t)
      PROVE  IInv'
  BY <1>4, StopNextKeeps, LastPollKeeps, PollKeeps, EndKeeps, ReportKeeps
  DEF stopOne, Goroutine
<1>5. CASE UNCHANGED vars
  <2> USE DEF vars, machine, pass
  <2>1. TypeOK' /\ Agents'
    BY <1>5 DEF IInv, TypeOK, Agents, Made
  <2>2. DOMAIN trackers' = Made /\ \A t \in Made : StaysPut(t)
    BY <1>5 DEF StaysPut, Made
  <2>3. Table' /\ (\A t \in Made : Placed(t))' /\ (\A t \in Made : Paid(t))'
    BY <1>5, <2>1, <2>2, SpentKeeps, PutKeeps
  <2> QED
    BY <1>5, <2>1, <2>3, PassKeeps DEF IInv
<1> QED
  BY <1>1, <1>2, <1>3, <1>4, <1>5 DEF Next

\* The invariant holds in every state the follower reaches.
THEOREM Invariant == Spec => []IInv
BY InitHolds, NextKeeps, PTL DEF Spec

\* The follower's table, queues and trackers stay well-typed: every tracker that is
\* named anywhere was made, and no sample leaves the range of what is spent.
THEOREM TypeCorrect == Spec => []TypeOK
<1>1. IInv => TypeOK
  BY DEF IInv
<1> QED
  BY <1>1, Invariant, PTL

\* No goroutine is left behind, whatever PIDs are reused and whenever Run is canceled
\* (discover, stopAll).
THEOREM NoneLeftBehind == Spec => []NoOrphan
<1>1. IInv => NoOrphan
  BY DEF IInv, NoOrphan, Placed, InTable, InQueue, InStop
<1> QED
  BY <1>1, Invariant, PTL

\* All that an agent spent while it was followed is reported by the end of its
\* tracker's stop (stopOne, Watcher.Poll).
THEOREM AllReported == Spec => []NothingLost
<1>1. IInv => NothingLost
  BY DEF IInv, NothingLost, Paid
<1> QED
  BY <1>1, Invariant, PTL

(***************************************************************************)
(* What a step does to one tracker                                         *)
(***************************************************************************)
\* What was reported was sampled, and what was sampled was spent since the attach.
Fair(k) == k.last <= k.sample /\ k.base + k.sample <= spent[k.proc.key]

TrackerStep(k, r) ==
  /\ k.run # "stopped"
  /\ r.proc = k.proc /\ r.base = k.base /\ r.via = k.via
  /\ Fair(k) => Fair(r)

\* A stop or a goroutine changes one tracker: not whose it is, nor its label.
LEMMA OneTracker ==
  ASSUME IInv, NEW t \in Made, stopOne(t) \/ Goroutine(t)
  PROVE  \E r \in Trackers : trackers' = [trackers EXCEPT ![t] = r] /\ TrackerStep(trackers[t], r)
<1> DEFINE k == trackers[t]
<1>1. k \in Trackers
  BY MadeFacts DEF IInv
<1>2. /\ k.last \in Nat /\ k.sample \in Nat /\ k.base \in Nat /\ spent[k.proc.key] \in Int
      /\ Growth(t) \in Int /\ k.base + Growth(t) = spent[k.proc.key]
  <2>1. k.base \in 0..MaxSpend /\ k.proc.key \in Keys
    BY <1>1 DEF Trackers, Processes
  <2>2. MaxSpend \in Nat /\ spent[k.proc.key] \in 0..MaxSpend
    BY <2>1, AgentAssumption DEF AgentAssumption, IInv, TypeOK
  <2>3. Growth(t) \in 0..MaxSpend /\ k.base + Growth(t) = spent[k.proc.key]
    BY SampleBounds
  <2>4. k.last \in 0..MaxSpend /\ k.sample \in 0..MaxSpend
    BY <1>1 DEF Trackers
  <2> QED
    BY <2>1, <2>2, <2>3, <2>4
<1>3. CASE StopNext(t)
  <2> DEFINE r == [k EXCEPT !.canceled = TRUE]
  <2>1. trackers' = [trackers EXCEPT ![t] = r]
    BY <1>3 DEF StopNext
  <2>2. k.run # "stopped"
    BY <1>3 DEF StopNext, IInv, Placed, InQueue, Following
  <2>3. r \in Trackers /\ TrackerStep(k, r)
    BY <1>1, <2>2 DEF Trackers, TrackerStep, Fair
  <2> HIDE DEF r
  <2> QED
    BY <2>1, <2>3
<1>4. ASSUME NEW s \in 0..MaxSpend, s <= Growth(t), s >= k.sample \/ s = Growth(t),
             NEW w \in {"report", "lastReport", "finished", "final"},
             trackers' = [trackers EXCEPT ![t].sample = s, ![t].run = w], k.run # "stopped"
      PROVE  \E r \in Trackers : trackers' = [trackers EXCEPT ![t] = r] /\ TrackerStep(k, r)
  <2> DEFINE r == [k EXCEPT !.sample = s, !.run = w]
  <2>1. trackers' = [trackers EXCEPT ![t] = r]
    BY <1>4
  <2>2. /\ r \in Trackers /\ r.sample = s /\ r.last = k.last
        /\ r.proc = k.proc /\ r.base = k.base /\ r.via = k.via
    BY <1>1, <1>4 DEF Trackers
  <2> HIDE DEF r
  <2>3. Fair(k) => k.sample <= s /\ k.base + s <= spent[k.proc.key]
    BY <1>2, <1>4 DEF Fair
  <2>4. Fair(k) => Fair(r)
    BY <1>2, <1>4, <2>2, <2>3 DEF Fair
  <2> QED
    BY <1>4, <2>1, <2>2, <2>4 DEF TrackerStep
<1>5. CASE LastPoll(t)
  <2>1. trackers' = [trackers EXCEPT ![t].sample = Growth(t), ![t].run = "final"]
    BY <1>5 DEF LastPoll, ForcedPoll
  <2>2. Growth(t) \in 0..MaxSpend /\ Growth(t) <= Growth(t) /\ k.run # "stopped"
    BY <1>2, <1>5, SampleBounds DEF LastPoll
  <2> QED
    BY <1>4, <2>1, <2>2
<1>6. CASE Poll(t)
  <2>1. PICK s \in (k.sample + 1)..Growth(t) :
          trackers' = [trackers EXCEPT ![t].sample = s, ![t].run = "report"]
    BY <1>6 DEF Poll
  <2>2. s \in 0..MaxSpend /\ s <= Growth(t) /\ s >= k.sample
    BY <1>2, SampleBounds
  <2> QED
    BY <1>4, <1>6, <2>1, <2>2 DEF Poll
<1>7. CASE End(t)
  <2> DEFINE next(s) == IF s > trackers[t].sample THEN "lastReport" ELSE "finished"
  <2>1. PICK s \in k.sample..Growth(t) :
          trackers' = [trackers EXCEPT ![t].sample = s, ![t].run = next(s)]
    BY <1>7 DEF End
  <2>2. s \in 0..MaxSpend /\ s <= Growth(t) /\ s >= k.sample
    BY <1>2, SampleBounds
  <2>3. next(s) \in {"report", "lastReport", "finished", "final"} /\ k.run # "stopped"
    BY <1>7 DEF End
  <2> HIDE DEF next
  <2> QED
    BY <1>4, <2>1, <2>2, <2>3
<1>8. CASE report(t)
  <2> DEFINE r == [Reported(t) EXCEPT !.run = AfterReport[trackers[t].run]]
  <2>1. /\ trackers' = [trackers EXCEPT ![t] = r]
        /\ k.run \in {"report", "lastReport", "final"}
    BY <1>8 DEF report, AfterReport
  <2>2. AfterReport[k.run] \in {"polling", "finished", "stopped"}
    BY <2>1 DEF AfterReport
  <2>3. Reported(t) \in Trackers /\ Reported(t).proc = k.proc /\ Reported(t).base = k.base
    BY ReportedFacts
  <2>4. Reported(t).via = k.via /\ Reported(t).sample = k.sample
        /\ Reported(t).last \in {k.last, k.sample}
    BY <1>1 DEF Reported, Trackers
  <2>5. /\ r \in Trackers /\ r.proc = k.proc /\ r.base = k.base /\ r.via = k.via
        /\ r.sample = k.sample /\ r.last \in {k.last, k.sample}
    BY <2>2, <2>3, <2>4 DEF Trackers
  <2> HIDE DEF r
  <2>6. Fair(k) => Fair(r)
    BY <1>2, <2>5 DEF Fair
  <2> QED
    BY <2>1, <2>5, <2>6 DEF TrackerStep
<1> QED
  BY <1>3, <1>5, <1>6, <1>7, <1>8 DEF stopOne, Goroutine

(***************************************************************************)
(* Labels                                                                  *)
(***************************************************************************)
\* The connection table, while it is used, is right about every agent that has not
\* moved since it was read.
TableRead ==
  step = "match" => \A pid \in Pids \ moved : tracked[pid] # NoTracker =>
                      (pid \in matched <=> pid \in linked)

LabelInv == IInv /\ LabelsSettled /\ TableRead

\* A label is of use only between passes and while the table is read, so only steps that
\* begin or end there matter.
LEMMA LabelsKeep ==
  ASSUME LabelInv, UNCHANGED <<step, tracked, matched>>,
         moved \subseteq moved',
         step \in {"match", "idle"} =>
           \A pid \in Pids \ moved' : pid \in linked' <=> pid \in linked,
         step = "idle" => \A u \in Made : trackers'[u].via = trackers[u].via
  PROVE  (LabelsSettled /\ TableRead)'
<1>1. \A pid \in Pids : tracked[pid] # NoTracker => tracked[pid] \in Made
  BY DEF LabelInv, IInv, TypeOK
<1> QED
  BY <1>1 DEF LabelInv, LabelsSettled, TableRead

\* A stop and a goroutine change no tracker but their own, and its label not at all.
LEMMA ViaKeeps ==
  ASSUME IInv, NEW t \in Made, stopOne(t) \/ Goroutine(t)
  PROVE  \A u \in Made : trackers'[u].via = trackers[u].via
<1>1. PICK r \in Trackers : trackers' = [trackers EXCEPT ![t] = r] /\ TrackerStep(trackers[t], r)
  BY OneTracker
<1>2. trackers \in Seq(Trackers) /\ t \in DOMAIN trackers
  BY DEF IInv, TypeOK, Made
<1>3. trackers'[t] = r /\ \A u \in Made : u # t => trackers'[u] = trackers[u]
  BY <1>1, <1>2, UpdateOne DEF Made
<1> QED
  BY <1>1, <1>3 DEF TrackerStep

\* Every step keeps the labels right between passes.
LEMMA LabelInvKeeps == LabelInv /\ [Next]_vars => LabelInv'
<1> SUFFICES ASSUME LabelInv, [Next]_vars
             PROVE  LabelInv'
  OBVIOUS
<1>1. IInv /\ IInv'
  BY NextKeeps DEF LabelInv
<1>2. \A u \in Made : trackers[u] \in Trackers
  BY <1>1, MadeFacts DEF IInv
<1> SUFFICES (LabelsSettled /\ TableRead)'
  BY <1>1 DEF LabelInv
<1>3. ASSUME NEW pid \in Pids, (\E key \in Keys : Start(pid, key)) \/ Spend(pid)
      PROVE  (LabelsSettled /\ TableRead)'
  <2>1. UNCHANGED <<step, tracked, matched, moved, linked, trackers>>
    BY <1>3 DEF Start, Spend, pass
  <2> QED
    BY <2>1, LabelsKeep
<1>4. ASSUME NEW pid \in Pids, Exit(pid) \/ Connect(pid)
      PROVE  (LabelsSettled /\ TableRead)'
  <2>1. moved' = MovedBy(pid) /\ UNCHANGED <<step, tracked, matched>>
    BY <1>4 DEF Exit, Connect, pass
  <2>2. \A q \in Pids : q # pid => (q \in linked' <=> q \in linked)
    <3>1. linked' \in {linked \ {pid}, linked \cup {pid}}
      BY <1>4 DEF Exit, Connect
    <3> QED
      BY <3>1
  <2>3. ASSUME NEW u \in Made
        PROVE  trackers'[u].via = trackers[u].via
    <3>1. CASE Exit(pid)
      BY <1>2, <3>1 DEF Exit, Trackers
    <3>2. CASE Connect(pid)
      BY <1>2, <3>2 DEF Connect, Trackers
    <3> QED
      BY <1>4, <3>1, <3>2
  <2>4. moved \subseteq moved' /\ (step \in {"match", "idle"} => pid \in moved')
    BY <2>1 DEF MovedBy
  <2> QED
    BY <2>1, <2>2, <2>3, <2>4, LabelsKeep
<1>5. CASE Cancel \/ UNCHANGED vars
  <2>1. UNCHANGED <<step, tracked, matched, moved, linked, trackers>>
    BY <1>5 DEF Cancel, machine, pass, vars
  <2> QED
    BY <2>1, LabelsKeep
<1>6. CASE Look \/ Classify \/ AttachNext \/ Launch \/ stopAll \/ RunReturns
  <2>1. step' \notin {"idle", "match"}
    BY <1>6 DEF Look, Classify, AttachNext, Launch, stopAll, RunReturns
  <2> QED
    BY <2>1 DEF LabelsSettled, TableRead
<1>7. ASSUME NEW p \in fresh, Attach(p)
      PROVE  (LabelsSettled /\ TableRead)'
  <2>1. step' \notin {"idle", "match"}
    BY <1>7 DEF Attach
  <2> QED
    BY <2>1 DEF LabelsSettled, TableRead
<1>8. CASE MatchingEndpoints
  BY <1>8 DEF MatchingEndpoints, machine, LabelsSettled, TableRead
<1>9. CASE Label
  <2>1. /\ step = "match" /\ step' = "idle"
        /\ UNCHANGED <<tracked, moved, linked>>
    BY <1>9 DEF Label, machine
  <2>2. TableRead'
    BY <2>1 DEF TableRead
  <2>3. ASSUME NEW pid \in Pids \ moved, tracked[pid] # NoTracker
        PROVE  trackers'[tracked[pid]].via <=> pid \in linked
    <3> DEFINE t == tracked[pid]
    <3>1. t \in Made /\ trackers[t].proc.pid = pid /\ trackers[t] \in Trackers
      BY <1>1, <1>2, <2>3 DEF IInv, TypeOK, Table
    <3>2. trackers'[t] = [trackers[t] EXCEPT !.via = Labelled(pid)]
      BY <1>9, <3>1 DEF Label
    <3>3. trackers'[t].via = (pid \in matched)
      BY <3>1, <3>2 DEF Labelled, Trackers
    <3> QED
      BY <2>1, <2>3, <3>3 DEF LabelInv, TableRead
  <2>4. LabelsSettled'
    BY <2>1, <2>3 DEF LabelsSettled
  <2> QED
    BY <2>2, <2>4
<1>10. ASSUME NEW t \in Made, stopOne(t) \/ Goroutine(t)
       PROVE  (LabelsSettled /\ TableRead)'
  <2>1. \A u \in Made : trackers'[u].via = trackers[u].via
    BY <1>1, <1>10, ViaKeeps
  <2>2. UNCHANGED <<step, tracked, matched, moved, linked>>
    BY <1>10 DEF stopOne, Goroutine, StopNext, LastPoll, Poll, End, report, machine, pass
  <2> QED
    BY <2>1, <2>2, LabelsKeep
<1> QED
  BY <1>3, <1>4, <1>5, <1>6, <1>7, <1>8, <1>9, <1>10 DEF Next, Machine, discover

\* Between passes an agent is labelled with an engine exactly if it is connected to one,
\* unless that changed after the table was read (discover, event).
THEOREM LabelsAreRight == Spec => []LabelsSettled
<1>1. Init => LabelInv
  BY InitHolds DEF Init, LabelInv, LabelsSettled, TableRead
<1>2. LabelInv => LabelsSettled
  BY DEF LabelInv
<1> QED
  BY <1>1, <1>2, LabelInvKeeps, PTL DEF Spec

(***************************************************************************)
(* Reused PIDs                                                             *)
(***************************************************************************)
\* Of two trackers of a PID the older one is stopped, and if they read the same, all it
\* reported was there when the younger one attached.
Succession ==
  \A t, u \in Made : t < u /\ trackers[t].proc.pid = trackers[u].proc.pid =>
    /\ trackers[t].run = "stopped"
    /\ trackers[t].proc.key = trackers[u].proc.key
         => trackers[t].base + trackers[t].last <= trackers[u].base

\* Nothing is being stopped while agents are attached to, and what is left to be stopped
\* after it had none of their PIDs.
Handover ==
  /\ step = "attach" => stopping = NoTracker
  /\ \A p \in fresh : \A t \in exited : trackers[t].proc.pid # p.pid

ReuseInv ==
  /\ IInv
  /\ \A t \in Made : Fair(trackers[t])
  /\ Succession
  /\ Handover

\* A tracker keeps its agent and where it began, and is done when it is stopped.
Lasting(u) ==
  /\ trackers'[u].proc = trackers[u].proc
  /\ trackers'[u].base = trackers[u].base
  /\ trackers[u].run = "stopped" =>
       trackers'[u].run = "stopped" /\ trackers'[u].last = trackers[u].last

\* A step that makes no tracker, and lets each last, keeps the order of the holders of a
\* PID.
LEMMA SuccessionKeeps ==
  ASSUME ReuseInv, Made' = Made, \A u \in Made : Lasting(u)
  PROVE  Succession'
BY DEF ReuseInv, Succession, Lasting

\* The steps of the machine that reach into trackers, and those of a pass.
LEMMA TouchesKeep ==
  ASSUME IInv, NEW u \in Made,
         \/ \E pid \in Pids : Exit(pid) \/ Connect(pid)
         \/ Launch
         \/ Label
  PROVE  /\ Made' = Made /\ UNCHANGED spent
         /\ Lasting(u)
         /\ trackers'[u].sample = trackers[u].sample /\ trackers'[u].last = trackers[u].last
<1>1. trackers[u] \in Trackers
  BY MadeFacts DEF IInv
<1>2. ASSUME NEW pid \in Pids, Exit(pid)
      PROVE  /\ Made' = Made /\ UNCHANGED spent
             /\ Lasting(u)
             /\ trackers'[u].sample = trackers[u].sample /\ trackers'[u].last = trackers[u].last
  BY <1>1, <1>2 DEF Exit, Lasting, Trackers, Made
<1>3. ASSUME NEW pid \in Pids, Connect(pid)
      PROVE  /\ Made' = Made /\ UNCHANGED spent
             /\ Lasting(u)
             /\ trackers'[u].sample = trackers[u].sample /\ trackers'[u].last = trackers[u].last
  BY <1>1, <1>3 DEF Connect, Lasting, Trackers, Made
<1>4. CASE Launch
  BY <1>1, <1>4 DEF Launch, Lasting, Trackers, Made, machine
<1>5. CASE Label
  BY <1>1, <1>5 DEF Label, Lasting, Trackers, Made, machine
<1> QED
  BY <1>2, <1>3, <1>4, <1>5

\* An agent is attached to when every tracker its PID ever had is stopped.
LEMMA AttachSucceeds ==
  ASSUME ReuseInv, NEW p \in fresh, Attach(p)
  PROVE  (\A t \in Made : Fair(trackers[t]))' /\ Succession' /\ Handover'
<1> USE DEF Attach, machine
<1>1. /\ IInv /\ step = "attach" /\ stopping = NoTracker /\ replaced = {}
      /\ p \in Processes /\ p.pid \in Pids /\ p.key \in Keys
      /\ tracked[p.pid] = NoTracker /\ NoTracker \notin Made
      /\ Made = 1..Len(trackers) /\ Len(trackers) \in Nat
      /\ trackers \in Seq(Trackers) /\ \A t \in Made : trackers[t] \in Trackers
  BY MadeFacts DEF ReuseInv, Handover, IInv, TypeOK, Queues, Free, Processes
<1>2. CASE p.key \notin Readable
  BY <1>2 DEF ReuseInv, Succession, Handover, Fair, Made
<1>3. CASE p.key \in Readable
  <2> DEFINE r == Tracker(p)
  <2> PICK new \in Nat : new = Len(trackers) + 1
    BY <1>1
  <2>1. trackers' = Append(trackers, r) /\ UNCHANGED <<spent, step, stopping, exited>>
        /\ fresh' \subseteq fresh
    BY <1>3
  <2>2. spent[p.key] \in 0..MaxSpend /\ MaxSpend \in Nat
    BY <1>1, AgentAssumption DEF IInv, TypeOK, AgentAssumption
  <2>3. /\ r \in Trackers /\ r.proc = p /\ r.base = spent[p.key]
        /\ r.last = 0 /\ r.sample = 0
    BY <1>1, <2>2 DEF Tracker, Trackers
  <2> HIDE DEF r
  <2>4. /\ Made' = Made \cup {new} /\ new \notin Made /\ trackers'[new] = r
        /\ \A t \in Made : trackers'[t] = trackers[t]
    <3>1. r \in Trackers
      BY <2>3
    <3>2. /\ DOMAIN Append(trackers, r) = DOMAIN trackers \cup {new}
          /\ Append(trackers, r)[new] = r
          /\ \A u \in DOMAIN trackers : Append(trackers, r)[u] = trackers[u]
          /\ new \notin DOMAIN trackers
      BY <1>1, <3>1, AppendOne
    <3> QED
      BY <2>1, <3>2 DEF Made
  <2>5. \A t \in Made : ~(new < t) /\ ~(new < new)
    BY <1>1
  <2>6. (\A t \in Made : Fair(trackers[t]))'
    <3>1. Fair(trackers[new])'
      BY <2>1, <2>2, <2>3, <2>4 DEF Fair
    <3>2. \A t \in Made : Fair(trackers[t])'
      BY <2>1, <2>4 DEF ReuseInv, Fair
    <3> QED
      BY <2>4, <3>1, <3>2
  <2>7. ASSUME NEW t \in Made, trackers[t].proc.pid = p.pid
        PROVE  /\ trackers[t].run = "stopped"
               /\ trackers[t].proc.key = p.key
                    => trackers[t].base + trackers[t].last <= spent[p.key]
    <3>1. ~InTable(t) /\ ~InStop(t)
      BY <1>1, <2>7 DEF InTable, InStop
    <3>2. ~InQueue(t)
      BY <1>1, <2>7 DEF InQueue, ReuseInv, Handover
    <3>3. trackers[t].run = "stopped"
      BY <3>1, <3>2 DEF ReuseInv, IInv, Placed
    <3>4. /\ trackers[t].base \in 0..MaxSpend /\ trackers[t].last \in 0..MaxSpend
          /\ trackers[t].sample \in 0..MaxSpend
      BY <1>1 DEF Trackers
    <3>5. /\ trackers[t].last <= trackers[t].sample
          /\ trackers[t].base + trackers[t].sample <= spent[trackers[t].proc.key]
      BY DEF ReuseInv, Fair
    <3>6. trackers[t].proc.key = p.key => trackers[t].base + trackers[t].last <= spent[p.key]
      <4> HIDE DEF Attach
      <4> QED
        BY <2>2, <3>4, <3>5
    <3> QED
      BY <3>3, <3>6
  <2>8. Succession'
    <3> SUFFICES ASSUME NEW t \in Made', NEW u \in Made', t < u,
                        trackers'[t].proc.pid = trackers'[u].proc.pid
                 PROVE  /\ trackers'[t].run = "stopped"
                        /\ trackers'[t].proc.key = trackers'[u].proc.key
                             => trackers'[t].base + trackers'[t].last <= trackers'[u].base
      BY DEF Succession
    <3>1. t \in Made
      <4>1. t # new
        BY <2>4, <2>5
      <4> QED
        BY <2>4, <4>1
    <3>2. CASE u = new
      BY <2>3, <2>4, <2>7, <3>1, <3>2
    <3>3. CASE u # new
      <4>1. u \in Made /\ trackers'[u] = trackers[u] /\ trackers'[t] = trackers[t]
        BY <2>4, <3>1, <3>3
      <4> QED
        BY <3>1, <4>1 DEF ReuseInv, Succession
    <3> QED
      BY <3>2, <3>3
  <2>9. Handover'
    <3>1. \A t \in exited : t \in Made /\ trackers'[t] = trackers[t]
      BY <1>1, <2>4 DEF IInv, TypeOK
    <3> QED
      BY <2>1, <3>1 DEF ReuseInv, Handover
  <2> QED
    BY <2>6, <2>8, <2>9
<1> QED
  BY <1>2, <1>3

\* The other steps leave the trackers in place.
LEMMA ReuseStays ==
  ASSUME ReuseInv, IInv', Made' = Made, \A u \in Made : Lasting(u),
         \A u \in Made : Fair(trackers[u])',
         step' = "attach" => stopping' = NoTracker,
         \/ fresh' = {}
         \/ fresh' \subseteq fresh /\ exited' \subseteq exited
  PROVE  ReuseInv'
<1>1. Succession'
  BY SuccessionKeeps
<1>2. exited \subseteq Made
  BY DEF ReuseInv, IInv, TypeOK
<1>3. Handover'
  BY <1>2 DEF ReuseInv, Handover, Lasting
<1> QED
  BY <1>1, <1>3 DEF ReuseInv

\* Every step keeps the holders of a PID in order and paid once.
LEMMA ReuseInvKeeps == ReuseInv /\ [Next]_vars => ReuseInv'
<1> SUFFICES ASSUME ReuseInv, [Next]_vars
             PROVE  ReuseInv'
  OBVIOUS
<1>1. IInv /\ IInv' /\ Handover /\ \A u \in Made : Fair(trackers[u])
  BY NextKeeps DEF ReuseInv
<1>2. \A u \in Made : trackers[u] \in Trackers
  BY <1>1, MadeFacts DEF IInv
<1>3. ASSUME UNCHANGED <<trackers, spent>>
      PROVE  Made' = Made /\ \A u \in Made : Lasting(u) /\ Fair(trackers[u])'
  BY <1>1, <1>3 DEF Made, Lasting, Fair
<1>4. ASSUME NEW pid \in Pids, (\E key \in Keys : Start(pid, key))
      PROVE  ReuseInv'
  BY <1>1, <1>3, <1>4, ReuseStays DEF Start, pass, Handover
<1>5. ASSUME NEW pid \in Pids, Spend(pid)
      PROVE  ReuseInv'
  <2>1. UNCHANGED <<trackers, stopping, step, fresh, exited>>
    BY <1>5 DEF Spend, pass
  <2>2. \A key \in Keys : spent[key] \in Int /\ spent'[key] \in Int /\ spent[key] <= spent'[key]
    <3>1. MaxSpend \in Nat /\ \A key \in Keys : spent[key] \in 0..MaxSpend
      BY <1>1, AgentAssumption DEF AgentAssumption, IInv, TypeOK
    <3>2. spent \in [Keys -> 0..MaxSpend]
      BY <1>1 DEF IInv, TypeOK
    <3>3. \A key \in Keys : spent'[key] \in {spent[key], spent[key] + 1}
      BY <1>5, <3>2 DEF Spend
    <3> QED
      BY <3>1, <3>3
  <2>3. ASSUME NEW u \in Made
        PROVE  Fair(trackers[u])'
    <3>1. Fair(trackers[u]) /\ trackers[u].proc.key \in Keys
      BY <1>1, <1>2 DEF Trackers, Processes
    <3>2. /\ trackers[u].base \in 0..MaxSpend /\ trackers[u].last \in 0..MaxSpend
          /\ trackers[u].sample \in 0..MaxSpend
      BY <1>2 DEF Trackers
    <3> QED
      BY <2>1, <2>2, <3>1, <3>2 DEF Fair
  <2>4. Made' = Made /\ \A u \in Made : Lasting(u)
    BY <2>1 DEF Made, Lasting
  <2> QED
    BY <1>1, <2>1, <2>3, <2>4, ReuseStays DEF Handover
<1>6. CASE \/ \E pid \in Pids : Exit(pid) \/ Connect(pid)
           \/ Launch
           \/ Label
  <2>1. Made' = Made
    BY <1>6 DEF Exit, Connect, Launch, Label, Made
  <2>2. \A u \in Made : Lasting(u) /\ Fair(trackers[u])'
    BY <1>1, <1>6, TouchesKeep DEF Fair, Lasting
  <2>3. UNCHANGED <<stopping, fresh, exited>> /\ step' \in {step, "exit", "idle"}
    BY <1>6 DEF Exit, Connect, Launch, Label, pass
  <2> QED
    BY <1>1, <2>1, <2>2, <2>3, ReuseStays DEF Handover
<1>7. CASE Cancel \/ UNCHANGED vars
  BY <1>1, <1>3, <1>7, ReuseStays DEF Cancel, machine, pass, vars, Handover
<1>8. CASE Look \/ AttachNext \/ MatchingEndpoints \/ RunReturns
  <2>1. /\ UNCHANGED <<trackers, spent, stopping, fresh, exited>>
        /\ step' = "attach" => stopping = NoTracker
    BY <1>8 DEF Look, AttachNext, MatchingEndpoints, RunReturns, machine, Stopped
  <2> QED
    BY <1>1, <1>3, <2>1, ReuseStays
<1>9. CASE stopAll
  <2>1. UNCHANGED <<trackers, spent, fresh>> /\ fresh = {} /\ step' = "closing"
    BY <1>1, <1>9 DEF stopAll, machine, IInv, Queues
  <2> QED
    BY <1>1, <1>3, <2>1, ReuseStays
<1>10. CASE Classify
  <2>1. UNCHANGED <<trackers, spent, stopping>> /\ step' = "replace"
        /\ fresh' \subseteq found /\ exited' = Gone
    BY <1>10 DEF Classify, machine
  <2>2. \A t \in Gone : \A p \in found : trackers[t].proc.pid # p.pid
    <3> SUFFICES ASSUME NEW pid \in Pids, tracked[pid] # NoTracker, \A q \in found : q.pid # pid
                 PROVE  \A p \in found : trackers[tracked[pid]].proc.pid # p.pid
      BY DEF Gone
    <3> QED
      BY <1>1 DEF IInv, Table
  <2>3. Handover'
    BY <2>1, <2>2 DEF Handover
  <2>4. Made' = Made /\ (\A u \in Made : Fair(trackers[u]))' /\ \A u \in Made : Lasting(u)
    BY <1>3, <2>1 DEF Made
  <2> QED
    BY <1>1, <2>3, <2>4, SuccessionKeeps DEF ReuseInv
<1>11. ASSUME NEW p \in fresh, Attach(p)
       PROVE  ReuseInv'
  BY <1>1, <1>11, AttachSucceeds DEF ReuseInv
<1>12. ASSUME NEW t \in Made, stopOne(t) \/ Goroutine(t)
       PROVE  ReuseInv'
  <2>1. PICK r \in Trackers :
          trackers' = [trackers EXCEPT ![t] = r] /\ TrackerStep(trackers[t], r)
    BY <1>1, <1>12, OneTracker
  <2>2. trackers \in Seq(Trackers) /\ t \in DOMAIN trackers
    BY <1>1 DEF IInv, TypeOK, Made
  <2>3. /\ Made' = Made /\ trackers'[t] = r
        /\ \A u \in Made : u # t => trackers'[u] = trackers[u]
    BY <2>1, <2>2, UpdateOne DEF Made
  <2>4. \A u \in Made : Lasting(u)
    BY <2>1, <2>3 DEF Lasting, TrackerStep
  <2>5. UNCHANGED <<spent, step, fresh>> /\ exited' \subseteq exited
    BY <1>12 DEF stopOne, Goroutine, StopNext, LastPoll, Poll, End, report, machine, pass
  <2>6. \A u \in Made : Fair(trackers[u])'
    BY <1>1, <2>1, <2>3, <2>5 DEF Fair, TrackerStep
  <2>7. step = "attach" => stopping' \in {stopping, NoTracker}
    BY <1>12 DEF stopOne, Goroutine, StopNext, LastPoll, Poll, End, report
  <2> QED
    BY <1>1, <2>3, <2>4, <2>5, <2>6, <2>7, ReuseStays DEF Handover
<1> QED
  BY <1>4, <1>5, <1>6, <1>7, <1>8, <1>9, <1>10, <1>11, <1>12 DEF Next, Machine, discover

\* A PID that passes to another process of the same tool and directory does not make any
\* usage count twice: its old tracker is stopped before the new one attaches (discover).
THEOREM ReuseCounted == Spec => []ReuseCountsOnce
<1>1. Init => ReuseInv
  BY InitHolds DEF Init, ReuseInv, Succession, Handover, Made
<1>2. ASSUME ReuseInv
      PROVE  ReuseCountsOnce
  <2>1. /\ \A t \in Made : trackers[t] \in Trackers
        /\ \A t \in Made : t \in Int
    BY <1>2, MadeFacts DEF ReuseInv, IInv
  <2>2. ASSUME NEW t \in Made, NEW u \in Made, t < u,
               trackers[t].proc.key = trackers[u].proc.key,
               trackers[t].proc.pid = trackers[u].proc.pid
        PROVE  Interval(t) \cap Interval(u) = {}
    <3>1. trackers[t].base + trackers[t].last <= trackers[u].base
      BY <1>2, <2>2 DEF ReuseInv, Succession
    <3>2. /\ MaxSpend \in Nat
          /\ trackers[t].base \in 0..MaxSpend /\ trackers[t].last \in 0..MaxSpend
          /\ trackers[u].base \in 0..MaxSpend /\ trackers[u].last \in 0..MaxSpend
      BY <2>1, AgentAssumption DEF Trackers, AgentAssumption
    <3> QED
      BY <3>1, <3>2 DEF Interval
  <2>3. \A t, u \in Made : t # u => t < u \/ u < t
    BY <2>1
  <2> QED
    BY <2>2, <2>3 DEF ReuseCountsOnce, ReadTheSame
<1> QED
  BY <1>1, <1>2, ReuseInvKeeps, PTL DEF Spec

=============================================================================
