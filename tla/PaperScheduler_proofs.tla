------------------------ MODULE PaperScheduler_proofs ------------------------
(* Theorems of PaperScheduler, for any snapshots, symbols and drivers. *)
EXTENDS PaperScheduler, TLAPS

LEMMA HeadTail ==
  ASSUME NEW S, NEW q \in Seq(S), q # <<>>
  PROVE  Head(q) \in S /\ Tail(q) \in Seq(S)
OBVIOUS

LEMMA TypeInit == Init => TypeOK
BY SchedulerAssumption DEF Init, TypeOK

LEMMA TakeType ==
  ASSUME TypeOK, NEW d \in Drivers, queue # <<>>, Take(d)
  PROVE  /\ queue' \in Seq(Snapshots)
         /\ queued' \subseteq Snapshots
         /\ active' \subseteq Symbols
         /\ job' \in [Drivers -> Snapshots \union {None}]
<1>1. Head(queue) \in Snapshots /\ Tail(queue) \in Seq(Snapshots)
  BY HeadTail DEF TypeOK
<1>2. SymbolOf[Head(queue)] \in Symbols
  BY <1>1, SchedulerAssumption
<1>3. Append(Tail(queue), Head(queue)) \in Seq(Snapshots)
  BY <1>1
<1> QED BY <1>1, <1>2, <1>3 DEF TypeOK, Take

LEMMA TypeStep == TypeOK /\ [Next]_vars => TypeOK'
<1> SUFFICES ASSUME TypeOK, [Next]_vars
             PROVE  TypeOK'
  OBVIOUS
<1> USE SchedulerAssumption
<1>1. ASSUME NEW s \in Snapshots, Enqueue(s) PROVE TypeOK'
  BY <1>1 DEF Enqueue, TypeOK
<1>2. ASSUME NEW d \in Drivers, RunOnce(d) PROVE TypeOK'
  BY <1>2, TakeType DEF RunOnce, TypeOK
<1>3. CASE LoopPolls
  <2>1. CASE queue = <<>>
    BY <1>3, <2>1 DEF LoopPolls, TypeOK
  <2>2. CASE queue # <<>>
    <3>1. Loop \in Drivers /\ Take(Loop)
      BY <1>3, <2>2 DEF LoopPolls
    <3> QED BY <1>3, <2>2, <3>1, TakeType DEF LoopPolls, TypeOK
  <2> QED BY <2>1, <2>2
<1>4. ASSUME NEW d \in Drivers, ProcessEnds(d) PROVE TypeOK'
  <2>1. job[d] # None => SymbolOf[job[d]] \in Symbols
    BY DEF TypeOK
  <2> QED BY <1>4, <2>1 DEF ProcessEnds, ProcessReturns, ProcessRaises, TypeOK
<1>5. CASE LoopEnds \/ StartLoop
  BY <1>5 DEF LoopEnds, StartLoop, TypeOK
<1>6. CASE Stop
  <2>1. <<>> \in Seq(Snapshots)
    OBVIOUS
  <2> QED BY <1>6, <2>1 DEF Stop, TypeOK
<1>7. CASE TickMonitorsNow \/ MonitorsDue
  BY <1>7 DEF TickMonitorsNow, MonitorsDue, TypeOK
<1>8. CASE LoopTicks
  <2>1. due' \in BOOLEAN
    BY <1>8, Zenon DEF LoopTicks, TypeOK
  <2>2. loopAt' \in {"poll", "dead"}
    BY <1>8, Zenon DEF LoopTicks
  <2>3. UNCHANGED <<queue, queued, active, tooSoon, parked, running, job>>
    BY <1>8, Zenon DEF LoopTicks
  <2> QED BY <2>1, <2>2, <2>3 DEF TypeOK
<1>9. ASSUME NEW y \in Symbols, IntervalPasses(y) PROVE TypeOK'
  BY <1>9 DEF IntervalPasses, TypeOK
<1>10. CASE UNCHANGED vars
  BY <1>10 DEF vars, TypeOK
<1> QED BY <1>1, <1>2, <1>3, <1>4, <1>5, <1>6, <1>7, <1>8, <1>9, <1>10 DEF Next, LoopSteps

LEMMA TypeHolds == Spec => []TypeOK
BY TypeInit, TypeStep, PTL DEF Spec

-----------------------------------------------------------------------------
(* A driver that takes a snapshot takes one of a symbol nobody works on. *)
LEMMA TakeKeepsOne ==
  ASSUME TypeOK, OneActivePerSymbol, NEW d \in Drivers, job[d] = None,
         queue # <<>>, Take(d)
  PROVE  OneActivePerSymbol'
<1> DEFINE s == Head(queue)
<1>1. s \in Snapshots /\ s # None
  BY HeadTail, SchedulerAssumption DEF TypeOK
<1>2. CASE UNCHANGED <<active, job>>
  BY <1>2 DEF OneActivePerSymbol, Busy
<1>3. CASE /\ SymbolOf[s] \notin active
           /\ active' = active \union {SymbolOf[s]}
           /\ job' = [job EXCEPT ![d] = s]
  <2>1. /\ Busy' = Busy \union {d}
        /\ job'[d] = s
        /\ \A e \in Busy : e # d /\ job'[e] = job[e]
    BY <1>1, <1>3 DEF Busy, TypeOK
  <2> HIDE DEF s
  <2>2. \A e \in Busy : SymbolOf[job[e]] # SymbolOf[s]
    BY <1>3 DEF OneActivePerSymbol
  <2>3. active' = {SymbolOf[job'[e]] : e \in Busy'}
    BY <1>3, <2>1 DEF OneActivePerSymbol
  <2>4. \A e, f \in Busy' : SymbolOf[job'[e]] = SymbolOf[job'[f]] => e = f
    BY <2>1, <2>2 DEF OneActivePerSymbol
  <2> QED BY <2>3, <2>4 DEF OneActivePerSymbol, Busy
<1> QED BY <1>2, <1>3 DEF Take

(* One that is done with its snapshot frees its symbol and no other. *)
LEMMA EndKeepsOne ==
  ASSUME TypeOK, OneActivePerSymbol, NEW d \in Drivers, job[d] # None,
         active' = active \ {SymbolOf[job[d]]},
         job' = [job EXCEPT ![d] = None]
  PROVE  OneActivePerSymbol'
<1>1. /\ d \in Busy
      /\ Busy' = Busy \ {d}
      /\ \A e \in Busy \ {d} : job'[e] = job[e]
  BY DEF Busy, TypeOK
<1>2. \A e \in Busy \ {d} : SymbolOf[job[e]] # SymbolOf[job[d]]
  BY <1>1 DEF OneActivePerSymbol
<1>3. active' = {SymbolOf[job'[e]] : e \in Busy'}
  BY <1>1, <1>2 DEF OneActivePerSymbol
<1>4. \A e, f \in Busy' : SymbolOf[job'[e]] = SymbolOf[job'[f]] => e = f
  BY <1>1 DEF OneActivePerSymbol
<1> QED BY <1>3, <1>4 DEF OneActivePerSymbol, Busy

(* The types are needed for the domain of job; the loop's driver has no      *)
(* snapshot while the loop polls.                                            *)
LoopIsIdle == loopAt \in {"off", "poll", "after", "dead"} => job[Loop] = None

OneInv == TypeOK /\ LoopIsIdle /\ OneActivePerSymbol

LEMMA IdleStep == TypeOK /\ LoopIsIdle /\ [Next]_vars => LoopIsIdle'
<1> SUFFICES ASSUME TypeOK, LoopIsIdle, [Next]_vars
             PROVE  LoopIsIdle'
  OBVIOUS
<1> USE SchedulerAssumption
<1>1. ASSUME NEW d \in Drivers, RunOnce(d) PROVE LoopIsIdle'
  BY <1>1 DEF RunOnce, Take, LoopIsIdle, TypeOK
<1>2. CASE LoopPolls
  BY <1>2 DEF LoopPolls, LoopIsIdle
<1>3. ASSUME NEW d \in Drivers, ProcessEnds(d) PROVE LoopIsIdle'
  BY <1>3 DEF ProcessEnds, ProcessReturns, ProcessRaises, LoopIsIdle, TypeOK
<1>4. ASSUME UNCHANGED job, loopAt \in {"off", "poll", "after", "dead"} \/ UNCHANGED loopAt
      PROVE  LoopIsIdle'
  BY <1>4 DEF LoopIsIdle
<1>5. CASE \/ LoopEnds \/ LoopTicks \/ TickMonitorsNow \/ StartLoop \/ Stop \/ MonitorsDue
           \/ \E s \in Snapshots : Enqueue(s)
           \/ \E y \in Symbols : IntervalPasses(y)
           \/ UNCHANGED vars
  BY <1>4, <1>5 DEF LoopEnds, LoopTicks, TickMonitorsNow, StartLoop, Stop, MonitorsDue,
                    Enqueue, IntervalPasses, vars
<1> QED BY <1>1, <1>2, <1>3, <1>5 DEF Next, LoopSteps

LEMMA OneStep == OneInv /\ [Next]_vars => OneActivePerSymbol'
<1> SUFFICES ASSUME OneInv, [Next]_vars
             PROVE  OneActivePerSymbol'
  OBVIOUS
<1> USE SchedulerAssumption DEF OneInv
<1>1. ASSUME NEW d \in Drivers, RunOnce(d) PROVE OneActivePerSymbol'
  BY <1>1, TakeKeepsOne DEF RunOnce
<1>2. ASSUME UNCHANGED <<active, job>> PROVE OneActivePerSymbol'
  BY <1>2 DEF OneActivePerSymbol, Busy
<1>3. CASE LoopPolls
  <2>1. job[Loop] = None
    BY <1>3 DEF LoopPolls, LoopIsIdle
  <2> QED BY <1>2, <1>3, <2>1, TakeKeepsOne DEF LoopPolls
<1>4. ASSUME NEW d \in Drivers, ProcessEnds(d) PROVE OneActivePerSymbol'
  BY <1>4, EndKeepsOne DEF ProcessEnds, ProcessReturns, ProcessRaises
<1>5. CASE \/ LoopEnds \/ LoopTicks \/ TickMonitorsNow \/ StartLoop \/ Stop \/ MonitorsDue
           \/ \E s \in Snapshots : Enqueue(s)
           \/ \E y \in Symbols : IntervalPasses(y)
           \/ UNCHANGED vars
  BY <1>2, <1>5 DEF LoopEnds, LoopTicks, TickMonitorsNow, StartLoop, Stop, MonitorsDue,
                    Enqueue, IntervalPasses, vars
<1> QED BY <1>1, <1>3, <1>4, <1>5 DEF Next, LoopSteps

-----------------------------------------------------------------------------
(* The scheduler's variables stay in their types. *)
THEOREM TypeCorrect == Spec => []TypeOK
BY TypeHolds

(* No two drivers process snapshots of one symbol, and _active names exactly *)
(* the symbols that are processed, after exceptions too.                     *)
THEOREM OneActive == Spec => []OneActivePerSymbol
<1>1. Init => OneInv
  BY TypeInit, SchedulerAssumption DEF Init, OneInv, LoopIsIdle, OneActivePerSymbol, Busy
<1>2. OneInv /\ [Next]_vars => OneInv'
  BY TypeStep, IdleStep, OneStep DEF OneInv
<1>3. OneInv => OneActivePerSymbol
  BY DEF OneInv
<1> QED BY <1>1, <1>2, <1>3, PTL DEF Spec

-----------------------------------------------------------------------------
(* What a sequence without repetitions holds, behind a new element and       *)
(* without its head.                                                         *)
LEMMA AppendHolds ==
  ASSUME NEW S, NEW q \in Seq(S), NEW s \in S
  PROVE  /\ ToSet(Append(q, s)) = ToSet(q) \union {s}
         /\ IsInjective(q) /\ s \notin ToSet(q) => IsInjective(Append(q, s))
<1> DEFINE a == Append(q, s)
<1>1. /\ Len(q) \in Nat /\ Len(a) = Len(q) + 1
      /\ DOMAIN q = 1..Len(q) /\ DOMAIN a = 1..(Len(q) + 1)
      /\ \A i \in 1..Len(q) : a[i] = q[i]
      /\ a[Len(q) + 1] = s
  OBVIOUS
<1> HIDE DEF a
<1>2. 1..(Len(q) + 1) = (1..Len(q)) \union {Len(q) + 1}
  BY <1>1
<1>3. ToSet(a) = ToSet(q) \union {s}
  BY <1>1, <1>2 DEF ToSet
<1>4. ASSUME IsInjective(q), s \notin ToSet(q) PROVE IsInjective(a)
  <2>1. \A i \in 1..Len(q) : a[i] # s
    BY <1>1, <1>4 DEF ToSet
  <2>2. \A i, j \in 1..Len(q) : a[i] = a[j] => i = j
    BY <1>1, <1>4 DEF IsInjective
  <2> QED BY <1>1, <1>2, <2>1, <2>2 DEF IsInjective
<1> QED BY <1>3, <1>4 DEF a

LEMMA TailHolds ==
  ASSUME NEW S, NEW q \in Seq(S), q # <<>>, IsInjective(q)
  PROVE  /\ ToSet(Tail(q)) = ToSet(q) \ {Head(q)}
         /\ IsInjective(Tail(q))
         /\ Head(q) \in ToSet(q)
<1> DEFINE t == Tail(q)
<1>1. /\ Len(q) \in Nat /\ Len(q) > 0 /\ Len(t) = Len(q) - 1
      /\ DOMAIN q = 1..Len(q) /\ DOMAIN t = 1..(Len(q) - 1)
      /\ \A i \in 1..(Len(q) - 1) : t[i] = q[i + 1]
      /\ Head(q) = q[1]
  OBVIOUS
<1> HIDE DEF t
<1>2. \A i, j \in 1..Len(q) : q[i] = q[j] => i = j
  BY <1>1 DEF IsInjective
<1>3. \A i \in 1..(Len(q) - 1) : i + 1 \in 1..Len(q) /\ i + 1 # 1
  BY <1>1
<1>4. IsInjective(t)
  <2>1. ASSUME NEW i \in 1..(Len(q) - 1), NEW j \in 1..(Len(q) - 1), t[i] = t[j]
        PROVE  i = j
    <3>1. i + 1 = j + 1
      BY <1>1, <1>2, <1>3, <2>1
    <3> QED BY <3>1
  <2> QED BY <1>1, <2>1 DEF IsInjective
<1>5. 1 \in 1..Len(q)
  BY <1>1
<1>6. ToSet(t) \subseteq ToSet(q) \ {Head(q)}
  <2>1. ASSUME NEW i \in 1..(Len(q) - 1) PROVE t[i] \in ToSet(q) \ {Head(q)}
    BY <1>1, <1>2, <1>3, <1>5 DEF ToSet
  <2> QED BY <1>1, <2>1 DEF ToSet
<1>7. ASSUME NEW x \in ToSet(q), x # Head(q) PROVE x \in ToSet(t)
  <2>1. PICK i \in 1..Len(q) : x = q[i]
    BY <1>1 DEF ToSet
  <2>2. i # 1
    BY <1>1, <1>7, <2>1
  <2>3. i - 1 \in 1..(Len(q) - 1) /\ (i - 1) + 1 = i
    BY <1>1, <2>1, <2>2
  <2>4. t[i - 1] = x
    BY <1>1, <2>1, <2>3
  <2> QED BY <1>1, <2>3, <2>4 DEF ToSet
<1> QED BY <1>1, <1>4, <1>5, <1>6, <1>7 DEF ToSet, t

(* What one call of run_once does to the deque and to its keys; the snapshot *)
(* it takes off is the driver's, or its symbol is at work.                   *)
LEMMA TakeKeepsQueue ==
  ASSUME TypeOK, KeysMatchQueue, NEW d \in Drivers, queue # <<>>, Take(d)
  PROVE  /\ KeysMatchQueue'
         /\ \A s \in ToSet(queue) \ ToSet(queue') :
              (\E e \in Drivers : job'[e] = s) \/ SymbolOf[s] \in active
<1> DEFINE h == Head(queue)
           t == Tail(queue)
<1>1. /\ h \in Snapshots /\ t \in Seq(Snapshots)
      /\ ToSet(t) = ToSet(queue) \ {h}
      /\ IsInjective(t)
      /\ h \in ToSet(queue)
  BY HeadTail, TailHolds DEF KeysMatchQueue, TypeOK
<1>2. ToSet(Append(t, h)) = ToSet(queue) /\ IsInjective(Append(t, h))
  <2>1. h \notin ToSet(t) /\ ToSet(t) \union {h} = ToSet(queue)
    BY <1>1
  <2> HIDE DEF h, t
  <2>2. h \in Snapshots /\ t \in Seq(Snapshots) /\ IsInjective(t)
    BY <1>1
  <2>3. ToSet(Append(t, h)) = ToSet(t) \union {h} /\ IsInjective(Append(t, h))
    BY <2>1, <2>2, AppendHolds
  <2> QED BY <2>1, <2>3
<1>3. CASE queue' = t /\ queued' = queued \ {h} /\ SymbolOf[h] \in active
  BY <1>1, <1>3 DEF KeysMatchQueue
<1>4. CASE queue' = Append(t, h) /\ UNCHANGED queued
  BY <1>2, <1>4 DEF KeysMatchQueue
<1>5. CASE queue' = t /\ queued' = queued \ {h} /\ job' = [job EXCEPT ![d] = h]
  <2>1. job'[d] = h
    BY <1>5 DEF TypeOK
  <2> QED BY <1>1, <1>5, <2>1 DEF KeysMatchQueue
<1> QED BY <1>3, <1>4, <1>5 DEF Take

LEMMA KeysStep ==
  ASSUME TypeOK, KeysMatchQueue, [Next]_vars
  PROVE  /\ KeysMatchQueue'
         /\ \A s \in ToSet(queue) \ ToSet(queue') :
              (\E e \in Drivers : job'[e] = s) \/ ~running' \/ SymbolOf[s] \in active
<1> DEFINE Goal ==
      /\ KeysMatchQueue'
      /\ \A s \in ToSet(queue) \ ToSet(queue') :
           (\E e \in Drivers : job'[e] = s) \/ ~running' \/ SymbolOf[s] \in active
<1>1. ASSUME NEW s \in Snapshots, Enqueue(s) PROVE Goal
  <2>1. /\ queue' = Append(queue, s) /\ queued' = queued \union {s}
        /\ s \notin ToSet(queue)
    BY <1>1 DEF Enqueue, KeysMatchQueue
  <2>2. ToSet(queue') = ToSet(queue) \union {s} /\ IsInjective(queue')
    BY <2>1, AppendHolds DEF TypeOK, KeysMatchQueue
  <2> QED BY <2>1, <2>2 DEF KeysMatchQueue
<1>2. ASSUME NEW d \in Drivers, queue # <<>>, Take(d) PROVE Goal
  BY <1>2, TakeKeepsQueue
<1>3. CASE Stop
  <2>1. ToSet(<<>>) = {} /\ IsInjective(<<>>)
    BY DEF ToSet, IsInjective
  <2> QED BY <1>3, <2>1 DEF Stop, KeysMatchQueue
<1>4. ASSUME UNCHANGED <<queue, queued>> PROVE Goal
  BY <1>4 DEF KeysMatchQueue
<1>5. CASE \/ LoopEnds \/ LoopTicks \/ TickMonitorsNow \/ StartLoop \/ MonitorsDue
           \/ \E y \in Symbols : IntervalPasses(y)
           \/ \E d \in Drivers : ProcessEnds(d)
           \/ UNCHANGED vars
  BY <1>4, <1>5 DEF LoopEnds, LoopTicks, TickMonitorsNow, StartLoop, MonitorsDue,
                    IntervalPasses, ProcessEnds, ProcessReturns, ProcessRaises, vars
<1>6. CASE LoopPolls
  BY <1>2, <1>4, <1>6, SchedulerAssumption DEF LoopPolls
<1>7. CASE \E d \in Drivers : RunOnce(d)
  BY <1>2, <1>7 DEF RunOnce
<1> QED BY <1>1, <1>3, <1>5, <1>6, <1>7 DEF Next, LoopSteps

(* The key set names exactly what waits in the deque, nothing waits twice,   *)
(* and an accepted snapshot leaves the deque to be processed, by stop, or    *)
(* because another driver works on its symbol.                               *)
THEOREM QueueKept == Spec => QueueIsKept
<1>1. Init => KeysMatchQueue
  BY DEF Init, KeysMatchQueue, ToSet, IsInjective
<1>2. TypeOK /\ KeysMatchQueue /\ [Next]_vars => KeysMatchQueue'
  BY KeysStep
<1>3. TypeOK /\ KeysMatchQueue /\ [Next]_vars =>
        [\A s \in ToSet(queue) \ ToSet(queue') :
           \/ \E d \in Drivers : job'[d] = s
           \/ ~running'
           \/ SymbolOf[s] \in active]_vars
  BY KeysStep
<1> QED BY <1>1, <1>2, <1>3, TypeHolds, PTL DEF Spec, QueueIsKept
=============================================================================
