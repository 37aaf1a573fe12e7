--------------------------- MODULE BenchRunProofs ---------------------------
(***************************************************************************)
(* Proofs about the measurement loop of bench.cpp, for every requested     *)
(* time, every grain of the clock and every cost of an operation.  The     *)
(* minimum number of iterations is assumed not to be negative.             *)
(***************************************************************************)
EXTENDS BenchRun, TLAPS

-----------------------------------------------------------------------------
(* Arithmetic. *)

(* sys::div64 on the operands that bench::run() gives it is the quotient   *)
(* rounded to the nearest integer, halves up.                              *)
LEMMA Div64Nat ==
  ASSUME NEW n \in Nat, NEW d \in Nat \ {0}
  PROVE  /\ div64(n, d) = (n + d \div 2) \div d
         /\ div64(n, d) \in Nat
         /\ 2 * d * div64(n, d) <= 2 * n + d
         /\ 2 * n < 2 * d * div64(n, d) + d
<1>1. d \div 2 \in Nat /\ 2 * (d \div 2) <= d /\ d <= 2 * (d \div 2) + 1
  OBVIOUS
<1>2. Quotient(d, 2) = d \div 2
  BY <1>1 DEF Quotient, AbsOf
<1>3. Quotient(n + d \div 2, d) = (n + d \div 2) \div d
  BY <1>1 DEF Quotient, AbsOf
<1>4. div64(n, d) = (n + d \div 2) \div d
  BY <1>2, <1>3 DEF div64
<1> DEFINE q == (n + d \div 2) \div d
<1>5. q \in Nat /\ d * q <= n + d \div 2 /\ n + d \div 2 < d * q + d
  BY <1>1
<1> HIDE DEF q
<1>6. d * q \in Nat /\ 2 * d * q = 2 * (d * q)
  BY <1>5
<1>7. 2 * (d * q) <= 2 * n + d
  BY <1>1, <1>5, <1>6
<1>8. 2 * n < 2 * (d * q) + d
  BY <1>1, <1>5, <1>6
<1>9. div64(n, d) = q
  BY <1>4 DEF q
<1> QED
  BY <1>4, <1>5, <1>6, <1>7, <1>8, <1>9

(* The clock read by sys::cpu_time() is a natural number, never goes back, *)
(* and is at most one step behind the time consumed.                       *)
LEMMA ClockNat ==
  ASSUME NEW t \in Nat
  PROVE  Clock(t) \in Nat /\ t * Tick < Grain * Clock(t) + Grain * Tick
<1> DEFINE q == t \div Grain
<1>1. q \in Nat /\ t < Grain * q + Grain
  BY BenchAssumption
<1> HIDE DEF q
<1>2. Tick * q \in Nat /\ t * Tick < (Grain * q + Grain) * Tick
  BY <1>1, BenchAssumption
<1>3. (Grain * q + Grain) * Tick = Grain * (Tick * q) + Grain * Tick
  BY <1>1, BenchAssumption
<1>4. Clock(t) = Tick * q
  BY DEF Clock, q
<1> QED
  BY <1>2, <1>3, <1>4

(* The clock never goes back. *)
LEMMA ClockMonotone ==
  ASSUME NEW s \in Nat, NEW t \in Nat, s <= t
  PROVE  Clock(s) <= Clock(t)
<1> DEFINE p == s \div Grain
           q == t \div Grain
<1>1. p \in Nat /\ q \in Nat /\ Grain * p <= s /\ t < Grain * q + Grain
  BY BenchAssumption
<1> HIDE DEF p, q
<1>2. p <= q
  <2>1. SUFFICES ASSUME q + 1 <= p PROVE FALSE
    BY <1>1
  <2>2. Grain * (q + 1) <= Grain * p
    BY <1>1, <2>1, BenchAssumption
  <2>3. Grain * (q + 1) = Grain * q + Grain
    BY <1>1, BenchAssumption
  <2> QED
    BY <1>1, <2>2, <2>3, BenchAssumption
<1>3. Tick * p <= Tick * q
  BY <1>1, <1>2, BenchAssumption
<1> QED
  BY <1>3 DEF Clock, p, q

(* Cancelling a positive factor. *)
LEMMA Cancel ==
  ASSUME NEW k \in Nat \ {0}, NEW a \in Nat, NEW b \in Nat, k * a <= k * b
  PROVE  a <= b
<1>1. SUFFICES ASSUME b + 1 <= a PROVE FALSE
  OBVIOUS
<1>2. k * (b + 1) <= k * a
  BY <1>1
<1>3. k * (b + 1) = k * b + k
  OBVIOUS
<1> QED
  BY <1>2, <1>3

-----------------------------------------------------------------------------
(* The inductive invariant. *)

(* CPU time bounds the number of calls: an operation takes some of it.     *)
TimeInv ==
  /\ start <= Clock(cpu)
  /\ executed <= cpu
  /\ pc \in {"created", "run"} => start = 0
  /\ pc = "created" => Clock(cpu) = 0

LoopInv ==
  pc = "run" =>
    /\ more \in Nat /\ i <= more /\ iterations \in Nat
    /\ executed = iterations + i
    /\ chunks = 0 => iterations = 0 /\ more = min_iterations
    /\ chunks > 0 =>
         /\ iterations >= min_iterations
         /\ 0 < usec_total /\ usec_total < MinUsec /\ usec_total <= Clock(cpu)
         /\ iterations * Tick <= (MinUsec + Tick) * Grain
         /\ more >= 2

EndInv ==
  /\ pc = "created" => iterations = 0 /\ executed = 0 /\ chunks = 0
  /\ Measured =>
       /\ iterations \in Nat /\ iterations = executed
       /\ executed >= min_iterations
       /\ loop_usec >= MinUsec \/ (chunks = 1 /\ loop_usec = 0)
       /\ usec_total <= loop_usec

Inv == TypeOK /\ TimeInv /\ LoopInv /\ EndInv

NonNegative == MinIterations \subseteq Nat

(* The invariant holds initially. *)
LEMMA InitInv == ASSUME NonNegative, Init PROVE Inv
<1>1. TypeOK
  BY BenchAssumption DEF Init, TypeOK, NonNegative
<1>2. TimeInv
  <2>1. cpu \in 0 .. Grain - 1 /\ start = 0 /\ executed = 0
    BY DEF Init
  <2>2. cpu \div Grain = 0
    BY <2>1, BenchAssumption
  <2>3. Clock(cpu) = 0
    BY <2>2, BenchAssumption DEF Clock
  <2> QED
    BY <2>1, <2>3 DEF TimeInv
<1>3. LoopInv /\ EndInv
  BY DEF Init, LoopInv, EndInv, Measured
<1> QED
  BY <1>1, <1>2, <1>3 DEF Inv

(* A chunk is complete: what the loop then knows. *)
LEMMA AfterChunk ==
  ASSUME NonNegative, Inv, EndChunk
  PROVE  /\ iterations' \in Nat /\ iterations' = executed' /\ executed' \in Nat
         /\ executed' >= min_iterations
         /\ cpu' \in Nat /\ cpu <= cpu' /\ executed' <= cpu'
         /\ usec_total' = Clock(cpu') /\ usec_total' \in Nat
         /\ loop_usec' = usec_total'
         /\ chunks' \in Nat \ {0}
         /\ chunks > 0 => usec_total' > 0
         /\ chunks = 0 => chunks' = 1
         /\ min_iterations' = min_iterations /\ min_iterations \in Nat
         /\ i' = 0 /\ shown' = shown /\ costs' = costs
<1> USE DEF Inv, EndChunk
<1>1. pc = "run" /\ start = 0 /\ i = more /\ more \in Nat /\ iterations \in Nat
  BY DEF TypeOK, TimeInv, LoopInv
<1>2. min_iterations \in Nat /\ min_iterations' = min_iterations /\ costs' = costs
  BY DEF TypeOK, NonNegative, settings
<1>3. iterations' \in Nat /\ iterations' = executed' /\ executed' >= min_iterations
  BY <1>1, <1>2 DEF TypeOK, LoopInv
<1>4. cpu' \in Nat /\ cpu <= cpu'
  BY BenchAssumption DEF TypeOK
<1>5. Clock(cpu) \in Nat /\ Clock(cpu') \in Nat /\ Clock(cpu) <= Clock(cpu')
  BY <1>4, ClockNat, ClockMonotone DEF TypeOK
<1>6. usec_total' = Clock(cpu') /\ usec_total' \in Nat
  BY <1>1, <1>5
<1>7. executed' <= cpu' /\ executed' \in Nat
  BY <1>4 DEF TypeOK, TimeInv
<1>8. chunks > 0 => usec_total' > 0
  BY <1>1, <1>5, <1>6 DEF LoopInv, TypeOK
<1>9. chunks' \in Nat \ {0} /\ (chunks = 0 => chunks' = 1)
  BY DEF TypeOK, ChunkCap
<1> QED
  BY <1>2, <1>3, <1>4, <1>6, <1>7, <1>8, <1>9

(* The grain of the clock bounds the iterations which went unmeasured.     *)
LEMMA UnmeasuredBound ==
  ASSUME NEW n \in Nat, NEW t \in Nat, n <= t, Clock(t) < MinUsec
  PROVE  n * Tick <= (MinUsec + Tick) * Grain
<1>1. Clock(t) \in Nat /\ t * Tick < Grain * Clock(t) + Grain * Tick
  BY ClockNat
<1>2. n * Tick <= t * Tick /\ n * Tick \in Nat /\ t * Tick \in Nat
  BY BenchAssumption
<1>3. Grain * Clock(t) <= Grain * MinUsec
  BY <1>1, BenchAssumption
<1>4. (MinUsec + Tick) * Grain = Grain * MinUsec + Grain * Tick
  BY BenchAssumption
<1>5. Grain * MinUsec \in Nat /\ Grain * Tick \in Nat /\ Grain * Clock(t) \in Nat
  BY <1>1, BenchAssumption
<1> QED
  BY <1>1, <1>2, <1>3, <1>4, <1>5

(* The extrapolated chunk has at least the two iterations of the margin.   *)
LEMMA NextChunkMargin ==
  ASSUME NEW n \in Nat, NEW u \in Nat, 0 < u, u < MinUsec
  PROVE  NextChunk(n, u) \in Nat /\ NextChunk(n, u) >= 2
<1>1. MinUsec - u \in Nat /\ n * (MinUsec - u) \in Nat
  BY BenchAssumption
<1>2. div64(n * (MinUsec - u), u) \in Nat
  BY <1>1, Div64Nat
<1> QED
  BY <1>2 DEF NextChunk

(* Every step of bench::run() and bench::display() preserves it. *)
LEMMA StepInv == ASSUME NonNegative, Inv, [Next]_vars PROVE Inv'
<1> USE DEF Inv
<1>t. /\ cpu \in Nat /\ executed \in Nat /\ Clock(cpu) \in Nat
      /\ min_iterations \in Nat
  BY ClockNat DEF TypeOK, NonNegative
<1>1. CASE StartRun
  <2>1. start' = 0 /\ iterations' = 0 /\ chunks' = 0 /\ executed' = 0 /\ i' = 0
    BY <1>1 DEF StartRun, ghosts, EndInv, TimeInv
  <2>2. TypeOK'
    BY <1>1, <2>1 DEF StartRun, TypeOK, ghosts, settings, NonNegative
  <2>3. TimeInv'
    BY <1>1, <1>t, <2>1 DEF StartRun, TimeInv, Clock
  <2>4. LoopInv' /\ EndInv'
    BY <1>1, <1>t, <2>1 DEF StartRun, LoopInv, EndInv, Measured, settings
  <2> QED
    BY <2>2, <2>3, <2>4
<1>2. CASE OneIteration
  <2>1. pc = "run" /\ pc' = "run" /\ i < more /\ i' = i + 1 /\ executed' = executed + 1
    BY <1>2 DEF OneIteration
  <2>2. cpu' \in Nat /\ cpu + 1 <= cpu'
    <3>1. PICK c \in costs.iteration : cpu' = cpu + c
      BY <1>2 DEF OneIteration
    <3>2. c \in Nat \ {0}
      BY <3>1, BenchAssumption DEF TypeOK
    <3> QED
      BY <1>t, <3>1, <3>2
  <2>3. Clock(cpu') \in Nat /\ Clock(cpu) <= Clock(cpu')
    BY <1>t, <2>2, ClockNat, ClockMonotone
  <2>4. TypeOK'
    BY <1>2, <2>1, <2>2 DEF OneIteration, TypeOK, settings
  <2>5. TimeInv'
    BY <1>2, <1>t, <2>1, <2>2, <2>3 DEF OneIteration, TimeInv, TypeOK
  <2>6. LoopInv'
    BY <1>2, <1>t, <2>1, <2>2, <2>3 DEF OneIteration, LoopInv, TypeOK, settings
  <2>7. EndInv'
    BY <2>1 DEF EndInv, Measured
  <2> QED
    BY <2>4, <2>5, <2>6, <2>7
<1>3. CASE ContinueLoop
  <2>1. EndChunk /\ pc = "run" /\ pc' = "run" /\ start' = start
    BY <1>3 DEF ContinueLoop, EndChunk
  <2>2. 0 < usec_total' /\ usec_total' < MinUsec
    BY <1>3, <2>1, AfterChunk, BenchAssumption DEF ContinueLoop, Enough
  <2>3. more' = NextChunk(iterations', usec_total')
    BY <1>3 DEF ContinueLoop
  <2>4. more' \in Nat /\ more' >= 2
    BY <2>1, <2>2, <2>3, AfterChunk, NextChunkMargin
  <2>5. iterations' * Tick <= (MinUsec + Tick) * Grain
    BY <2>1, <2>2, AfterChunk, UnmeasuredBound
  <2>6. TypeOK'
    BY <2>1, <2>4, AfterChunk DEF TypeOK, NonNegative
  <2>7. TimeInv'
    BY <2>1, AfterChunk, ClockNat DEF TimeInv
  <2>8. LoopInv'
    BY <2>1, <2>2, <2>4, <2>5, AfterChunk DEF LoopInv
  <2>9. EndInv'
    BY <2>1 DEF EndInv, Measured
  <2> QED
    BY <2>6, <2>7, <2>8, <2>9
<1>4. CASE LeaveLoop
  <2>1. EndChunk /\ pc' = "calibrate" /\ start' = Clock(cpu') /\ more' = more
    BY <1>4 DEF LeaveLoop
  <2>2. usec_total' >= MinUsec \/ (chunks' = 1 /\ usec_total' = 0)
    <3>1. usec_total' >= MinUsec \/ usec_total' <= 0
      BY <1>4 DEF LeaveLoop, Enough
    <3>2. chunks = 0 \/ chunks > 0
      BY DEF TypeOK
    <3> QED
      BY <2>1, <3>1, <3>2, AfterChunk
  <2>3. TypeOK'
    BY <2>1, AfterChunk, ClockNat DEF TypeOK, NonNegative
  <2>4. TimeInv'
    BY <2>1, AfterChunk, ClockNat DEF TimeInv
  <2>5. LoopInv' /\ EndInv'
    BY <2>1, <2>2, AfterChunk DEF LoopInv, EndInv, Measured
  <2> QED
    BY <2>3, <2>4, <2>5
<1>5. CASE DummyIteration
  <2>1. pc = "calibrate" /\ pc' = pc /\ i' = i + 1
    BY <1>5 DEF DummyIteration
  <2>2. cpu' \in Nat /\ cpu <= cpu'
    BY <1>5, <1>t, BenchAssumption DEF DummyIteration
  <2>3. Clock(cpu') \in Nat /\ Clock(cpu) <= Clock(cpu')
    BY <1>t, <2>2, ClockNat, ClockMonotone
  <2>4. TypeOK'
    BY <1>5, <2>1, <2>2 DEF DummyIteration, TypeOK, settings, ghosts
  <2>5. TimeInv'
    BY <1>5, <1>t, <2>1, <2>2, <2>3 DEF DummyIteration, TimeInv, TypeOK, ghosts
  <2>6. LoopInv' /\ EndInv'
    BY <1>5, <2>1 DEF DummyIteration, LoopInv, EndInv, Measured, settings, ghosts
  <2> QED
    BY <2>4, <2>5, <2>6
<1>6. CASE RemoveOverhead
  <2>1. pc = "calibrate" /\ pc' = "done" /\ start' = start /\ executed' = executed
    BY <1>6 DEF RemoveOverhead, ghosts
  <2>2. cpu' \in Nat /\ cpu <= cpu'
    BY <1>6, <1>t, BenchAssumption DEF RemoveOverhead, TypeOK
  <2>3. Clock(cpu') \in Nat /\ Clock(cpu) <= Clock(cpu')
    BY <1>t, <2>2, ClockNat, ClockMonotone
  <2>4. usec_total' \in Nat /\ usec_total' <= usec_total
    BY <1>6, <1>t, <2>3 DEF RemoveOverhead, NetOf, TimeInv, TypeOK
  <2>5. TypeOK'
    BY <1>6, <2>1, <2>2, <2>4 DEF RemoveOverhead, TypeOK, settings, ghosts
  <2>6. TimeInv'
    BY <1>t, <2>1, <2>2, <2>3 DEF TimeInv, TypeOK
  <2>7. LoopInv' /\ EndInv'
    BY <1>6, <2>1, <2>4 DEF RemoveOverhead, LoopInv, EndInv, Measured, settings, ghosts, TypeOK
  <2> QED
    BY <2>5, <2>6, <2>7
<1>7. CASE Display
  <2>1. pc = "done" /\ pc' = "displayed" /\ UNCHANGED <<i, more, iterations, usec_total, start, cpu, settings, ghosts>>
    BY <1>7 DEF Display
  <2> QED
    BY <2>1 DEF TypeOK, TimeInv, LoopInv, EndInv, Measured, settings, ghosts
<1>8. CASE UNCHANGED vars
  BY <1>8 DEF vars, settings, ghosts, TypeOK, TimeInv, LoopInv, EndInv, Measured
<1> QED
  BY <1>1, <1>2, <1>3, <1>4, <1>5, <1>6, <1>7, <1>8 DEF Next

-----------------------------------------------------------------------------
(* Theorems. *)

(* The inductive invariant: what the counters, the clock and the chunks    *)
(* know of each other at each point of bench::run() (bench.cpp:30-68).     *)
THEOREM Invariance == ASSUME NonNegative PROVE Spec => []Inv
<1>1. Init => Inv
  BY InitInv
<1>2. Inv /\ [Next]_vars => Inv'
  BY StepInv
<1> QED
  BY <1>1, <1>2, PTL DEF Spec

(* The variables keep their types; in particular the measured time is      *)
(* never negative.                                                         *)
THEOREM TypeCorrect == ASSUME NonNegative PROVE Spec => []TypeOK
<1>1. Inv => TypeOK
  BY DEF Inv
<1> QED
  BY <1>1, Invariance, PTL

(* The reported number of iterations is the number of operations run.      *)
THEOREM CountIsExact == ASSUME NonNegative PROVE Spec => []CountedIsExecuted
<1>1. Inv => CountedIsExecuted
  BY DEF Inv, EndInv, CountedIsExecuted
<1> QED
  BY <1>1, Invariance, PTL

(* The loop ends with the minimum time and the minimum number of           *)
(* iterations, or after a first chunk in which the clock did not move.     *)
THEOREM EndIsJustified == ASSUME NonNegative PROVE Spec => []EndsForAReason
<1>1. Inv => EndsForAReason
  BY DEF Inv, EndInv, EndsForAReason
<1> QED
  BY <1>1, Invariance, PTL

(* Removing the overhead leaves a time between zero and the measured one.  *)
THEOREM NetTime == ASSUME NonNegative PROVE Spec => []NetTimeInRange
<1>1. Inv => NetTimeInRange
  BY DEF Inv, EndInv, NetTimeInRange, TypeOK, Measured
<1> QED
  BY <1>1, Invariance, PTL

(* A displayed time or score is never a quotient by zero, whatever the     *)
(* reference bench measured, nothing included.                             *)
THEOREM DisplaySafe == ASSUME NonNegative PROVE Spec => []DisplayDefined
<1>1. Init => DisplayDefined
  BY DEF Init, NotShown, Ratio, DisplayDefined
<1>2. ASSUME Inv, DisplayDefined, [Next]_vars PROVE DisplayDefined'
  <2>1. CASE Display
    <3>1. iterations \in Nat /\ usec_total \in Nat
      <4>1. Measured
        BY <2>1 DEF Display, Measured
      <4>2. EndInv /\ TypeOK
        BY <1>2 DEF Inv
      <4>3. usec_total \in Nat
        BY <4>2 DEF TypeOK
      <4> QED
        BY <4>1, <4>2, <4>3 DEF EndInv
    <3>2. \A r \in References : r.iterations \in Nat /\ r.usec_total \in Nat
      BY BenchAssumption
    <3>3. \A n, u \in Nat : n # 0 /\ u # 0 => n * u > 0
      OBVIOUS
    <3>4. \A r \in References : Score(iterations, usec_total, r).den > 0
      BY <3>1, <3>2, <3>3 DEF Score, Ratio
    <3>5. shown'.usec.den > 0
      BY <2>1, <3>1 DEF Display, Ratio
    <3>6. \A s \in shown'.score : s.den > 0
      BY <2>1, <3>4 DEF Display
    <3> QED
      BY <3>5, <3>6 DEF DisplayDefined
  <2>2. CASE UNCHANGED shown
    BY <1>2, <2>2 DEF DisplayDefined
  <2>3. [Next]_vars => Display \/ UNCHANGED shown
    BY Zenon DEF Next, vars, StartRun, OneIteration, ContinueLoop, LeaveLoop, EndChunk,
       DummyIteration, RemoveOverhead
  <2> QED
    BY <1>2, <2>1, <2>2, <2>3
<1> QED
  BY <1>1, <1>2, Invariance, PTL DEF Spec

(* The extrapolation of bench.cpp:57 cannot overflow when the requested    *)
(* time is small enough for the grain of the clock and the cost of the     *)
(* cheapest operation (one CPU unit): about the square of the time.        *)
THEOREM NoOverflow ==
  ASSUME NonNegative,
         (MinUsec + Tick) * Grain * MinUsec + Tick * MinUsec <= Tick * MaxInt64
  PROVE  Spec => []ExtrapolationFits
<1>1. Inv => ExtrapolationFits
  <2> SUFFICES ASSUME Inv, pc = "run", chunks > 0
               PROVE  iterations * (MinUsec - usec_total) + usec_total \div 2 <= MaxInt64
    BY DEF ExtrapolationFits
  <2>1. /\ iterations \in Nat /\ usec_total \in Nat /\ usec_total < MinUsec
        /\ iterations * Tick <= (MinUsec + Tick) * Grain
    BY DEF Inv, LoopInv, TypeOK
  <2> DEFINE rest == MinUsec - usec_total
             half == usec_total \div 2
             bound == (MinUsec + Tick) * Grain
  <2>2. rest \in Nat /\ rest <= MinUsec /\ half \in Nat /\ half <= MinUsec
    BY <2>1, BenchAssumption
  <2>3. bound \in Nat /\ iterations * Tick <= bound /\ bound * MinUsec + Tick * MinUsec <= Tick * MaxInt64
    BY <2>1, BenchAssumption
  <2> HIDE DEF rest, half, bound
  <2>4. (iterations * Tick) * rest <= bound * rest
    BY <2>1, <2>2, <2>3, BenchAssumption
  <2>5. bound * rest <= bound * MinUsec
    BY <2>2, <2>3, BenchAssumption
  <2>6. Tick * half <= Tick * MinUsec
    BY <2>2, BenchAssumption
  <2>7. Tick * (iterations * rest + half) = (iterations * Tick) * rest + Tick * half
    BY <2>1, <2>2, BenchAssumption
  <2>8. iterations * rest + half \in Nat
    BY <2>1, <2>2
  <2>9. Tick * (iterations * rest + half) <= Tick * MaxInt64
    <3>1. bound * rest \in Int /\ bound * MinUsec \in Int /\ Tick * half \in Int
          /\ (iterations * Tick) * rest \in Int /\ Tick * MinUsec \in Int /\ Tick * MaxInt64 \in Int
      BY <2>1, <2>2, <2>3, BenchAssumption
    <3> QED
      BY <2>3, <2>4, <2>5, <2>6, <2>7, <3>1
  <2> QED
    BY <2>8, <2>9, Cancel, BenchAssumption DEF rest, half
<1> QED
  BY <1>1, Invariance, PTL

(* Every chunk after the first runs at least two iterations.               *)
THEOREM Progress == ASSUME NonNegative PROVE Spec => ChunkProgress
<1>1. Inv /\ [Next]_vars => [ContinueLoop => more' >= 2]_vars
  <2> SUFFICES ASSUME Inv, ContinueLoop PROVE more' >= 2
    OBVIOUS
  <2>1. EndChunk /\ more' = NextChunk(iterations', usec_total')
    BY DEF ContinueLoop
  <2>2. 0 < usec_total' /\ usec_total' < MinUsec
    BY <2>1, AfterChunk, BenchAssumption DEF ContinueLoop, Enough
  <2> QED
    BY <2>1, <2>2, AfterChunk, NextChunkMargin
<1> QED
  BY <1>1, Invariance, PTL DEF Spec, ChunkProgress

-----------------------------------------------------------------------------
(* The safety margin.  With an exact clock and operations of constant cost *)
(* c, n iterations measured in n * c microseconds are extrapolated to a    *)
(* total which reaches the requested time.                                 *)
LEMMA MarginSuffices ==
  ASSUME NEW n \in Nat \ {0}, NEW c \in Nat \ {0}, n * c < MinUsec
  PROVE  (n + NextChunk(n, n * c)) * c >= MinUsec
<1> DEFINE u == n * c
           rest == MinUsec - u
           q == div64(n * rest, u)
<1>1. u \in Nat \ {0} /\ rest \in Nat /\ n * rest \in Nat
  BY BenchAssumption
<1>2. q \in Nat /\ 2 * (n * rest) < 2 * u * q + u
  BY <1>1, Div64Nat
<1>3. 2 * u * q + u = n * (2 * (c * q) + c) /\ 2 * (n * rest) = n * (2 * rest)
  <2>1. q \in Nat /\ rest \in Nat
    BY <1>1, <1>2
  <2> HIDE DEF q, rest
  <2> QED
    BY <2>1
<1>4. 2 * rest <= 2 * (c * q) + c
  <2>1. 2 * rest \in Nat /\ 2 * (c * q) + c \in Nat
    BY <1>1, <1>2
  <2>2. n * (2 * rest) <= n * (2 * (c * q) + c)
    BY <1>1, <1>2, <1>3, <2>1
  <2> HIDE DEF q, rest, u
  <2> QED
    BY <2>1, <2>2, Cancel
<1>5. (n + (2 + q)) * c = u + 2 * c + c * q
  <2> HIDE DEF q
  <2> QED
    BY <1>2
<1>6. NextChunk(n, u) = 2 + q /\ c * q \in Nat
  BY <1>2 DEF NextChunk
<1> HIDE DEF q
<1> QED
  BY <1>1, <1>4, <1>5, <1>6, BenchAssumption

Steady == ExactClock /\ SteadyCost

SteadyInv ==
  Steady =>
    /\ chunks <= 2
    /\ pc = "created" => cpu = 0
    /\ pc = "run" =>
         /\ chunks <= 1
         /\ \A c \in costs.iteration : cpu = executed * c
         /\ chunks = 1 =>
              /\ \A c \in costs.iteration : usec_total = iterations * c
              /\ more = NextChunk(iterations, usec_total)

(* An exact clock shows the time consumed. *)
LEMMA ExactClockIsIdentity ==
  ASSUME ExactClock, NEW t \in Nat PROVE Clock(t) = t
  BY DEF ExactClock, Clock

(* A chunk of constant cost, on an exact clock. *)
LEMMA SteadyChunk ==
  ASSUME NonNegative, Inv, SteadyInv, Steady, EndChunk, NEW c \in costs.iteration
  PROVE  /\ usec_total' = iterations' * c
         /\ chunks = 1 => usec_total' >= MinUsec
<1>1. /\ pc = "run" /\ i = more /\ cpu = executed * c
      /\ executed \in Nat /\ iterations \in Nat /\ more \in Nat /\ executed = iterations + more
      /\ c \in Nat \ {0}
  BY BenchAssumption DEF Inv, TypeOK, LoopInv, SteadyInv, EndChunk
<1>2. cpu' = cpu
  <2>1. PICK d \in costs.call : cpu' = cpu + d
    BY DEF EndChunk
  <2>2. d = 0
    BY <2>1 DEF Steady, ExactClock
  <2> QED
    BY <2>1, <2>2 DEF Inv, TypeOK
<1>3. iterations' = executed /\ usec_total' = iterations' * c
  <2>1. iterations' = executed
    BY <1>1, AfterChunk DEF EndChunk
  <2>2. usec_total' = Clock(cpu) /\ Clock(cpu) = cpu
    BY <1>2, AfterChunk, ExactClockIsIdentity DEF Steady, Inv, TypeOK
  <2> QED
    BY <1>1, <2>1, <2>2
<1>4. ASSUME chunks = 1 PROVE usec_total' >= MinUsec
  <2>1. usec_total = iterations * c /\ more = NextChunk(iterations, usec_total)
    BY <1>1, <1>4 DEF SteadyInv
  <2>2. 0 < usec_total /\ usec_total < MinUsec
    BY <1>1, <1>4 DEF Inv, LoopInv
  <2>3. iterations \in Nat \ {0}
    BY <1>1, <2>1, <2>2
  <2>4. (iterations + more) * c >= MinUsec
    BY <1>1, <2>1, <2>2, <2>3, MarginSuffices
  <2> QED
    BY <1>1, <1>3, <2>4
<1> QED
  BY <1>3, <1>4

(* Every step preserves SteadyInv. *)
LEMMA StepSteady == ASSUME NonNegative, Inv, SteadyInv, [Next]_vars PROVE SteadyInv'
<1> SUFFICES ASSUME Steady' PROVE SteadyInv'
  BY DEF SteadyInv
<1>a. costs' = costs /\ Steady
  <2>1. costs' = costs
    BY DEF Next, vars, settings, StartRun, OneIteration, ContinueLoop, LeaveLoop, EndChunk,
       DummyIteration, RemoveOverhead, Display
  <2> QED
    BY <2>1 DEF Steady, ExactClock, SteadyCost
<1>b. chunks \in Nat /\ executed \in Nat /\ cpu \in Nat
  BY DEF Inv, TypeOK
<1>c. \A c \in costs.iteration : c \in Nat
  BY BenchAssumption DEF Inv, TypeOK
<1>1. CASE StartRun
  <2>1. cpu' = 0 /\ executed' = 0 /\ chunks' = 0 /\ pc' = "run"
    BY <1>1, <1>a DEF StartRun, SteadyInv, ghosts, Inv, EndInv
  <2> QED
    BY <2>1, <1>a, <1>c DEF SteadyInv
<1>2. CASE OneIteration
  <2>1. pc = "run" /\ pc' = "run" /\ executed' = executed + 1
        /\ UNCHANGED <<chunks, iterations, usec_total, more>>
    BY <1>2 DEF OneIteration
  <2>2. ASSUME NEW c \in costs.iteration PROVE cpu' = executed' * c
    <3>1. PICK d \in costs.iteration : cpu' = cpu + d
      BY <1>2 DEF OneIteration
    <3>2. d = c /\ cpu = executed * c
      BY <1>a, <2>1, <2>2, <3>1 DEF Steady, SteadyCost, SteadyInv
    <3> QED
      BY <1>b, <1>c, <2>1, <2>2, <3>1, <3>2
  <2> QED
    BY <1>a, <2>1, <2>2 DEF SteadyInv
<1>3. CASE ContinueLoop
  <2>1. EndChunk /\ pc = "run" /\ pc' = "run" /\ more' = NextChunk(iterations', usec_total')
    BY <1>3 DEF ContinueLoop, EndChunk
  <2>2. \E c \in costs.iteration : TRUE
    BY BenchAssumption DEF Inv, TypeOK
  <2>3. chunks = 0
    <3>1. usec_total' < MinUsec
      BY <1>3, <2>1, AfterChunk, BenchAssumption DEF ContinueLoop, Enough
    <3>2. usec_total' \in Nat /\ MinUsec \in Nat
      BY <2>1, AfterChunk, BenchAssumption
    <3>3. chunks # 1
      BY <1>a, <2>1, <2>2, <3>1, <3>2, SteadyChunk
    <3> QED
      BY <1>a, <1>b, <2>1, <3>3 DEF SteadyInv
  <2>4. chunks' = 1
    BY <2>1, <2>3, AfterChunk
  <2>5. ASSUME NEW c \in costs.iteration
        PROVE  usec_total' = iterations' * c /\ cpu' = executed' * c
    <3>1. usec_total' = iterations' * c
      BY <1>a, <2>1, <2>5, SteadyChunk
    <3>2. usec_total' = cpu'
      BY <1>a, <2>1, AfterChunk, ExactClockIsIdentity DEF Steady
    <3> QED
      BY <2>1, <3>1, <3>2, AfterChunk
  <2> QED
    BY <1>a, <2>1, <2>4, <2>5 DEF SteadyInv
<1>4. CASE LeaveLoop
  <2>1. EndChunk /\ pc = "run" /\ pc' = "calibrate"
    BY <1>4 DEF LeaveLoop, EndChunk
  <2>2. chunks' <= 2
    BY <1>a, <1>b, <2>1 DEF SteadyInv, EndChunk, ChunkCap
  <2> QED
    BY <2>1, <2>2 DEF SteadyInv
<1>5. CASE DummyIteration \/ RemoveOverhead \/ Display
  BY <1>5, <1>a DEF DummyIteration, RemoveOverhead, Display, SteadyInv, ghosts
<1>6. CASE UNCHANGED vars
  BY <1>6, <1>a DEF vars, settings, ghosts, SteadyInv
<1> QED
  BY <1>1, <1>2, <1>3, <1>4, <1>5, <1>6 DEF Next

(* With an exact clock and a constant cost, the loop ends after its second *)
(* chunk at the latest: the margin of bench.cpp:57 covers the rounding.    *)
THEOREM MarginIsSafe == ASSUME NonNegative PROVE Spec => []OneExtrapolation
<1>1. Init => SteadyInv
  <2> SUFFICES ASSUME Init PROVE SteadyInv
    OBVIOUS
  <2>1. Steady => cpu = 0
    BY DEF Init, Steady, ExactClock
  <2> QED
    BY <2>1 DEF Init, SteadyInv
<1>2. Inv /\ SteadyInv /\ [Next]_vars => SteadyInv'
  BY StepSteady
<1>3. SteadyInv => OneExtrapolation
  BY DEF SteadyInv, Steady, OneExtrapolation
<1> QED
  BY <1>1, <1>2, <1>3, Invariance, PTL DEF Spec

-----------------------------------------------------------------------------
(* The end of the loop. *)

(* What is left of a measure, in one phase or another.                     *)
LEMMA RemainingIs ==
  /\ pc = "created" => Remaining = <<4, 0, 0, 0>>
  /\ pc = "run" => Remaining = <<3, IF chunks = 0 THEN 1 ELSE 0, MostIterations - iterations, more - i>>
  /\ pc = "calibrate" => Remaining = <<2, 0, 0, iterations - i>>
  /\ pc = "done" => Remaining = <<1, 0, 0, 0>>
  /\ pc = "displayed" => Remaining = <<0, 0, 0, 0>>
BY Zenon DEF Remaining

(* The index of the calibration does not exceed the count of iterations.   *)
CalibrateInv == pc = "calibrate" => i \in Nat /\ i <= iterations

(* The calibration starts at zero and stops at the count.                  *)
LEMMA StepCalibrate == ASSUME Inv, Inv', CalibrateInv, Next PROVE CalibrateInv'
<1>1. CASE LeaveLoop
  BY <1>1 DEF LeaveLoop, EndChunk, CalibrateInv, Inv, EndInv, Measured
<1>2. CASE DummyIteration
  BY <1>2 DEF DummyIteration, CalibrateInv, Inv, EndInv, Measured
<1>3. CASE StartRun \/ OneIteration \/ ContinueLoop \/ RemoveOverhead \/ Display
  <2>1. pc' # "calibrate"
    BY <1>3 DEF StartRun, OneIteration, ContinueLoop, RemoveOverhead, Display, EndChunk
  <2> QED
    BY <2>1 DEF CalibrateInv
<1> QED
  BY <1>1, <1>2, <1>3 DEF Next

(* It is made of natural numbers: a measure which goes on is one below the *)
(* minimum time, which the grain of the clock lets last only so long.      *)
RemainingNat == \A k \in 1 .. 4 : Remaining[k] \in Nat

(* The invariants of the loop bound each of the numbers from below.        *)
LEMMA RemainingIsNat == ASSUME Inv, CalibrateInv PROVE RemainingNat
<1>1. CASE pc = "run"
  <2>1. more - i \in Nat
    BY <1>1 DEF Inv, TypeOK, LoopInv
  <2>2. MostIterations \in Nat
    BY BenchAssumption DEF MostIterations
  <2>3. MostIterations - iterations \in Nat
    <3>1. CASE chunks = 0
      BY <1>1, <2>2, <3>1 DEF Inv, LoopInv
    <3>2. CASE chunks # 0
      <4>1. iterations \in Nat /\ iterations * Tick <= MostIterations
        BY <1>1, <3>2 DEF Inv, TypeOK, LoopInv, MostIterations
      <4>2. iterations <= iterations * Tick /\ iterations * Tick \in Nat
        BY <4>1, BenchAssumption
      <4> QED
        BY <2>2, <4>1, <4>2
    <3> QED
      BY <3>1, <3>2
  <2>4. Remaining = <<3, IF chunks = 0 THEN 1 ELSE 0, MostIterations - iterations, more - i>>
    BY <1>1, RemainingIs
  <2> QED
    BY <2>1, <2>3, <2>4 DEF RemainingNat
<1>2. CASE pc = "calibrate"
  <2>1. iterations - i \in Nat
    BY <1>2 DEF Inv, EndInv, Measured, CalibrateInv
  <2>2. Remaining = <<2, 0, 0, iterations - i>>
    BY <1>2, RemainingIs
  <2> QED
    BY <2>1, <2>2 DEF RemainingNat
<1>3. CASE pc \in {"created", "done", "displayed"}
  BY <1>3, RemainingIs DEF RemainingNat
<1> QED
  BY <1>1, <1>2, <1>3 DEF Inv, TypeOK

(* And each step brings it closer to the end.                              *)
LEMMA StepRemaining ==
  ASSUME NonNegative, Inv, Inv', CalibrateInv, Next
  PROVE  Before(Remaining', Remaining)
<1> DEFINE rest == Remaining
           next == Remaining'
<1>i. /\ pc' = "run" => next = <<3, IF chunks' = 0 THEN 1 ELSE 0, MostIterations - iterations', more' - i'>>
      /\ pc' = "calibrate" => next = <<2, 0, 0, iterations' - i'>>
      /\ pc' = "done" => next = <<1, 0, 0, 0>>
      /\ pc' = "displayed" => next = <<0, 0, 0, 0>>
  BY Zenon DEF Remaining, MostIterations
<1>t. /\ i \in Nat /\ chunks \in Nat /\ MostIterations \in Nat
      /\ pc \in {"run", "calibrate"} => iterations \in Nat
      /\ pc = "run" => more \in Nat
  BY BenchAssumption DEF Inv, TypeOK, LoopInv, EndInv, Measured, MostIterations
<1> HIDE DEF rest, next
<1>1. ASSUME next[1] < rest[1]
      PROVE  Before(next, rest)
  <2>1. 1 \in 1 .. 4 /\ 1 .. 1 - 1 = {}
    OBVIOUS
  <2> QED
    BY <1>1, <2>1 DEF Before
<1>2. ASSUME pc = "run", pc' = "run", chunks = 0, chunks' # 0
      PROVE  Before(next, rest)
  <2>1. /\ rest = <<3, 1, MostIterations - iterations, more - i>>
        /\ next = <<3, 0, MostIterations - iterations', more' - i'>>
    BY <1>i, <1>2, RemainingIs DEF rest
  <2>2. next[2] < rest[2] /\ next[1] = rest[1]
    BY <2>1
  <2>3. 2 \in 1 .. 4 /\ \A j \in 1 .. 2 - 1 : j = 1
    OBVIOUS
  <2> QED
    BY <2>2, <2>3 DEF Before
<1>3. CASE StartRun
  <2>1. pc = "created" /\ pc' = "run"
    BY <1>3 DEF StartRun
  <2>2. next[1] = 3 /\ rest[1] = 4
    BY <1>i, <2>1, RemainingIs DEF rest
  <2> QED
    BY <1>1, <2>2 DEF rest, next
<1>4. CASE OneIteration
  <2>1. /\ pc = "run" /\ pc' = "run" /\ i < more /\ i' = i + 1
        /\ more' = more /\ iterations' = iterations /\ chunks' = chunks
    BY <1>4 DEF OneIteration
  <2>2. /\ rest = <<3, IF chunks = 0 THEN 1 ELSE 0, MostIterations - iterations, more - i>>
        /\ next = <<3, IF chunks = 0 THEN 1 ELSE 0, MostIterations - iterations, more - (i + 1)>>
    <3>1. rest = <<3, IF chunks = 0 THEN 1 ELSE 0, MostIterations - iterations, more - i>>
      BY <2>1, RemainingIs DEF rest
    <3>2. next = <<3, IF chunks = 0 THEN 1 ELSE 0, MostIterations - iterations, more - (i + 1)>>
      BY <1>i, <2>1, Zenon
    <3> QED
      BY <3>1, <3>2
  <2>3. next[4] < rest[4] /\ next[1] = rest[1] /\ next[2] = rest[2] /\ next[3] = rest[3]
    BY <1>t, <2>1, <2>2
  <2>4. 4 \in 1 .. 4 /\ \A j \in 1 .. 4 - 1 : j = 1 \/ j = 2 \/ j = 3
    OBVIOUS
  <2>5. Before(next, rest)
    BY <2>3, <2>4 DEF Before
  <2> QED
    BY <2>5 DEF rest, next
<1>5. CASE ContinueLoop
  <2>1. EndChunk /\ pc = "run" /\ pc' = "run"
    BY <1>5 DEF ContinueLoop, EndChunk
  <2>2. chunks' # 0
    BY <2>1, AfterChunk
  <2>3. CASE chunks = 0
    BY <1>2, <2>1, <2>2, <2>3 DEF rest, next
  <2>4. CASE chunks # 0
    <3>1. iterations' = iterations + more
      BY <2>1 DEF EndChunk
    <3>2. more >= 2
      BY <1>t, <2>1, <2>4 DEF LoopInv, Inv
    <3>3. /\ rest = <<3, 0, MostIterations - iterations, more - i>>
          /\ next = <<3, 0, MostIterations - iterations', more' - i'>>
      BY <1>i, <2>1, <2>2, <2>4, RemainingIs DEF rest
    <3>4. next[3] < rest[3] /\ next[1] = rest[1] /\ next[2] = rest[2]
      BY <1>t, <2>1, <3>1, <3>2, <3>3
    <3>5. 3 \in 1 .. 4 /\ \A j \in 1 .. 3 - 1 : j = 1 \/ j = 2
      OBVIOUS
    <3>6. Before(next, rest)
      BY <3>4, <3>5 DEF Before
    <3> QED
      BY <3>6 DEF rest, next
  <2> QED
    BY <2>3, <2>4
<1>6. CASE LeaveLoop
  <2>1. pc = "run" /\ pc' = "calibrate"
    BY <1>6 DEF LeaveLoop, EndChunk
  <2>2. next[1] = 2 /\ rest[1] = 3
    BY <1>i, <2>1, RemainingIs DEF rest
  <2> QED
    BY <1>1, <2>2 DEF rest, next
<1>7. CASE DummyIteration
  <2>1. pc = "calibrate" /\ pc' = "calibrate" /\ i < iterations /\ i' = i + 1 /\ iterations' = iterations
    BY <1>7 DEF DummyIteration
  <2>2. rest = <<2, 0, 0, iterations - i>> /\ next = <<2, 0, 0, iterations - (i + 1)>>
    <3>1. rest = <<2, 0, 0, iterations - i>>
      BY <2>1, RemainingIs DEF rest
    <3>2. next = <<2, 0, 0, iterations - (i + 1)>>
      BY <1>i, <2>1, Zenon
    <3> QED
      BY <3>1, <3>2
  <2>3. next[4] < rest[4] /\ next[1] = rest[1] /\ next[2] = rest[2] /\ next[3] = rest[3]
    BY <1>t, <2>1, <2>2
  <2>4. 4 \in 1 .. 4 /\ \A j \in 1 .. 4 - 1 : j = 1 \/ j = 2 \/ j = 3
    OBVIOUS
  <2>5. Before(next, rest)
    BY <2>3, <2>4 DEF Before
  <2> QED
    BY <2>5 DEF rest, next
<1>8. CASE RemoveOverhead
  <2>1. pc = "calibrate" /\ pc' = "done"
    BY <1>8 DEF RemoveOverhead
  <2>2. next[1] = 1 /\ rest[1] = 2
    BY <1>i, <2>1, RemainingIs DEF rest
  <2> QED
    BY <1>1, <2>2 DEF rest, next
<1>9. CASE Display
  <2>1. pc = "done" /\ pc' = "displayed"
    BY <1>9 DEF Display
  <2>2. next[1] = 0 /\ rest[1] = 1
    BY <1>i, <2>1, RemainingIs DEF rest
  <2> QED
    BY <1>1, <2>2 DEF rest, next
<1> QED
  BY <1>3, <1>4, <1>5, <1>6, <1>7, <1>8, <1>9 DEF Next

(* Every step brings the end closer in a well founded order: a measure     *)
(* takes a bounded number of steps, for any clock, costs and requested     *)
(* time (bench.cpp:30-68).                                                 *)
THEOREM LoopEnds == ASSUME NonNegative PROVE Spec => NoStepInVain
<1>1. Init => CalibrateInv
  BY DEF Init, CalibrateInv
<1>2. Inv /\ Inv' /\ CalibrateInv /\ [Next]_vars => CalibrateInv'
  <2>1. UNCHANGED vars /\ CalibrateInv => CalibrateInv'
    BY DEF vars, CalibrateInv
  <2> QED
    BY <2>1, StepCalibrate
<1>3. Inv /\ CalibrateInv => RemainingNat
  BY RemainingIsNat
<1>4. Inv /\ Inv' /\ CalibrateInv /\ RemainingNat' /\ [Next]_vars =>
        [(\A k \in 1 .. 4 : Remaining'[k] \in Nat) /\ Before(Remaining', Remaining)]_vars
  BY StepRemaining DEF RemainingNat
<1> QED
  BY <1>1, <1>2, <1>3, <1>4, Invariance, PTL DEF Spec, NoStepInVain

-----------------------------------------------------------------------------
(* The promise of a measure. *)

Stage == IF pc \in {"created", "run"} THEN "running"
         ELSE IF pc = "calibrate" THEN "timed" ELSE "reported"
Elapsed == IF pc \in {"created", "run"} THEN Clock(cpu) - start ELSE loop_usec
Reported == IF pc \in {"done", "displayed"}
              THEN {[iterations |-> iterations, usec |-> usec_total]} ELSE {}
Measurement == <<Stage, min_iterations, executed, Elapsed, Reported>>

(* Every step of the engine is a step of a measure, or changes nothing of  *)
(* it.                                                                     *)
LEMMA StepMeasure ==
  ASSUME NonNegative, Inv, Inv', [Next]_vars
  PROVE  [Promise!Next]_Measurement
<1> SUFFICES Promise!Next \/ UNCHANGED Measurement
  BY Zenon DEF Measurement
<1>t. /\ cpu \in Nat /\ Clock(cpu) \in Nat /\ executed \in Nat /\ usec_total \in Nat
  BY ClockNat DEF Inv, TypeOK
<1>s. /\ pc \in {"created", "run"} => start = 0
      /\ pc = "created" => Clock(cpu) = 0
  BY DEF Inv, TimeInv
<1>1. CASE StartRun
  <2>1. /\ pc = "created" /\ pc' = "run" /\ start' = Clock(cpu) /\ cpu' = cpu
        /\ min_iterations' = min_iterations /\ executed' = executed
    BY <1>1 DEF StartRun, settings, ghosts
  <2>2. Clock(cpu') = Clock(cpu)
    BY <2>1
  <2>3. Elapsed' = Elapsed
    BY <1>s, <2>1, <2>2 DEF Elapsed
  <2>4. Stage' = Stage /\ Reported' = Reported
    BY <2>1 DEF Stage, Reported
  <2> QED
    BY <2>1, <2>3, <2>4 DEF Measurement
<1>2. CASE OneIteration
  <2>1. /\ pc = "run" /\ pc' = "run" /\ start' = start /\ executed' = executed + 1
        /\ min_iterations' = min_iterations
    BY <1>2 DEF OneIteration, settings
  <2>2. cpu' \in Nat /\ cpu <= cpu'
    <3>1. PICK c \in costs.iteration : cpu' = cpu + c
      BY <1>2 DEF OneIteration
    <3>2. c \in Nat
      BY <3>1, BenchAssumption DEF Inv, TypeOK
    <3> QED
      BY <1>t, <3>1, <3>2
  <2>3. Clock(cpu') \in Nat /\ Clock(cpu) <= Clock(cpu')
    BY <1>t, <2>2, ClockNat, ClockMonotone
  <2>4. Elapsed' >= Elapsed
    BY <1>s, <1>t, <2>1, <2>3 DEF Elapsed
  <2>5. Promise!Operate
    BY <2>1, <2>4 DEF Promise!Operate, Elapsed
  <2> QED
    BY <2>5 DEF Promise!Next
<1>3. CASE ContinueLoop
  <2>1. /\ EndChunk /\ pc = "run" /\ pc' = "run" /\ start' = start
    BY <1>3 DEF ContinueLoop, EndChunk
  <2>2. executed' = executed /\ min_iterations' = min_iterations
    BY <2>1 DEF EndChunk, settings
  <2>3. Clock(cpu') \in Nat /\ Clock(cpu) <= Clock(cpu')
    BY <1>t, <2>1, AfterChunk, ClockNat, ClockMonotone
  <2>4. Elapsed' >= Elapsed
    BY <1>s, <1>t, <2>1, <2>3 DEF Elapsed
  <2>5. Promise!Operate
    BY <2>1, <2>2, <2>4 DEF Promise!Operate, Elapsed
  <2> QED
    BY <2>5 DEF Promise!Next
<1>4. CASE LeaveLoop
  <2>1. EndChunk /\ pc = "run" /\ pc' = "calibrate" /\ Enough(usec_total')
    BY <1>4 DEF LeaveLoop, EndChunk
  <2>2. executed' = executed /\ min_iterations' = min_iterations
    BY <2>1 DEF EndChunk, settings
  <2>3. Clock(cpu') \in Nat /\ Clock(cpu) <= Clock(cpu')
    BY <1>t, <2>1, AfterChunk, ClockNat, ClockMonotone
  <2>4. /\ loop_usec' = usec_total' /\ usec_total' = Clock(cpu') /\ executed' >= min_iterations
    BY <2>1, AfterChunk
  <2>5. Elapsed = Clock(cpu) /\ Elapsed' = Clock(cpu')
    BY <1>s, <1>t, <2>1, <2>4 DEF Elapsed
  <2>6. Elapsed' >= MinUsec \/ Elapsed' = 0
    BY <2>1, <2>3, <2>4, <2>5 DEF Enough
  <2>7. Promise!Stop
    <3>1. Elapsed' >= Elapsed
      BY <2>3, <2>5
    <3> QED
      BY <2>1, <2>2, <2>4, <2>6, <3>1 DEF Promise!Stop, Elapsed
  <2> QED
    BY <2>7 DEF Promise!Next
<1>5. CASE DummyIteration
  <2>1. pc = "calibrate" /\ pc' = pc /\ UNCHANGED <<iterations, usec_total, settings, ghosts>>
    BY <1>5 DEF DummyIteration
  <2> QED
    BY <2>1 DEF Measurement, Stage, Elapsed, Reported, settings, ghosts
<1>6. CASE RemoveOverhead
  <2>1. pc = "calibrate" /\ pc' = "done" /\ iterations' = iterations /\ UNCHANGED <<settings, ghosts>>
    BY <1>6 DEF RemoveOverhead
  <2>2. usec_total' \in Nat /\ usec_total' <= loop_usec' /\ loop_usec' = loop_usec
    BY <2>1 DEF Inv, TypeOK, EndInv, Measured, ghosts
  <2>3. iterations = executed
    BY <2>1 DEF Inv, EndInv, Measured
  <2>4. usec_total' \in 0 .. loop_usec
    BY <2>2 DEF Inv, TypeOK
  <2>5. Reported' = {[iterations |-> executed, usec |-> usec_total']}
    BY <2>1, <2>3 DEF Reported
  <2>6. Promise!Report
    BY <2>1, <2>4, <2>5 DEF Promise!Report, Reported, settings, ghosts
  <2> QED
    BY <2>6 DEF Promise!Next
<1>7. CASE Display
  <2>1. pc = "done" /\ pc' = "displayed" /\ UNCHANGED <<iterations, usec_total, settings, ghosts>>
    BY <1>7 DEF Display
  <2> QED
    BY <2>1 DEF Measurement, Stage, Elapsed, Reported, settings, ghosts
<1>8. CASE UNCHANGED vars
  BY <1>8 DEF vars, settings, ghosts, Measurement, Stage, Elapsed, Reported
<1> QED
  BY <1>1, <1>2, <1>3, <1>4, <1>5, <1>6, <1>7, <1>8 DEF Next

(* The engine implements the abstract measure: an operation is performed   *)
(* only while the clock is read, at least as often as requested, and what  *)
(* is reported is how often, with a time within what the clock told.       *)
THEOREM Implements == ASSUME NonNegative PROVE Spec => KeepsPromise
<1>1. Init => Promise!Init
  <2> SUFFICES ASSUME Init PROVE Promise!Init
    OBVIOUS
  <2>1. Clock(cpu) = 0 /\ min_iterations \in Nat
    BY InitInv DEF Init, Inv, TimeInv, NonNegative
  <2> QED
    BY <2>1 DEF Init, Promise!Init
<1>2. Inv /\ Inv' /\ [Next]_vars => [Promise!Next]_Measurement
  BY StepMeasure
<1>3. [Promise!Next]_Measurement => [Promise!Next]_Promise!measure
  BY DEF Measurement, Promise!measure, Stage, Elapsed, Reported
<1>4. Inv /\ Inv' /\ [Next]_vars => [Promise!Next]_Promise!measure
  BY <1>2, <1>3
<1> QED
  BY <1>1, <1>4, Invariance, PTL DEF Spec, KeepsPromise, Promise!Spec

=============================================================================
