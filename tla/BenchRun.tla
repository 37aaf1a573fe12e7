------------------------------ MODULE BenchRun ------------------------------
(***************************************************************************)
(* bench::run() and bench::display() of bench.cpp: the adaptive loop which *)
(* every benchmark of the program goes through.  Iterations are run in     *)
(* chunks; after each chunk the consumed CPU time is read and, as long as  *)
(* it is below the requested minimum, the size of the next chunk is        *)
(* extrapolated from what was measured.  The same number of empty          *)
(* iterations is then timed and subtracted.                                *)
(*                                                                         *)
(* CPU time is counted in fine units that the program cannot see; what     *)
(* sys::cpu_time() returns is a step function of it (Clock): the           *)
(* accounting of the operating system has a grain, and the cost of one     *)
(* iteration may be far below it.  Its origin is the last change of the    *)
(* clock before the run.                                                   *)
(***************************************************************************)
EXTENDS SysArith

CONSTANTS
  MinUsec,       (* _min_usec: requested CPU time, in microseconds.            *)
  MinIterations, (* Values of _min_iterations, from --min-iterations.          *)
  Grain,         (* CPU units between two changes of the clock.                *)
  Tick,          (* Microseconds by which the clock then advances.             *)
  CostModels,    (* Kinds of operations: the CPU units that one iteration, and *)
                 (* everything around a chunk of iterations, may cost.         *)
  DummyCosts,    (* Possible costs of one empty iteration.                     *)
  References,    (* Results of the reference bench display() may be given.     *)
  NoReference,   (* The null pointer for a reference bench.                    *)
  MaxInt64       (* Largest value of the type of the counters.                 *)

ASSUME BenchAssumption ==
  /\ MinUsec \in Nat /\ MinIterations \subseteq Int /\ MaxInt64 \in Nat
  /\ Grain \in Nat \ {0} /\ Tick \in Nat \ {0}
  /\ CostModels # {}
  /\ \A m \in CostModels : /\ m.iteration # {} /\ \A c \in m.iteration : c \in Nat \ {0}
                           /\ m.call # {} /\ \A c \in m.call : c \in Nat
  /\ DummyCosts # {} /\ \A c \in DummyCosts : c \in Nat
  /\ \A r \in References : r.iterations \in Nat /\ r.usec_total \in Nat
  /\ NoReference \notin References

VARIABLES
  pc,          (* Where run() is.                                          *)
  i,           (* Loop index of the current loop.                          *)
  more,        (* Size of the current chunk.                               *)
  iterations,  (* _iterations.                                             *)
  usec_total,  (* _usec_total.                                             *)
  start,       (* bench_start, then dummy_start.                           *)
  cpu,         (* CPU units consumed by the process.                       *)
  min_iterations, (* _min_iterations.                                      *)
  costs,       (* The cost model of this bench.                            *)
  shown,       (* What display() computed.                                 *)
  executed,    (* Ghost: number of calls to one_iteration().               *)
  chunks,      (* Ghost: number of chunks run, up to ChunkCap.             *)
  loop_usec    (* Ghost: _usec_total before the overhead is removed.       *)

ghosts == <<executed, chunks, loop_usec>>
settings == <<min_iterations, costs>>
vars == <<pc, i, more, iterations, usec_total, start, cpu, settings, shown, ghosts>>

(* Mutant of Clock: only half of the CPU time (ru_utime) is counted. *)
ClockUserOnly(t) == Tick * (t \div (2 * Grain))

(* Three chunks or more are the same to the properties. *)
ChunkCap == 3

(* sys::cpu_time(), at CPU consumption t. *)
Clock(t) == Tick * (t \div Grain)

(* Mutant of NextChunk: no safety margin. *)
NextChunkNoMargin(n, u) == div64(n * (MinUsec - u), u)

(* Chunk size after n iterations have taken u microseconds, n * (M - u) / u *)
(* to the nearest, and 2 as safe margin.                                    *)
NextChunk(n, u) == 2 + div64(n * (MinUsec - u), u)

(* bench::unit_usec(). *)
UnitUsec(n, u) == IF n <= 0 THEN 0 ELSE div64(u, n)

(* A quotient of doubles, kept as its two operands. *)
Ratio(num, den) == [num |-> num, den |-> den]

(* Mutant of Score: the reference time is not tested. *)
ScoreUnguarded(n, u, r) ==
  IF n = 0 THEN Ratio(0, 1) ELSE Ratio(u * r.iterations, n * r.usec_total)

(* bench::score() against the reference r, for factor = 1. *)
Score(n, u, r) ==
  IF n = 0 \/ r.usec_total = 0
    THEN Ratio(0, 1)
    ELSE Ratio(u * r.iterations, n * r.usec_total)

NotShown == [usec |-> Ratio(0, 1), score |-> {}]

Init ==
  /\ pc = "created" /\ i = 0 /\ more = 0
  /\ iterations = 0 /\ usec_total = 0 /\ start = 0
  /\ cpu \in 0 .. Grain - 1
  /\ min_iterations \in MinIterations
  /\ costs \in CostModels
  /\ shown = NotShown
  /\ executed = 0 /\ chunks = 0 /\ loop_usec = 0

(* Lines 32-37: reset the counters and read the clock. *)
StartRun ==
  /\ pc = "created"
  /\ pc' = "run" /\ i' = 0
  /\ more' = min_iterations
  /\ iterations' = 0 /\ usec_total' = 0
  /\ start' = Clock(cpu)
  /\ UNCHANGED <<cpu, settings, shown, ghosts>>

OneIteration ==
  /\ pc = "run" /\ i < more
  /\ i' = i + 1
  /\ executed' = executed + 1
  /\ \E c \in costs.iteration : cpu' = cpu + c
  /\ UNCHANGED <<pc, more, iterations, usec_total, start, settings, shown, chunks, loop_usec>>

(* Mutant of EndChunk: the counter of iterations is overwritten. *)
EndChunkOverwrite ==
  /\ pc = "run" /\ i >= more
  /\ iterations' = more
  /\ \E c \in costs.call : cpu' = cpu + c
  /\ usec_total' = Clock(cpu') - start
  /\ loop_usec' = usec_total'
  /\ chunks' = IF chunks < ChunkCap THEN chunks + 1 ELSE chunks
  /\ i' = 0
  /\ UNCHANGED <<settings, shown, executed>>

(* Lines 45-46: the chunk is complete, count it and read the clock. *)
EndChunk ==
  /\ pc = "run" /\ i >= more
  /\ iterations' = iterations + more
  /\ \E c \in costs.call : cpu' = cpu + c
  /\ usec_total' = Clock(cpu') - start
  /\ loop_usec' = usec_total'
  /\ chunks' = IF chunks < ChunkCap THEN chunks + 1 ELSE chunks
  /\ i' = 0
  /\ UNCHANGED <<settings, shown, executed>>

(* Mutant of Enough: one clock tick is taken for no measure at all. *)
EnoughOneTick(u) == u >= MinUsec \/ u <= Tick

(* The exit condition of line 49. *)
Enough(u) == u >= MinUsec \/ u <= 0

ContinueLoop ==
  /\ EndChunk
  /\ ~Enough(usec_total')
  /\ more' = NextChunk(iterations', usec_total')
  /\ UNCHANGED <<pc, start>>

LeaveLoop ==
  /\ EndChunk
  /\ Enough(usec_total')
  /\ pc' = "calibrate"
  /\ start' = Clock(cpu')
  /\ UNCHANGED more

(* Mutant of DummyIteration: the calibration runs the operation itself. *)
DummyIterationReal ==
  /\ pc = "calibrate" /\ i < iterations
  /\ i' = i + 1
  /\ executed' = executed + 1
  /\ \E c \in DummyCosts : cpu' = cpu + c
  /\ UNCHANGED <<pc, more, iterations, usec_total, start, settings, shown, chunks, loop_usec>>

DummyIteration ==
  /\ pc = "calibrate" /\ i < iterations
  /\ i' = i + 1
  /\ \E c \in DummyCosts : cpu' = cpu + c
  /\ UNCHANGED <<pc, more, iterations, usec_total, start, settings, shown, ghosts>>

(* Mutant of NetOf: all of the overhead is removed. *)
NetOfUnclipped(total, dummy) == total - dummy

(* Lines 66-67: never remove more than what was measured. *)
NetOf(total, dummy) == total - (IF total < dummy THEN total ELSE dummy)

RemoveOverhead ==
  /\ pc = "calibrate" /\ i >= iterations
  /\ \E c \in costs.call : cpu' = cpu + c
  /\ usec_total' = NetOf(usec_total, Clock(cpu') - start)
  /\ pc' = "done"
  /\ UNCHANGED <<i, more, iterations, start, settings, shown, ghosts>>

(* bench::display(): small unit costs are shown as a quotient of doubles,  *)
(* the score only with a reference bench which counted something.          *)
Display ==
  /\ pc = "done"
  /\ pc' = "displayed"
  /\ \E r \in References \cup {NoReference} :
       shown' =
         [usec  |-> IF UnitUsec(iterations, usec_total) > 10 \/ iterations <= 0
                      THEN Ratio(UnitUsec(iterations, usec_total), 1)
                      ELSE Ratio(usec_total, iterations),
          score |-> IF r # NoReference /\ r.iterations > 0
                      THEN {Score(iterations, usec_total, r)}
                      ELSE {}]
  /\ UNCHANGED <<i, more, iterations, usec_total, start, cpu, settings, ghosts>>

Next ==
  \/ StartRun
  \/ OneIteration
  \/ ContinueLoop
  \/ LeaveLoop
  \/ DummyIteration
  \/ RemoveOverhead
  \/ Display

(* The program is one thread which the system keeps scheduling. *)
Fairness == WF_vars(Next)

Spec == Init /\ [][Next]_vars /\ Fairness

-----------------------------------------------------------------------------

TypeOK ==
  /\ pc \in {"created", "run", "calibrate", "done", "displayed"}
  /\ i \in Nat /\ more \in Int /\ iterations \in Int
  /\ usec_total \in Nat /\ start \in Nat /\ cpu \in Nat
  /\ min_iterations \in MinIterations /\ costs \in CostModels
  /\ executed \in Nat /\ chunks \in Nat /\ loop_usec \in Nat

Measured == pc \in {"calibrate", "done", "displayed"}

(* What is reported as the number of iterations is the number of times the *)
(* benchmarked operation ran, at every end of chunk (bench.cpp:45).        *)
CountedIsExecuted == Measured => iterations = executed

(* bench.cpp:49-53: the loop gives up without the minimum CPU time only    *)
(* after its first chunk, when the clock did not move at all; it has run   *)
(* the minimum number of iterations in any case.                           *)
EndsForAReason ==
  Measured =>
    /\ executed >= min_iterations
    /\ loop_usec >= MinUsec \/ (chunks = 1 /\ loop_usec = 0)

(* bench.cpp:67: the reported time is not negative and not more than what  *)
(* was measured, however long the empty iterations took.                   *)
NetTimeInRange ==
  pc \in {"done", "displayed"} => usec_total >= 0 /\ usec_total <= loop_usec

(* No double division by zero reaches the output (bench.cpp:113, 133): a   *)
(* score is shown as zero when nothing could be measured.                  *)
DisplayDefined ==
  /\ shown.usec.den > 0
  /\ \A s \in shown.score : s.den > 0

(* The operands of the division of bench.cpp:57 fit in the type of the     *)
(* counters when the loop goes on: they multiply two quantities which grow *)
(* with the requested time.                                                *)
ExtrapolationFits ==
  (pc = "run" /\ chunks > 0) =>
    iterations * (MinUsec - usec_total) + usec_total \div 2 <= MaxInt64

(* "Always add 2 iterations as safe margin", bench.cpp:56: with a clock    *)
(* without grain and a constant cost, one extrapolation is enough.         *)
ExactClock == Grain = 1 /\ Tick = 1 /\ costs.call = {0}
SteadyCost == \A c, d \in costs.iteration : c = d
OneExtrapolation == ExactClock /\ SteadyCost => chunks <= 2

(* A chunk after the first one always runs at least the two iterations of  *)
(* the margin (bench.cpp:57), which is what makes the loop progress.       *)
ChunkProgress == [][ContinueLoop => more' >= 2]_vars

(* What is left of a measure: the phases after this one, then, in the      *)
(* loop, that nothing was timed yet, the iterations which a measure below  *)
(* the minimum time leaves, and those of the current chunk.                *)
MostIterations == (MinUsec + Tick) * Grain
Remaining ==
  CASE pc = "created"   -> <<4, 0, 0, 0>>
    [] pc = "run"       -> <<3, IF chunks = 0 THEN 1 ELSE 0, MostIterations - iterations, more - i>>
    [] pc = "calibrate" -> <<2, 0, 0, iterations - i>>
    [] pc = "done"      -> <<1, 0, 0, 0>>
    [] pc = "displayed" -> <<0, 0, 0, 0>>
Before(s, t) == \E k \in 1 .. 4 : s[k] < t[k] /\ \A j \in 1 .. k - 1 : s[j] = t[j]

(* No step is in vain, in the order of the dictionary on natural numbers,  *)
(* which is well founded: however coarse the clock, however the costs vary *)
(* and however the extrapolation is rounded, there is an end to the chunks *)
(* (bench.cpp:37-58) and every measure which keeps running reaches it.     *)
NoStepInVain ==
  [][(\A k \in 1 .. 4 : Remaining'[k] \in Nat) /\ Before(Remaining', Remaining)]_vars

(* The class keeps the promise of a measure (bench.cpp:30-68): what is     *)
(* reported is what was performed while the clock was read, and nothing is *)
(* performed after it, not even by the calibration.                        *)
Promise == INSTANCE Measure WITH
  MinTime <- MinUsec,
  stage <- IF pc \in {"created", "run"} THEN "running"
           ELSE IF pc = "calibrate" THEN "timed" ELSE "reported",
  least <- min_iterations,
  operations <- executed,
  elapsed <- IF pc \in {"created", "run"} THEN Clock(cpu) - start ELSE loop_usec,
  report <- IF pc \in {"done", "displayed"}
              THEN {[iterations |-> iterations, usec |-> usec_total]} ELSE {}
KeepsPromise == Promise!Spec

(* Every bench which is run ends and displays its result.                  *)
Termination == <>(pc = "displayed")

=============================================================================
