------------------------ MODULE SimpleCounterWeights ------------------------
(***************************************************************************)
(* Weight accounting of the simple-counter pallet: the storage reads and   *)
(* writes each path of a call makes (lib.rs), the database weight declared *)
(* for the call (weights.rs) and the setup each benchmark measures it from *)
(* (benchmarking.rs).  FRAME charges the declared weight before dispatch,  *)
(* so a path that touches more storage than declared is undercharged.      *)
(***************************************************************************)
EXTENDS SimpleCounter

Calls == {"increment", "reset"}

\* A count of storage accesses, as DbWeight::reads(r) + writes(w).
IO(r, w) == [reads |-> r, writes |-> w]
Within(io, w) == io.reads <= w.reads /\ io.writes <= w.writes

\* increment reads Counter (line 52) and writes it (line 55) only when
\* checked_add succeeds; reset only writes it (line 65).
IncrementIO(c) == IO(1, IF CheckedAdd(c, 1) = None THEN 0 ELSE 1)
ResetIO(c) == IO(0, 1)
CallIO(call, c) == IF call = "increment" THEN IncrementIO(c) ELSE ResetIO(c)

\* Both WeightInfo impls, SubstrateWeight<T> and (), declare reads(1) +
\* writes(1) for increment and writes(1) for reset on top of a constant
\* ref_time.
\* Mutant: increment's weight without its reads(1).
DeclaredWeightNoRead == [increment |-> IO(0, 1), reset |-> IO(0, 1)]

DeclaredWeight == [increment |-> IO(1, 1), reset |-> IO(0, 1)]

\* The counter each benchmark starts from: the genesis value 0 for
\* increment, Counter::put(5) for reset.
BenchCounter == [increment |-> 0, reset |-> 5]

\* The counter each benchmarked call leaves: increment puts checked_add's
\* result (line 55), reset puts 0 (line 65).  The verify blocks assert
\* Counter::get() >= 1 after increment and = 0 after reset.
BenchAfter(call) ==
  IF call = "increment" THEN CheckedAdd(BenchCounter.increment, 1) ELSE 0
BenchVerified(call) ==
  IF call = "increment" THEN BenchAfter(call) # None /\ BenchAfter(call) >= 1
  ELSE BenchAfter(call) = 0

ASSUME 5 <= MaxCounter

\* The weight of each call covers every path it can take: the benchmarked
\* path makes exactly the declared reads and writes and passes its verify
\* block, and from every reachable counter value (the maximum included, where
\* increment stops before its write) the call makes no more.
WeightCoversEveryPath ==
  \A call \in Calls :
    /\ CallIO(call, BenchCounter[call]) = DeclaredWeight[call]
    /\ BenchVerified(call)
    /\ Within(CallIO(call, counter), DeclaredWeight[call])
=============================================================================
