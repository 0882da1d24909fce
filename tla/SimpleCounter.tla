--------------------------- MODULE SimpleCounter ---------------------------
(***************************************************************************)
(* The simple-counter pallet (pallets/simple-counter/src/lib.rs): one u64  *)
(* storage value and the dispatchables increment and reset.  The u64 is    *)
(* modelled with width CounterBits so that its maximum is reachable.       *)
(***************************************************************************)
EXTENDS Naturals

CONSTANTS
  Accounts,      \* AccountIds that sign extrinsics (model values)
  CounterBits,   \* width of the counter (64 in the code)
  None           \* no event deposited yet

ASSUME CounterBits \in Nat \ {0}

VARIABLES
  counter,       \* Counter: StorageValue<u64, ValueQuery>
  lastEvent,     \* the last event deposited by this pallet
  lastResult     \* the DispatchResult of the last extrinsic

vars == <<counter, lastEvent, lastResult>>

MaxCounter == 2^CounterBits - 1   \* u64::MAX

\* The events of the pallet (lines 36-37).
CounterIncrementedEv(new, who) == [kind |-> "CounterIncremented", new |-> new, who |-> who]
CounterResetEv(who) == [kind |-> "CounterReset", new |-> 0, who |-> who]

\* Mutants of checked_add: a wrapping add, a plain add, and an overflow test
\* that is off by one.
WrappingAdd(x, y) == (x + y) % (MaxCounter + 1)
UncheckedAdd(x, y) == x + y
CheckedAddOffByOne(x, y) == IF x + y < MaxCounter THEN x + y ELSE None

\* u64::checked_add: the sum, or None when it does not fit.
CheckedAdd(x, y) == IF x + y <= MaxCounter THEN x + y ELSE None

\* increment: Overflow (and nothing written) at the maximum, otherwise the
\* counter becomes next and CounterIncremented{new: next, who} is deposited.
Increment(who) ==
  LET next == CheckedAdd(counter, 1) IN
  IF next = None
    THEN /\ lastResult' = "Overflow"
         /\ UNCHANGED <<counter, lastEvent>>
    ELSE /\ counter' = next
         /\ lastEvent' = CounterIncrementedEv(next, who)
         /\ lastResult' = "Ok"

\* reset: the counter becomes 0 and CounterReset{who} is deposited.
Reset(who) ==
  /\ counter' = 0
  /\ lastEvent' = CounterResetEv(who)
  /\ lastResult' = "Ok"

\* increment or reset from an unsigned origin: ensure_signed fails with
\* BadOrigin before the counter is read (lines 51, 64).
UnsignedCall ==
  /\ lastResult' = "BadOrigin"
  /\ UNCHANGED <<counter, lastEvent>>

Init ==
  /\ counter = 0
  /\ lastEvent = None
  /\ lastResult = None

Next == UnsignedCall \/ \E who \in Accounts : Increment(who) \/ Reset(who)

Spec == Init /\ [][Next]_vars

TypeOK ==
  /\ counter \in 0..MaxCounter
  /\ lastResult \in {None, "Ok", "Overflow", "BadOrigin"}

\* The counter goes down only in a step that deposits CounterReset: an
\* increment never wraps around at u64::MAX (checked_add, line 53).
CounterOnlyDropsOnReset ==
  [][counter' < counter => lastEvent' # None /\ lastEvent'.kind = "CounterReset"]_vars

\* Overflow boundary (spec 8): increment fails with Overflow only when the
\* counter holds the maximum, and then leaves it there; at maximum - 1 it
\* still succeeds (lines 52-55).
OverflowOnlyAtMax ==
  [][lastResult' = "Overflow" => counter = MaxCounter /\ counter' = counter]_vars
=============================================================================
