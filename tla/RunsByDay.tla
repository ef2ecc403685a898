----------------------------- MODULE RunsByDay -----------------------------
(***************************************************************************)
(* What the usage counters promise of a run: it is counted once, on the    *)
(* UTC day the database records its end on, and on that day for good.      *)
(***************************************************************************)
EXTENDS Naturals

CONSTANTS Runs, None, DayLength, MaxTime

ASSUME DaysAssumption == DayLength \in Nat \ {0} /\ MaxTime \in Nat /\ None \notin Nat

VARIABLES
    now,        \* the clock of the database, in ticks
    recorded    \* the day each run counts for, or None

DayOf(t) == t \div DayLength

CountedTypeOK == now \in Nat /\ recorded \in [Runs -> Nat \cup {None}]

DaysInit == now = 0 /\ recorded = [r \in Runs |-> None]

Tick == now < MaxTime /\ now' = now + 1 /\ UNCHANGED recorded

Record(r) ==
    /\ recorded[r] = None
    /\ recorded' = [recorded EXCEPT ![r] = DayOf(now)]
    /\ UNCHANGED now

DaysNext == Tick \/ \E r \in Runs : Record(r)

DaysSpec == DaysInit /\ [][DaysNext]_<<now, recorded>>
=============================================================================
