------------------------------- MODULE Snowflake -------------------------------
(***************************************************************************)
(* SnowflakeGenerator of flare-core-base (id/snowflake.rs): 64-bit         *)
(* identifiers made of a millisecond, the numbers of the data centre and   *)
(* the worker, and a sequence number within the millisecond.  next_id      *)
(* holds a mutex; when the sequence numbers of a millisecond are used up   *)
(* it spins, with the mutex held, until the clock shows a later one.  The  *)
(* clock is the system's: it may be set forward and back at any time.      *)
(*                                                                         *)
(* Milliseconds count from the generator's epoch, so those before it are   *)
(* negative; as a u64, shifted left, they wrap to the top of the range.    *)
(***************************************************************************)
EXTENDS Integers

CONSTANTS
    Generators,   \* SnowflakeGenerators, in whatever processes
    Machine,      \* Machine[g]: datacenter_id and worker_id as one number
    Machines,     \* how many there may be, 2^10
    SequenceSize, \* SEQUENCE_MASK + 1, 2^12
    TimeSize,     \* how many times the bits above TIMESTAMP_SHIFT hold, 2^42
    EpochMs,      \* EPOCH_MS: the clock is read in milliseconds since 1970
    MaxTime,      \* the latest reading of a clock
    None

ASSUME SnowflakeAssumption ==
    /\ Machines \in Nat \ {0} /\ SequenceSize \in Nat \ {0}
    /\ Machine \in [Generators -> 0..(Machines - 1)]
    /\ \A g, h \in Generators : g # h => Machine[g] # Machine[h]
    /\ EpochMs \in Nat /\ MaxTime \in Nat /\ TimeSize \in Nat
    /\ EpochMs + MaxTime < TimeSize
    /\ None \notin Int

Readings == (-EpochMs)..MaxTime

\* the last_timestamp of a new generator, and a clock set to a time before 1970
Never == -EpochMs - 1
Unreadable == MaxTime + 1

VARIABLES
    clock,    \* clock[g]: what the clock of g's host shows
    last,     \* SnowflakeState.last_timestamp
    sequence, \* SnowflakeState.sequence
    waiting,  \* a call is in wait_next_millis
    \* history
    latest,   \* the identifier that g returned last
    earlier,  \* those that it returned before
    cut       \* a wait_next_millis of g has failed

vars == <<clock, last, sequence, waiting, latest, earlier, cut>>

\* timestamp - EPOCH_MS as u64, in the bits that the shift keeps
TimePart(time) == IF time < 0 THEN time + TimeSize ELSE time

\* the shifts and ors of next_id
Id(g, time, number) == (TimePart(time) * Machines + Machine[g]) * SequenceSize + number

Init ==
    /\ clock \in [Generators -> Readings]
    /\ last = [g \in Generators |-> Never]
    /\ sequence = [g \in Generators |-> 0]
    /\ waiting = [g \in Generators |-> FALSE]
    /\ latest = [g \in Generators |-> None]
    /\ earlier = [g \in Generators |-> {}]
    /\ cut = [g \in Generators |-> FALSE]

\* mutant: the sequence is not masked
NextNumberUnmasked(number) == number + 1

\* the next number in a millisecond; 0 says that they are used up
NextNumber(number) == (number + 1) % SequenceSize

\* next_id returns the identifier of a millisecond and a number
Return(g, time, number) ==
    /\ last' = [last EXCEPT ![g] = time]
    /\ sequence' = [sequence EXCEPT ![g] = number]
    /\ latest' = [latest EXCEPT ![g] = Id(g, time, number)]
    /\ earlier' = [earlier EXCEPT ![g] = @ \cup ({latest[g]} \ {None})]

\* mutant: a clock that went back is taken as it is
FirstOfMillisecondAlways(g) ==
    /\ ~waiting[g] /\ clock[g] \in Readings /\ clock[g] # last[g]
    /\ Return(g, clock[g], 0)
    /\ UNCHANGED <<clock, waiting, cut>>

\* next_id in a millisecond that is new.  In one that is past, and when the clock
\* cannot be read, next_id fails and changes nothing.
FirstOfMillisecond(g) ==
    /\ ~waiting[g] /\ clock[g] \in Readings /\ clock[g] > last[g]
    /\ Return(g, clock[g], 0)
    /\ UNCHANGED <<clock, waiting, cut>>

\* next_id in the millisecond of the call before
NextOfMillisecond(g) ==
    /\ ~waiting[g] /\ clock[g] = last[g]
    /\ LET number == NextNumber(sequence[g])
       IN  IF number # 0
           THEN Return(g, last[g], number) /\ UNCHANGED waiting
           ELSE /\ sequence' = [sequence EXCEPT ![g] = 0]
                /\ waiting' = [waiting EXCEPT ![g] = TRUE]
                /\ UNCHANGED <<last, latest, earlier>>
    /\ UNCHANGED <<clock, cut>>

\* wait_next_millis reads a later millisecond
EndWait(g) ==
    /\ waiting[g] /\ clock[g] \in Readings /\ clock[g] > last[g]
    /\ Return(g, clock[g], 0)
    /\ waiting' = [waiting EXCEPT ![g] = FALSE]
    /\ UNCHANGED <<clock, cut>>

\* wait_next_millis fails, and leaves the sequence where it was reset to
CutWait(g) ==
    /\ waiting[g] /\ clock[g] = Unreadable
    /\ waiting' = [waiting EXCEPT ![g] = FALSE]
    /\ cut' = [cut EXCEPT ![g] = TRUE]
    /\ UNCHANGED <<clock, last, sequence, latest, earlier>>

\* time passes, or the clock is set
ClockMoves(g) ==
    /\ \E reading \in Readings \cup {Unreadable} : clock' = [clock EXCEPT ![g] = reading]
    /\ UNCHANGED <<last, sequence, waiting, latest, earlier, cut>>

Next ==
    \E g \in Generators :
       \/ FirstOfMillisecond(g) \/ NextOfMillisecond(g)
       \/ EndWait(g) \/ CutWait(g) \/ ClockMoves(g)

Spec == Init /\ [][Next]_vars

------------------------------------------------------------------------------
(***************************************************************************)
(* Properties                                                              *)
(***************************************************************************)

TypeOK ==
    /\ clock \in [Generators -> Readings \cup {Unreadable}]
    /\ last \in [Generators -> Readings \cup {Never}]
    /\ sequence \in [Generators -> 0..(SequenceSize - 1)]
    /\ waiting \in [Generators -> BOOLEAN]
    /\ latest \in [Generators -> Nat \cup {None}]
    /\ earlier \in [Generators -> SUBSET Nat]
    /\ cut \in [Generators -> BOOLEAN]

\* No identifier is returned twice, by one generator or by two, however the clocks
\* are set; only a generator whose wait was cut short by an unreadable clock may
\* repeat one of its own.
Unique ==
    \A g \in Generators : latest[g] # None =>
       /\ latest[g] \in earlier[g] => cut[g]
       /\ \A h \in Generators \ {g} : latest[g] \notin earlier[h] \cup {latest[h]}

\* the identifiers of milliseconds since the epoch
SinceEpoch == 0..((MaxTime + 1) * Machines * SequenceSize - 1)

\* A generator returns ever greater identifiers, also when its clock is set back;
\* those of a time before the epoch have wrapped, and come before smaller ones.
Increasing ==
    \A g \in Generators : latest[g] # None /\ ~cut[g] =>
       \A id \in earlier[g] : id < latest[g] \/ id \notin SinceEpoch

==============================================================================
