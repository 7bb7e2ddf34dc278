--------------------------- MODULE SnowflakeProofs ---------------------------
(***************************************************************************)
(* Identifiers are unique and increase, for any number of generators, any  *)
(* widths of the parts and any clocks.                                     *)
(***************************************************************************)
EXTENDS Snowflake, TLAPS

Numbers == 0..(SequenceSize - 1)

\* the number of the last identifier in its millisecond
Reached(g) == IF waiting[g] THEN SequenceSize - 1 ELSE sequence[g]

\* a millisecond and number before the one that g has reached
Passed(g, time, number) ==
    time < last[g] \/ (time = last[g] /\ number < Reached(g))

MadeInv(g) ==
    \A id \in earlier[g] \cup ({latest[g]} \ {None}) :
       \E time \in Readings, number \in Numbers : id = Id(g, time, number)

FreshInv(g) == latest[g] = None => earlier[g] = {} /\ last[g] = Never /\ ~waiting[g]

OrderInv(g) == ~cut[g] /\ latest[g] # None =>
    /\ last[g] \in Readings
    /\ latest[g] = Id(g, last[g], Reached(g))
    /\ \A id \in earlier[g] : \E time \in Readings, number \in Numbers :
          id = Id(g, time, number) /\ Passed(g, time, number)

SnowflakeInv ==
    /\ TypeOK
    /\ \A g \in Generators : MadeInv(g) /\ FreshInv(g) /\ OrderInv(g)

------------------------------------------------------------------------------
(***************************************************************************)
(* Numbers made of digits                                                  *)
(***************************************************************************)

\* The greater leading part makes the greater number.
LEMMA DigitsLess ==
    ASSUME NEW s \in Nat, NEW a \in Nat, NEW b \in Nat, NEW c \in Nat, NEW d \in Nat,
           a < c, b < s
    PROVE  a * s + b < c * s + d
<1> DEFINE e == c - a - 1
<1>1. e \in Nat /\ c = a + 1 + e
  OBVIOUS
<1>2. c * s = a * s + s + e * s
  <2>1. (a + 1 + e) * s = a * s + s + e * s
    BY <1>1
  <2> QED BY <1>1, <2>1
<1>3. e * s \in Nat /\ a * s \in Nat
  BY <1>1
<1> HIDE DEF e
<1> QED BY <1>2, <1>3

\* A number has one leading part and one last digit.
LEMMA DigitsUnique ==
    ASSUME NEW s \in Nat, NEW a \in Nat, NEW b \in Nat, NEW c \in Nat, NEW d \in Nat,
           b < s, d < s, a * s + b = c * s + d
    PROVE  a = c /\ b = d
<1>1. a * s + b \in Nat /\ c * s + d \in Nat
  OBVIOUS
<1>2. ~(a < c)
  BY <1>1, DigitsLess
<1>3. ~(c < a)
  <2>1. SUFFICES ASSUME c < a PROVE FALSE
    OBVIOUS
  <2>2. c * s + d < a * s + b
    BY <2>1, DigitsLess
  <2> QED BY <1>1, <2>2
<1>4. a = c
  BY <1>2, <1>3
<1> QED BY <1>4

\* The parts of an identifier are natural numbers.
LEMMA Parts ==
    ASSUME NEW g \in Generators, NEW time \in Readings
    PROVE  /\ TimePart(time) \in Nat
           /\ Machine[g] \in Nat /\ Machine[g] < Machines
           /\ TimePart(time) * Machines + Machine[g] \in Nat
<1>1. TimePart(time) \in Nat
  BY SnowflakeAssumption DEF TimePart, Readings
<1>2. Machine[g] \in Nat /\ Machine[g] < Machines
  BY SnowflakeAssumption
<1>3. TimePart(time) * Machines \in Nat
  BY <1>1, SnowflakeAssumption
<1> QED BY <1>1, <1>2, <1>3

LEMMA IdIsNat ==
    ASSUME NEW g \in Generators, NEW time \in Readings, NEW number \in Numbers
    PROVE  Id(g, time, number) \in Nat
<1> DEFINE high == TimePart(time) * Machines + Machine[g]
<1>1. high \in Nat /\ number \in Nat
  BY Parts, SnowflakeAssumption DEF Numbers
<1> HIDE DEF high
<1>2. high * SequenceSize \in Nat
  BY <1>1, SnowflakeAssumption
<1> QED BY <1>1, <1>2 DEF Id, high

\* Two generators, two milliseconds or two numbers make two identifiers.
LEMMA IdInjective ==
    ASSUME NEW g \in Generators, NEW h \in Generators,
           NEW time \in Readings, NEW number \in Numbers,
           NEW other \in Readings, NEW another \in Numbers,
           Id(g, time, number) = Id(h, other, another)
    PROVE  g = h /\ time = other /\ number = another
<1> DEFINE a == TimePart(time) * Machines + Machine[g]
           c == TimePart(other) * Machines + Machine[h]
<1>1. a \in Nat /\ c \in Nat
  BY Parts
<1>2. /\ SequenceSize \in Nat /\ number \in Nat /\ another \in Nat
      /\ number < SequenceSize /\ another < SequenceSize
  BY SnowflakeAssumption DEF Numbers
<1>3. a * SequenceSize + number = c * SequenceSize + another
  BY DEF Id
<1> HIDE DEF a, c
<1>4. a = c /\ number = another
  BY <1>1, <1>2, <1>3, DigitsUnique
<1>5. TimePart(time) = TimePart(other) /\ Machine[g] = Machine[h]
  <2>1. TimePart(time) * Machines + Machine[g] = TimePart(other) * Machines + Machine[h]
    BY <1>4 DEF a, c
  <2>2. Machines \in Nat
    BY SnowflakeAssumption
  <2>3. /\ TimePart(time) \in Nat /\ TimePart(other) \in Nat
        /\ Machine[g] \in Nat /\ Machine[h] \in Nat
        /\ Machine[g] < Machines /\ Machine[h] < Machines
    BY Parts, SnowflakeAssumption
  <2> QED BY <2>1, <2>2, <2>3, DigitsUnique
<1>6. time = other
  BY <1>5, SnowflakeAssumption DEF TimePart, Readings
<1> QED BY <1>4, <1>5, <1>6, SnowflakeAssumption

\* A later millisecond, or the same and a greater number, makes a greater identifier,
\* unless the earlier one is before the epoch.
LEMMA IdLess ==
    ASSUME NEW g \in Generators,
           NEW time \in Readings, NEW number \in Numbers,
           NEW other \in Readings, NEW another \in Numbers,
           time < other \/ (time = other /\ number < another)
    PROVE  Id(g, time, number) < Id(g, other, another) \/ Id(g, time, number) \notin SinceEpoch
<1> DEFINE a == TimePart(time) * Machines + Machine[g]
           c == TimePart(other) * Machines + Machine[g]
<1>1. a \in Nat /\ c \in Nat
  BY Parts
<1>2. /\ SequenceSize \in Nat /\ number \in Nat /\ another \in Nat
      /\ number < SequenceSize /\ another < SequenceSize
  BY SnowflakeAssumption DEF Numbers
<1>3. CASE time = other
  <2>1. number < another
    BY <1>3 DEF Readings
  <2>2. a = c
    BY <1>3
  <2>3. a * SequenceSize \in Nat
    BY <1>1, <1>2
  <2>4. a * SequenceSize + number < c * SequenceSize + another
    BY <2>1, <2>2, <2>3, <1>2
  <2> QED BY <2>4 DEF Id
<1>4. CASE time < other /\ time >= 0
  <2>1. TimePart(time) < TimePart(other)
    BY <1>4, SnowflakeAssumption DEF TimePart, Readings
  <2>2. Machines \in Nat
    BY SnowflakeAssumption
  <2>3. a < c
    BY <2>1, <2>2, Parts, DigitsLess
  <2> HIDE DEF a, c
  <2>4. a * SequenceSize + number < c * SequenceSize + another
    BY <1>1, <1>2, <2>3, DigitsLess
  <2> QED BY <2>4 DEF Id, a, c
<1>5. CASE time < 0
  <2> DEFINE top == (MaxTime + 1) * Machines
  <2>1. /\ MaxTime + 1 \in Nat /\ Machines \in Nat /\ TimePart(time) \in Nat
        /\ MaxTime + 1 <= TimePart(time)
    BY <1>5, Parts, SnowflakeAssumption DEF TimePart, Readings
  <2>2. top <= TimePart(time) * Machines
    <3> DEFINE e == TimePart(time) - (MaxTime + 1)
    <3>1. e \in Nat /\ TimePart(time) = MaxTime + 1 + e
      BY <2>1
    <3> HIDE DEF e
    <3>2. (MaxTime + 1 + e) * Machines = (MaxTime + 1) * Machines + e * Machines
      BY <2>1, <3>1
    <3>3. e * Machines \in Nat /\ (MaxTime + 1) * Machines \in Nat
      BY <2>1, <3>1
    <3> QED BY <3>1, <3>2, <3>3
  <2>3. top \in Nat
    BY <2>1
  <2>4. top <= a
    <3>1. TimePart(time) * Machines \in Nat /\ Machine[g] \in Nat
      BY <2>1, Parts
    <3> HIDE DEF top
    <3> QED BY <2>2, <2>3, <3>1
  <2> HIDE DEF a, top
  <2>5. top * SequenceSize <= a * SequenceSize
    <3> DEFINE e == a - top
    <3>1. e \in Nat /\ a = top + e
      BY <1>1, <2>3, <2>4
    <3> HIDE DEF e
    <3>2. (top + e) * SequenceSize = top * SequenceSize + e * SequenceSize
      BY <1>2, <2>3, <3>1
    <3>3. e * SequenceSize \in Nat /\ top * SequenceSize \in Nat
      BY <1>2, <2>3, <3>1
    <3> QED BY <3>1, <3>2, <3>3
  <2>6. a * SequenceSize + number \notin 0..(top * SequenceSize - 1)
    <3>1. a * SequenceSize \in Nat /\ top * SequenceSize \in Nat
      BY <1>1, <1>2, <2>3
    <3> QED BY <2>5, <3>1, <1>2
  <2> QED BY <2>6 DEF Id, SinceEpoch, a, top
<1> QED BY <1>3, <1>4, <1>5 DEF Readings

------------------------------------------------------------------------------
(***************************************************************************)
(* The invariant                                                           *)
(***************************************************************************)

LEMMA InitKeeps == Init => SnowflakeInv
<1> SUFFICES ASSUME Init PROVE SnowflakeInv
  OBVIOUS
<1>1. TypeOK
  BY SnowflakeAssumption DEF Init, TypeOK, Readings, Never
<1>2. \A g \in Generators : MadeInv(g) /\ FreshInv(g) /\ OrderInv(g)
  BY DEF Init, MadeInv, FreshInv, OrderInv
<1> QED BY <1>1, <1>2 DEF SnowflakeInv

\* An identifier that comes after those before keeps the invariant.
LEMMA ReturnKeeps ==
    ASSUME SnowflakeInv, NEW g \in Generators,
           NEW time \in Readings, NEW number \in Numbers,
           latest[g] # None /\ ~cut[g] =>
              last[g] < time \/ (last[g] = time /\ Reached(g) < number),
           Return(g, time, number), cut' = cut, clock' = clock,
           waiting' = [waiting EXCEPT ![g] = FALSE]
    PROVE  SnowflakeInv'
<1>1. TypeOK'
  <2>1. Id(g, time, number) \in Nat
    BY IdIsNat
  <2>2. latest[g] \in Nat \cup {None} /\ earlier[g] \in SUBSET Nat
    BY DEF SnowflakeInv, TypeOK
  <2>3. earlier[g] \cup ({latest[g]} \ {None}) \in SUBSET Nat
    BY <2>2
  <2> QED BY <2>1, <2>3 DEF SnowflakeInv, TypeOK, Return, Numbers
<1>2. ASSUME NEW h \in Generators, h # g
      PROVE  MadeInv(h)' /\ FreshInv(h)' /\ OrderInv(h)'
  <2>1. /\ last'[h] = last[h] /\ sequence'[h] = sequence[h] /\ waiting'[h] = waiting[h]
        /\ latest'[h] = latest[h] /\ earlier'[h] = earlier[h] /\ cut'[h] = cut[h]
    BY <1>2 DEF SnowflakeInv, TypeOK, Return
  <2>2. MadeInv(h) /\ FreshInv(h) /\ OrderInv(h)
    BY DEF SnowflakeInv
  <2>3. MadeInv(h)' /\ FreshInv(h)'
    BY <2>1, <2>2 DEF MadeInv, FreshInv
  <2>4. Reached(h)' = Reached(h)
        /\ \A t \in Readings, n \in Numbers : Passed(h, t, n)' = Passed(h, t, n)
    BY <2>1 DEF Passed, Reached
  <2>5. OrderInv(h)'
    BY <2>1, <2>2, <2>4 DEF OrderInv
  <2> QED BY <2>3, <2>5
<1>3. /\ last'[g] = time /\ sequence'[g] = number /\ waiting'[g] = FALSE
      /\ latest'[g] = Id(g, time, number)
      /\ earlier'[g] = earlier[g] \cup ({latest[g]} \ {None})
      /\ cut'[g] = cut[g]
  BY DEF SnowflakeInv, TypeOK, Return
<1>4. latest'[g] # None
  BY <1>3, IdIsNat, SnowflakeAssumption
<1>5. MadeInv(g)'
  <2>1. MadeInv(g)
    BY DEF SnowflakeInv
  <2> QED BY <1>3, <2>1 DEF MadeInv
<1>6. OrderInv(g)'
  <2>1. SUFFICES ASSUME ~cut[g], NEW id \in earlier[g] \cup ({latest[g]} \ {None})
                 PROVE  \E t \in Readings, n \in Numbers :
                           id = Id(g, t, n) /\ (t < time \/ (t = time /\ n < number))
    BY <1>3 DEF OrderInv, Passed, Reached
  <2>2. CASE latest[g] = None
    BY <2>1, <2>2 DEF SnowflakeInv, FreshInv
  <2>3. CASE latest[g] # None
    <3>1. /\ last[g] \in Readings /\ latest[g] = Id(g, last[g], Reached(g))
          /\ \A i \in earlier[g] : \E t \in Readings, n \in Numbers :
                i = Id(g, t, n) /\ Passed(g, t, n)
      BY <2>1, <2>3 DEF SnowflakeInv, OrderInv
    <3>2. last[g] < time \/ (last[g] = time /\ Reached(g) < number)
      BY <2>1, <2>3
    <3>3. Reached(g) \in Numbers
      BY SnowflakeAssumption DEF SnowflakeInv, TypeOK, Reached, Numbers
    <3>4. CASE id \in earlier[g]
      <4>1. PICK t \in Readings, n \in Numbers : id = Id(g, t, n) /\ Passed(g, t, n)
        BY <3>1, <3>4
      <4>2. t < time \/ (t = time /\ n < number)
        BY <3>1, <3>2, <3>3, <4>1 DEF Passed, Readings, Numbers
      <4> QED BY <4>1, <4>2
    <3>5. CASE id = latest[g]
      BY <3>1, <3>2, <3>3, <3>5
    <3> QED BY <2>1, <3>4, <3>5
  <2> QED BY <2>2, <2>3
<1>7. FreshInv(g)'
  BY <1>4 DEF FreshInv
<1> QED BY <1>1, <1>2, <1>5, <1>6, <1>7 DEF SnowflakeInv

\* A step that returns nothing keeps it, if it does not move the number reached or
\* cuts a wait.
LEMMA QuietKeeps ==
    ASSUME SnowflakeInv, TypeOK', UNCHANGED <<last, latest, earlier>>,
           \A g \in Generators :
              /\ ~cut'[g] => ~cut[g] /\ Reached(g)' = Reached(g)
              /\ waiting'[g] => latest[g] # None
    PROVE  SnowflakeInv'
<1>1. ASSUME NEW g \in Generators PROVE MadeInv(g)' /\ FreshInv(g)' /\ OrderInv(g)'
  <2>1. MadeInv(g) /\ FreshInv(g) /\ OrderInv(g)
    BY <1>1 DEF SnowflakeInv
  <2>2. MadeInv(g)' /\ FreshInv(g)'
    BY <1>1, <2>1 DEF MadeInv, FreshInv
  <2>3. OrderInv(g)'
    BY <1>1, <2>1 DEF OrderInv, Passed
  <2> QED BY <2>2, <2>3
<1> QED BY <1>1 DEF SnowflakeInv

LEMMA StepKeeps == SnowflakeInv /\ [Next]_vars => SnowflakeInv'
<1> SUFFICES ASSUME SnowflakeInv, [Next]_vars PROVE SnowflakeInv'
  OBVIOUS
<1> USE SnowflakeAssumption
<1>1. ASSUME NEW g \in Generators, FirstOfMillisecond(g) PROVE SnowflakeInv'
  <2>1. waiting' = [waiting EXCEPT ![g] = FALSE]
    BY <1>1 DEF FirstOfMillisecond, SnowflakeInv, TypeOK
  <2>2. 0 \in Numbers
    BY DEF Numbers
  <2> QED BY <1>1, <2>1, <2>2, ReturnKeeps DEF FirstOfMillisecond
<1>2. ASSUME NEW g \in Generators, NextOfMillisecond(g) PROVE SnowflakeInv'
  <2>1. last[g] \in Readings /\ latest[g] # None /\ sequence[g] \in Numbers
    BY <1>2 DEF NextOfMillisecond, SnowflakeInv, FreshInv, TypeOK, Readings, Never, Unreadable, Numbers
  <2>2. NextNumber(sequence[g]) = IF sequence[g] + 1 = SequenceSize THEN 0 ELSE sequence[g] + 1
    <3>1. CASE sequence[g] + 1 = SequenceSize
      BY <3>1 DEF NextNumber
    <3>2. CASE sequence[g] + 1 < SequenceSize
      BY <2>1, <3>2 DEF NextNumber, Numbers
    <3> QED BY <2>1, <3>1, <3>2 DEF Numbers
  <2>3. CASE NextNumber(sequence[g]) # 0
    <3>1. /\ NextNumber(sequence[g]) = sequence[g] + 1
          /\ sequence[g] + 1 \in Numbers
      BY <2>1, <2>2, <2>3 DEF Numbers
    <3>2. Return(g, last[g], sequence[g] + 1) /\ UNCHANGED <<waiting, clock, cut>> /\ ~waiting[g]
      BY <1>2, <2>3, <3>1 DEF NextOfMillisecond
    <3>3. waiting' = [waiting EXCEPT ![g] = FALSE]
      BY <3>2 DEF SnowflakeInv, TypeOK
    <3>4. Reached(g) < sequence[g] + 1
      BY <2>1, <3>2 DEF Reached, Numbers
    <3> QED BY <2>1, <3>1, <3>2, <3>3, <3>4, ReturnKeeps
  <2>4. CASE NextNumber(sequence[g]) = 0
    <3>1. sequence[g] = SequenceSize - 1
      BY <2>1, <2>2, <2>4 DEF Numbers
    <3>2. /\ sequence' = [sequence EXCEPT ![g] = 0] /\ waiting' = [waiting EXCEPT ![g] = TRUE]
          /\ UNCHANGED <<last, latest, earlier, clock, cut>> /\ ~waiting[g]
      BY <1>2, <2>4 DEF NextOfMillisecond
    <3>3. TypeOK'
      BY <3>2 DEF SnowflakeInv, TypeOK
    <3>4. ASSUME NEW h \in Generators
          PROVE  Reached(h)' = Reached(h) /\ (waiting'[h] => latest[h] # None)
      <4>1. CASE h = g
        BY <2>1, <3>1, <3>2, <4>1 DEF Reached, SnowflakeInv, TypeOK
      <4>2. CASE h # g
        BY <3>2, <4>2 DEF Reached, SnowflakeInv, TypeOK, FreshInv
      <4> QED BY <4>1, <4>2
    <3> QED BY <3>2, <3>3, <3>4, QuietKeeps
  <2> QED BY <2>3, <2>4
<1>3. ASSUME NEW g \in Generators, EndWait(g) PROVE SnowflakeInv'
  <2>1. 0 \in Numbers
    BY DEF Numbers
  <2> QED BY <1>3, <2>1, ReturnKeeps DEF EndWait
<1>4. ASSUME NEW g \in Generators, CutWait(g) PROVE SnowflakeInv'
  <2>1. TypeOK'
    BY <1>4 DEF CutWait, SnowflakeInv, TypeOK
  <2>2. ASSUME NEW h \in Generators
        PROVE  /\ ~cut'[h] => ~cut[h] /\ Reached(h)' = Reached(h)
               /\ waiting'[h] => latest[h] # None
    BY <1>4 DEF CutWait, Reached, SnowflakeInv, TypeOK, FreshInv
  <2> QED BY <1>4, <2>1, <2>2, QuietKeeps DEF CutWait
<1>5. ASSUME NEW g \in Generators, ClockMoves(g) PROVE SnowflakeInv'
  <2>1. TypeOK'
    BY <1>5 DEF ClockMoves, SnowflakeInv, TypeOK
  <2> QED BY <1>5, <2>1, QuietKeeps DEF ClockMoves, Reached, SnowflakeInv, FreshInv
<1>6. CASE UNCHANGED vars
  <2>1. TypeOK'
    BY <1>6 DEF vars, SnowflakeInv, TypeOK
  <2> QED BY <1>6, <2>1, QuietKeeps DEF vars, Reached, SnowflakeInv, FreshInv
<1> QED BY <1>1, <1>2, <1>3, <1>4, <1>5, <1>6 DEF Next

LEMMA Invariance == Spec => []SnowflakeInv
BY InitKeeps, StepKeeps, PTL DEF Spec

\* next_id keeps the generator's state, and the identifiers, within their ranges.
THEOREM TypeCorrect == Spec => []TypeOK
<1>1. SnowflakeInv => TypeOK
  BY DEF SnowflakeInv
<1> QED BY <1>1, Invariance, PTL

\* next_id never returns an identifier that any generator has returned, except after
\* a wait that was cut short.
THEOREM IdsUnique == Spec => []Unique
<1>1. SnowflakeInv => Unique
  <2> SUFFICES ASSUME SnowflakeInv, NEW g \in Generators, latest[g] # None
               PROVE  /\ latest[g] \in earlier[g] => cut[g]
                      /\ \A h \in Generators \ {g} : latest[g] \notin earlier[h] \cup {latest[h]}
    BY DEF Unique
  <2>1. ASSUME latest[g] \in earlier[g], ~cut[g] PROVE FALSE
    <3>1. PICK time \in Readings, number \in Numbers :
             /\ latest[g] = Id(g, time, number) /\ Passed(g, time, number)
             /\ last[g] \in Readings /\ latest[g] = Id(g, last[g], Reached(g))
      BY <2>1 DEF SnowflakeInv, OrderInv
    <3>2. Reached(g) \in Numbers
      BY SnowflakeAssumption DEF SnowflakeInv, TypeOK, Reached, Numbers
    <3>3. Id(g, time, number) = Id(g, last[g], Reached(g)) /\ last[g] \in Readings
      BY <3>1
    <3>4. time = last[g] /\ number = Reached(g)
      <4> DEFINE t == last[g]
                 n == Reached(g)
      <4>1. t \in Readings /\ n \in Numbers /\ Id(g, time, number) = Id(g, t, n)
        BY <3>2, <3>3
      <4> HIDE DEF t, n
      <4>2. time = t /\ number = n
        BY <4>1, IdInjective
      <4> QED BY <4>2 DEF t, n
    <3> QED BY <3>1, <3>2, <3>4 DEF Passed, Readings, Numbers
  <2>2. ASSUME NEW h \in Generators \ {g}, latest[g] \in earlier[h] \cup {latest[h]}
        PROVE  FALSE
    <3>1. PICK time \in Readings, number \in Numbers : latest[g] = Id(g, time, number)
      BY DEF SnowflakeInv, MadeInv
    <3>2. PICK other \in Readings, another \in Numbers : latest[g] = Id(h, other, another)
      BY <2>2 DEF SnowflakeInv, MadeInv
    <3>3. Id(g, time, number) = Id(h, other, another) /\ h \in Generators /\ g # h
      BY <2>2, <3>1, <3>2
    <3>4. g = h
      BY <3>3, IdInjective
    <3> QED BY <3>3, <3>4
  <2> QED BY <2>1, <2>2
<1> QED BY <1>1, Invariance, PTL

\* The identifiers of a generator increase whatever its clock does, from the epoch on.
THEOREM IdsIncrease == Spec => []Increasing
<1>1. SnowflakeInv => Increasing
  <2> SUFFICES ASSUME SnowflakeInv, NEW g \in Generators, latest[g] # None, ~cut[g],
                      NEW id \in earlier[g]
               PROVE  id < latest[g] \/ id \notin SinceEpoch
    BY DEF Increasing
  <2>1. PICK time \in Readings, number \in Numbers :
           /\ id = Id(g, time, number) /\ Passed(g, time, number)
           /\ last[g] \in Readings /\ latest[g] = Id(g, last[g], Reached(g))
    BY DEF SnowflakeInv, OrderInv
  <2>2. Reached(g) \in Numbers
    BY SnowflakeAssumption DEF SnowflakeInv, TypeOK, Reached, Numbers
  <2> QED BY <2>1, <2>2, IdLess DEF Passed
<1> QED BY <1>1, Invariance, PTL

==============================================================================
