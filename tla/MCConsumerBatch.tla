--------------------------- MODULE MCConsumerBatch ---------------------------
(***************************************************************************)
(* Small instances of ConsumerBatch for TLC.                               *)
(***************************************************************************)
EXTENDS ConsumerBatch, TLC

CONSTANTS m1, m2, k1, k2, w1, w2

TwoMessages == <<m1, m2>>

OneKey == [m \in Messages |-> k1]

\* m2 alone has the second key
TwoKeys == [m \in Messages |-> IF m = m2 THEN k2 ELSE k1]

WorkerSymmetry == Permutations(Workers)

==============================================================================
