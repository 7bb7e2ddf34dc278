-------------------------- MODULE MCConsumerRuntime --------------------------
(***************************************************************************)
(* Small instances of ConsumerRuntime for TLC.                             *)
(***************************************************************************)
EXTENDS ConsumerRuntime, TLC

CONSTANTS m1, m2, k1, k2, w1, w2

\* two messages, and a message its producer stored twice
TwoMessages == <<m1, m2>>
StoredTwice == <<m1, m1>>

OneKey == [m \in Messages |-> k1]

WorkerSymmetry == Permutations(Workers)

==============================================================================
