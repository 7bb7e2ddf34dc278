--------------------------- MODULE MCKafkaConsumer ---------------------------
(***************************************************************************)
(* Small instances of KafkaConsumer for TLC.                               *)
(***************************************************************************)
EXTENDS KafkaConsumer

CONSTANTS m1, m2, w1

TwoMessages == <<m1, m2>>

==============================================================================
