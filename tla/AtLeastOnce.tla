----------------------------- MODULE AtLeastOnce -----------------------------
(***************************************************************************)
(* What a consumer promises to the owner of a topic, whatever the broker   *)
(* and whatever fails: a message stays owed until a handler has accepted   *)
(* it or it lies in the dead-letter queue.  A message may be handled and   *)
(* buried more than once, and a message that is no longer owed may become  *)
(* owed again (a retry copy of it arrives late).                           *)
(***************************************************************************)
CONSTANT Messages

VARIABLES owed,      \* messages the broker still holds
          handled,   \* messages a handler has accepted
          buried     \* messages in the dead-letter queue

avars == <<owed, handled, buried>>

Init == /\ owed = Messages
        /\ handled = {}
        /\ buried = {}

\* a handler accepts a message, or a batch of them at once
Handle(ms) == /\ handled' = handled \cup ms
              /\ UNCHANGED <<owed, buried>>

Bury(m) == /\ buried' = buried \cup {m}
           /\ UNCHANGED <<owed, handled>>

\* retry copies come in, or a broker forgets what was acknowledged
Redo(ms) == /\ owed' = owed \cup ms
            /\ UNCHANGED <<handled, buried>>

\* one acknowledgement may stand for several messages
Discharge(ms) == /\ ms \subseteq handled \cup buried
                 /\ owed' = owed \ ms
                 /\ UNCHANGED <<handled, buried>>

Next == \/ \E ms \in SUBSET Messages : Handle(ms) \/ Redo(ms) \/ Discharge(ms)
        \/ \E m \in Messages : Bury(m)

Spec == Init /\ [][Next]_avars

\* No message is lost: every one is owed, handled or buried.
NothingLost == Messages \subseteq owed \cup handled \cup buried

==============================================================================
