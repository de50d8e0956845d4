---------------------------- MODULE Disposition ----------------------------
(***************************************************************************)
(* What the NATS worker promises about each message of its stream: it is   *)
(* acknowledged only after a processor handled it, terminated only after   *)
(* the dead letter was published or its loss counted, and settled once.    *)
(***************************************************************************)
CONSTANT Messages

VARIABLES
    handled,   \* messages some processor run carried out
    buried,    \* messages dead-lettered, or counted as lost
    fate       \* how the stream was told to settle each message

dvars == <<handled, buried, fate>>

Init ==
    /\ handled = {}
    /\ buried = {}
    /\ fate = [m \in Messages |-> "open"]

Handle(m) ==
    /\ handled' = handled \cup {m}
    /\ UNCHANGED <<buried, fate>>

Bury(m) ==
    /\ buried' = buried \cup {m}
    /\ UNCHANGED <<handled, fate>>

Settle(m) ==
    /\ fate[m] = "open"
    /\ \/ m \in handled /\ fate' = [fate EXCEPT ![m] = "acked"]
       \/ m \in buried /\ fate' = [fate EXCEPT ![m] = "termed"]
    /\ UNCHANGED <<handled, buried>>

Next == \E m \in Messages : Handle(m) \/ Bury(m) \/ Settle(m)

Spec == Init /\ [][Next]_dvars
=============================================================================
