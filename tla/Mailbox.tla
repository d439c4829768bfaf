------------------------------- MODULE Mailbox -------------------------------
(***************************************************************************)
(* What the hub promises a sender, without files or processes: an accepted *)
(* message is handed to its recipient or returned to its sender, never     *)
(* both, and neither is taken back.                                        *)
(***************************************************************************)
CONSTANT Message

VARIABLES
    sent,       \* messages a hub_send has accepted
    given,      \* messages a hub_inbox has handed over
    returned    \* messages whose sender was told "NOT delivered"

mbox == <<sent, given, returned>>

Init == sent = {} /\ given = {} /\ returned = {}

Accept(M) == sent' = sent \cup M /\ UNCHANGED <<given, returned>>

Give(M) ==
    /\ M \subseteq sent \ returned
    /\ given' = given \cup M
    /\ UNCHANGED <<sent, returned>>

Return(m) ==
    /\ m \in sent \ given
    /\ returned' = returned \cup {m}
    /\ UNCHANGED <<sent, given>>

Next ==
    \/ \E M \in SUBSET Message : Accept(M) \/ Give(M)
    \/ \E m \in Message : Return(m)

Spec == Init /\ [][Next]_mbox
=============================================================================
