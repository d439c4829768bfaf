----------------------------- MODULE DeliveryMC -----------------------------
(* What the hub has accepted and another end must get: mail and its listeners, *)
(* tasks of hub_spawn, the answers of a remote peer, the output of a remote *)
(* terminal; one of them in each behaviour.                                 *)
EXTENDS HubListener, HubMail, Workers, RemotePeer, Mirror
LOCAL INSTANCE TLC
CONSTANTS a1, a2, b1
VARIABLE which

\* Two rows in one project, one in another.
TwoProjects == (a1 :> "A") @@ (a2 :> "A") @@ (b1 :> "B")

\* One call of one instance: it may reach the other of its project and the other project.
OneSender == [i \in Instance |-> IF i = a1 THEN 1 ELSE 0]

DeliveryInit ==
    /\ which \in {"listener", "mail", "workers", "peer", "mirror"}
    /\ ListenerInit
    /\ Init
    /\ WorkersInit
    /\ RemotePeerInit
    /\ MirrorInit

DeliveryNext ==
    /\ UNCHANGED which
    /\ \/ /\ which = "listener" /\ ListenerNext
          /\ UNCHANGED <<vars, workersVars, remotePeerVars, mirrorVars>>
       \/ /\ which = "mail" /\ Next
          /\ UNCHANGED <<listenerVars, workersVars, remotePeerVars, mirrorVars>>
       \/ /\ which = "workers" /\ WorkersNext
          /\ UNCHANGED <<listenerVars, vars, remotePeerVars, mirrorVars>>
       \/ /\ which = "peer" /\ RemotePeerNext
          /\ UNCHANGED <<listenerVars, vars, workersVars, mirrorVars>>
       \/ /\ which = "mirror" /\ MirrorNext
          /\ UNCHANGED <<listenerVars, vars, workersVars, remotePeerVars>>
deliveryVars == <<which, listenerVars, vars, workersVars, remotePeerVars, mirrorVars>>

\* The fairness of each component, where it is the one that moves.
DeliveryFair ==
    /\ \A l \in Listener : WF_listenerVars(which = "listener" /\ Pass(l))
    /\ WF_vars(which = "mail" /\ Tick)
    /\ WF_workersVars(which = "workers" /\ TickSpawns)
    /\ \A k \in 1..MaxKids : WF_workersVars(which = "workers" /\ k \in Kid /\ Watch(k))
    /\ WF_remotePeerVars(which = "peer" /\ TickRemote)
    /\ WF_remotePeerVars(which = "peer" /\ Record)
    /\ WF_remotePeerVars(which = "peer" /\ CalmDown)
    /\ WF_mirrorVars(which = "mirror" /\ (PumpPending \/ PumpLive))
    /\ WF_mirrorVars(which = "mirror" /\ HostReads)
    /\ WF_mirrorVars(which = "mirror" /\ (ViewerReads \/ Resubscribes))
    /\ WF_mirrorVars(which = "mirror" /\ Acks)
    /\ WF_mirrorVars(which = "mirror" /\ LinkUp)

DeliverySpec == DeliveryInit /\ [][DeliveryNext]_deliveryVars /\ DeliveryFair

\* The tasks of hub_spawn settle, and what a remote peer answered is told.
HelpersLive == WorkersLive /\ PeerLive
=============================================================================
