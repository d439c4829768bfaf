----------------------------- MODULE SessionsMC -----------------------------
(* The output of a terminal on its way to a pane of this Mulpex, or of another *)
(* one, and what an agent of a remote Mulpex says on its screen; one of them *)
(* in each behaviour.                                                       *)
EXTENDS Panes, Mirror, RemotePeer
VARIABLE which

SessionsInit ==
    /\ which \in {"panes", "mirror", "peer"}
    /\ PanesInit
    /\ MirrorInit
    /\ RemotePeerInit

SessionsNext ==
    /\ UNCHANGED which
    /\ \/ which = "panes" /\ PanesNext /\ UNCHANGED <<mirrorVars, remotePeerVars>>
       \/ which = "mirror" /\ MirrorNext /\ UNCHANGED <<panesVars, remotePeerVars>>
       \/ which = "peer" /\ RemotePeerNext /\ UNCHANGED <<panesVars, mirrorVars>>
sessionsVars == <<which, panesVars, mirrorVars, remotePeerVars>>

SessionsSpec == SessionsInit /\ [][SessionsNext]_sessionsVars
=============================================================================
