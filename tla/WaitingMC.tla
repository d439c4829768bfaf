----------------------------- MODULE WaitingMC ------------------------------
(* What an agent is kept waiting by: the lock of a file, and a checkpoint of *)
(* the app; one of them in each behaviour.                                  *)
EXTENDS EditAwareness, Checkpoint
VARIABLE which

lockVars == <<vars, awareness>>

WaitingInit ==
    /\ which \in {"locks", "checkpoint"}
    /\ AInit
    /\ CheckpointInit

WaitingNext ==
    /\ UNCHANGED which
    /\ \/ which = "locks" /\ ANext /\ UNCHANGED checkpointVars
       \/ which = "checkpoint" /\ CheckpointNext /\ UNCHANGED lockVars
waitingVars == <<which, lockVars, checkpointVars>>

\* The fairness of each component, where it is the one that moves.
WaitingFair ==
    /\ \A p \in Instance :
          /\ WF_vars(which = "locks" /\ HookStep(p))
          /\ WF_vars(which = "locks" /\ Expire(p))
    /\ WF_vars(which = "locks" /\ ReapSee)
    /\ WF_vars(which = "locks" /\ ReapRemove)
    /\ WF_checkpointVars(which = "checkpoint" /\ Drains)
    /\ WF_checkpointVars(which = "checkpoint" /\ RunPolls)
    /\ WF_checkpointVars(which = "checkpoint" /\ RunInstalls)
    /\ \A c \in Claudes : WF_checkpointVars(which = "checkpoint" /\ WaitEnds(c))

WaitingSpec == WaitingInit /\ [][WaitingNext]_waitingVars /\ WaitingFair
=============================================================================
