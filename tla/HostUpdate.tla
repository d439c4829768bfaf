----------------------------- MODULE HostUpdate -----------------------------
(***************************************************************************)
(* The update one Mulpex orders on another (remote_update.rs, client.rs,   *)
(* remote/mod.rs): the order and its progress cross a link that can drop,  *)
(* the host's run belongs to no link, and the host restarts at the end.    *)
(* What the run does to the host's claudes is Checkpoint's.                *)
(***************************************************************************)
EXTENDS Naturals, Sequences

CONSTANTS
    MaxOrders,  \* bound: the orders
    MaxDrops    \* bound: the losses of a link, and the user's reconnects

ASSUME HostUpdateAssumption == {MaxOrders, MaxDrops} \subseteq Nat

VARIABLES
    behind,     \* the host is older than the Mac, and refuses it
    hostNew,    \* the host runs the version it is to be updated to
    orderRun,   \* RUN of the host
    drives,     \* the threads that are in drive
    pumped,     \* Server.update_seq
    linked,     \* the Mac has a session on the host
    outbound,   \* Mac -> host
    inbound,    \* host -> Mac
    mac,        \* the Mac's Conn: its state and its HostUpdate
    orders,     \* the orders so far
    drops       \* the losses and reconnects so far
hostVars == <<hostNew, orderRun, drives, pumped>>
hostUpdateVars == <<behind, hostVars, linked, outbound, inbound, mac, orders, drops>>

-----------------------------------------------------------------------------
Active == {"checking", "stopping", "downloading", "installing", "restarting"}
Over == {"error", "cancelled"}
NoOrder == [step |-> "none", cancel |-> FALSE, seq |-> 0]

\* lost: the order went out on a link that was lost since; silent: the error is its own,
\* "it didn't answer".
NoUpdate == [step |-> "none", late |-> FALSE, lost |-> FALSE, silent |-> FALSE]
NewUpdate == [NoUpdate EXCEPT !.step = "sent"]

HostUpdateInit ==
    /\ behind \in BOOLEAN /\ hostNew = FALSE
    /\ orderRun = NoOrder /\ drives = 0 /\ pumped = 0
    /\ linked = FALSE /\ outbound = <<>> /\ inbound = <<>>
    /\ mac = [state |-> "connecting", upd |-> NoUpdate] /\ orders = 0 /\ drops = 0

-----------------------------------------------------------------------------
(* The link.                                                                *)

Refuses == hostNew # behind

\* The handshake and the hello: desk_hello answers it.
HostLinkUp ==
    /\ ~linked /\ mac.state = "connecting" /\ orderRun.step # "restarting"
    /\ linked' = TRUE /\ outbound' = <<>>
    /\ inbound' = <<IF Refuses THEN "refused" ELSE "welcome">>
    /\ UNCHANGED <<behind, hostVars, mac, orders, drops>>

\* An order that was sent on the link is lost with it, or its answer is.
Unlinked(m) ==
    [m EXCEPT !.state = IF @ = "error" THEN @ ELSE "connecting",
              !.upd.lost = @ \/ m.upd.step = "sent"]
LinkGone(m) == linked' = FALSE /\ outbound' = <<>> /\ inbound' = <<>> /\ mac' = Unlinked(m)

\* With the host's own relay link (a new Server) or without it.
LinkDrops(relay) ==
    /\ drops < MaxDrops /\ drops' = drops + 1 /\ (linked \/ relay)
    /\ LinkGone(mac) /\ pumped' = IF relay THEN 0 ELSE pumped
    /\ UNCHANGED <<behind, hostNew, orderRun, drives, orders>>

-----------------------------------------------------------------------------
(* The host.                                                                *)

HostIdle == orderRun.step \in {"none"} \cup Over

\* Mutant: the progress that was sent is not sent again for another order.
PumpedAfterOrder_Same == pumped

PumpedAfterOrder == 0

\* order: a second one while a run is under way only has its progress sent again.
HostHearsOrder ==
    /\ linked /\ outbound # <<>> /\ Head(outbound) = "order" /\ outbound' = Tail(outbound)
    /\ orderRun' = IF HostIdle THEN [NoOrder EXCEPT !.step = "checking", !.seq = 1]
                   ELSE [orderRun EXCEPT !.seq = @ + 1]
    /\ drives' = IF HostIdle THEN drives + 1 ELSE drives
    /\ pumped' = PumpedAfterOrder
    /\ UNCHANGED <<behind, hostNew, linked, inbound, mac, orders, drops>>

HostHearsCancel ==
    /\ linked /\ outbound # <<>> /\ Head(outbound) = "cancel" /\ outbound' = Tail(outbound)
    /\ orderRun' = [orderRun EXCEPT !.cancel = orderRun # NoOrder]
    /\ UNCHANGED <<behind, hostNew, drives, pumped, linked, inbound, mac, orders, drops>>

MayInstall == ~orderRun.cancel

\* drive's next step; stopping is entered only when no claude survives the restart.
NextSteps ==
    CASE orderRun.step = "checking" -> {"error", "stopping", "downloading"}
      [] orderRun.step = "stopping" -> IF orderRun.cancel THEN {"cancelled"} ELSE {"downloading"}
      [] orderRun.step = "downloading" -> {"error"} \cup IF MayInstall THEN {"installing"} ELSE {"cancelled"}
      [] orderRun.step = "installing" -> {"error", "restarting"}
      [] OTHER -> {}

\* set
HostSets ==
    /\ \E s \in NextSteps :
          /\ orderRun' = [orderRun EXCEPT !.step = s, !.seq = @ + 1]
          /\ drives' = IF s \in Over THEN drives - 1 ELSE drives
    /\ UNCHANGED <<behind, hostNew, pumped, linked, outbound, inbound, mac, orders, drops>>

\* The host comes back on the new version, and knows of no run.
HostRestarts ==
    /\ orderRun.step = "restarting"
    /\ hostNew' = TRUE /\ orderRun' = NoOrder /\ drives' = 0 /\ pumped' = 0
    /\ LinkGone(mac)
    /\ UNCHANGED <<behind, orders, drops>>

ToPump == orderRun.seq # pumped

\* pump_update: the latest progress, to the sessions of the device that ordered it.
HostPumps ==
    /\ linked /\ ToPump /\ pumped' = orderRun.seq
    /\ inbound' = Append(inbound, orderRun.step)
    /\ UNCHANGED <<behind, hostNew, orderRun, drives, linked, outbound, mac, orders, drops>>

-----------------------------------------------------------------------------
(* The Mac.                                                                 *)

OrderEnded(u) == u.step \in {"done"} \cup Over
OrderStopped(u) == mac' = [state |-> "error", upd |-> u]
Unchanged == UNCHANGED <<linked, outbound>>
LinkClosed == linked' = FALSE /\ outbound' = <<>> /\ inbound' = <<>>

\* welcome: a host that was updated after refusing us comes back on our version.
MacWelcomed ==
    /\ linked /\ inbound # <<>> /\ Head(inbound) = "welcome" /\ inbound' = Tail(inbound)
    /\ mac' = [state |-> "connected",
               upd |-> IF mac.upd.step # "none" /\ hostNew THEN [NoUpdate EXCEPT !.step = "done"] ELSE mac.upd]
    /\ Unchanged /\ UNCHANGED <<behind, hostVars, orders, drops>>

\* on_refused, by an older host: ordered already, or ended, or to be ordered now.
MacRefused ==
    /\ linked /\ inbound # <<>> /\ Head(inbound) = "refused" /\ behind
    /\ IF OrderEnded(mac.upd) THEN OrderStopped(mac.upd) /\ LinkClosed /\ UNCHANGED orders
       ELSE /\ mac.upd.step = "none" => orders < MaxOrders
            /\ mac' = [state |-> "updating", upd |-> IF mac.upd.step = "none" THEN NewUpdate ELSE mac.upd]
            /\ outbound' = IF mac.upd.step = "none" THEN Append(outbound, "order") ELSE outbound
            /\ orders' = IF mac.upd.step = "none" THEN orders + 1 ELSE orders
            /\ inbound' = Tail(inbound) /\ UNCHANGED linked
    /\ UNCHANGED <<behind, hostVars, drops>>

\* Mutant: a host that is newer is an error, whatever was ordered.
DoneBy_Nobody(u) == u

\* The refusal of a host that is newer is the success of the update we ordered.
DoneBy(u) == IF u.step # "none" THEN [NoUpdate EXCEPT !.step = "done"] ELSE u

MacIsBehind ==
    /\ linked /\ inbound # <<>> /\ Head(inbound) = "refused" /\ ~behind
    /\ OrderStopped(DoneBy(mac.upd)) /\ LinkClosed
    /\ UNCHANGED <<behind, hostVars, orders, drops>>

\* on_update_progress
MacHearsProgress ==
    /\ linked /\ inbound # <<>> /\ Head(inbound) \in Active \cup Over
    /\ LET u == [mac.upd EXCEPT !.step = Head(inbound), !.silent = FALSE]
       IN  IF Head(inbound) = "restarting" THEN LinkGone([mac EXCEPT !.upd = u])
           ELSE IF Head(inbound) \in Over /\ mac.state = "updating" THEN OrderStopped(u) /\ LinkClosed
           ELSE /\ mac' = [mac EXCEPT !.upd = u] /\ inbound' = Tail(inbound) /\ Unchanged
    /\ UNCHANGED <<behind, hostVars, orders, drops>>

\* host_update, before the Mac updates itself.
MacOrders ==
    /\ mac.state = "connected" /\ linked /\ ~behind /\ ~hostNew /\ orders < MaxOrders
    /\ mac.upd.step \in {"none"} \cup Over
    /\ outbound' = Append(outbound, "order") /\ orders' = orders + 1
    /\ mac' = [mac EXCEPT !.upd = NewUpdate]
    /\ UNCHANGED <<behind, hostVars, linked, inbound, drops>>

MacCancels ==
    /\ linked /\ mac.upd.step \in Active \cup {"sent"} /\ Len(outbound) < 2
    /\ outbound' = Append(outbound, "cancel")
    /\ UNCHANGED <<behind, hostVars, linked, inbound, mac, orders, drops>>

\* host_connect, of a host that ended in an error: a new Conn.
MacReconnects ==
    /\ mac.state = "error" /\ drops < MaxDrops /\ drops' = drops + 1
    /\ mac' = [state |-> "connecting", upd |-> NoUpdate] /\ LinkClosed
    /\ UNCHANGED <<behind, hostVars, orders>>

\* UPDATE_ANSWER passes: longer than an answer takes over a link that stays up.
AnswerIsLate ==
    /\ mac.upd.step = "sent" /\ ~mac.upd.late
    /\ linked => outbound = <<>> /\ inbound = <<>> /\ ~ToPump
    /\ mac' = [mac EXCEPT !.upd.late = TRUE]
    /\ UNCHANGED <<behind, hostVars, linked, outbound, inbound, orders, drops>>

\* update_unanswered, of a Conn that is served.
MacGivesUp ==
    /\ mac.upd.step = "sent" /\ mac.upd.late /\ mac.state # "error"
    /\ LET u == [mac.upd EXCEPT !.step = "error", !.silent = TRUE]
       IN  IF mac.state = "updating" THEN OrderStopped(u) /\ LinkClosed
           ELSE mac' = [mac EXCEPT !.upd = u] /\ Unchanged /\ UNCHANGED inbound
    /\ UNCHANGED <<behind, hostVars, orders, drops>>

-----------------------------------------------------------------------------
HostUpdateNext ==
    \/ HostLinkUp \/ (\E relay \in BOOLEAN : LinkDrops(relay))
    \/ HostHearsOrder \/ HostHearsCancel \/ HostSets \/ HostRestarts \/ HostPumps
    \/ MacWelcomed \/ MacRefused \/ MacIsBehind \/ MacHearsProgress
    \/ MacOrders \/ MacCancels \/ MacReconnects \/ AnswerIsLate \/ MacGivesUp

HostUpdateSpec == HostUpdateInit /\ [][HostUpdateNext]_hostUpdateVars

\* The Mac's thread reconnects and reads, the host's relay loop reads and pumps, and the
\* host's app comes back.
HostUpdateFair ==
    /\ WF_hostUpdateVars(HostLinkUp) /\ WF_hostUpdateVars(HostHearsOrder) /\ WF_hostUpdateVars(HostHearsCancel)
    /\ WF_hostUpdateVars(HostPumps) /\ WF_hostUpdateVars(HostRestarts)
    /\ WF_hostUpdateVars(MacWelcomed) /\ WF_hostUpdateVars(MacRefused) /\ WF_hostUpdateVars(MacIsBehind)
    /\ WF_hostUpdateVars(MacHearsProgress) /\ WF_hostUpdateVars(AnswerIsLate) /\ WF_hostUpdateVars(MacGivesUp)

HostUpdateFairSpec == HostUpdateSpec /\ HostUpdateFair

-----------------------------------------------------------------------------
\* Every variable keeps its type, and at most one thread drives an update: the one of the
\* run that is recorded.
HostUpdateTypeOK ==
    /\ orderRun.step \in {"none"} \cup Active \cup Over /\ orderRun.cancel \in BOOLEAN
    /\ drives = IF orderRun.step \in Active THEN 1 ELSE 0
    /\ mac.state \in {"connecting", "connected", "updating", "error"}
    /\ mac.upd.step \in {"none", "sent", "done"} \cup Active \cup Over
    /\ ~linked => outbound = <<>> /\ inbound = <<>>
    /\ orders \in 0 .. MaxOrders /\ drops \in 0 .. MaxDrops

\* client.rs "An order nobody answered: the host predates remote updates": a host that does
\* know them is never said not to answer, unless the order or its answer went with a link.
SilenceIsLoss == mac.upd.silent => mac.upd.lost

\* docs/remote-hosts.md "waits on HostStatus.update until each says done": a host that did
\* come back updated is not waited for, whichever links were lost on the way.
SuccessIsSeen == []<>~(hostNew /\ mac.upd.step \in Active)

\* A host that knows remote updates is not said to be too old for them, unless a link was
\* lost (client.rs, drive).
HostUpdateInv == HostUpdateTypeOK /\ SilenceIsLoss
=============================================================================
