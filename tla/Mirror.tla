------------------------------- MODULE Mirror -------------------------------
(***************************************************************************)
(* One terminal of a host shown in a pane of another Mulpex: the host taps *)
(* the output where it is, opens the mirror with the screen its own window *)
(* serialized or with a replay of the ring, and streams what follows as    *)
(* far as the other side acknowledges.  The link may break and come back,  *)
(* the pane may be closed and opened, the process replaced (RemoteLink has *)
(* the link itself).                                                       *)
(*                                                                         *)
(* The output of one process is a sequence of items: a byte, with the size *)
(* it was drawn for, or a resize.  An offset counts bytes.                 *)
(***************************************************************************)
EXTENDS Integers, Sequences, FiniteSets
LOCAL INSTANCE Functions

CONSTANTS
    Rows,           \* the sizes of the terminal
    Rows0,          \* the size it is spawned with
    RingCap,        \* the bytes the ring keeps
    MaxUnacked,     \* desktop.rs MAX_UNACKED, in frames
    MaxBacklog,     \* MAX_BACKLOG, in bytes
    AckEvery,       \* client.rs ACK_EVERY, in frames
    MaxItems,       \* bound: the items of all the processes
    MaxProcs,       \* bound: the processes
    MaxLinks,       \* bound: the times the link comes up
    MaxPanes        \* bound: the times the pane is opened

ASSUME MirrorAssumption ==
    /\ Rows \subseteq Nat \ {0} /\ Rows0 \in Rows
    /\ {RingCap, MaxUnacked, MaxBacklog, AckEvery, MaxItems, MaxProcs, MaxLinks, MaxPanes} \subseteq Nat \ {0}
    /\ AckEvery <= MaxUnacked

VARIABLES
    outputs,    \* the output of every process so far
    proc,       \* the process of the row, or 0 when the row was closed
    desk,       \* the host's Desk: its link, its Sub, unacked
    reply,      \* SNAP_REPLIES for the Sub's request, or NoReply
    down,       \* the frames on their way to the other Mulpex
    upward,         \* the messages on their way to the host
    tx,         \* the other Mulpex: Conn::tx is there
    resub,      \* on_message "welcome": it is about to ask for its panes again
    opened,     \* the times the pane was opened
    channel,    \* channels has the pane
    unsaid,     \* received - acked
    pane,       \* what the pane shows
    links       \* the times the link came up
mirrorVars == <<outputs, proc, desk, reply, down, upward, tx, resub, opened, channel, unsaid, pane, links>>
outputVars == <<outputs, proc>>
viewerVars == <<tx, resub, opened, channel, unsaid, pane>>

-----------------------------------------------------------------------------
Byte(size) == [kind |-> "byte", size |-> size]
Resized(size) == [kind |-> "resize", size |-> size]
IsByte(item) == item.kind = "byte"

\* The offset after the first n items, and the size they leave.
OffsetAt(items, n) == Cardinality({i \in 1 .. n : IsByte(items[i])})
SizeAt(items, n) ==
    LET rs == {i \in 1 .. n : ~IsByte(items[i])}
    IN  IF rs = {} THEN Rows0 ELSE items[CHOOSE i \in rs : \A j \in rs : j <= i].size

Total(items) == OffsetAt(items, Len(items))
RingStart(items) == IF Total(items) > RingCap THEN Total(items) - RingCap ELSE 0

\* A piece of the stream: the item, and the offset and the process it is of.
Piece(p, i) ==
    LET item == outputs[p][i]
    IN  [kind |-> item.kind, proc |-> p, at |-> OffsetAt(outputs[p], i - 1), size |-> item.size]

Plain(kind) == [kind |-> kind, proc |-> 0, at |-> 0, size |-> 0]
Screen(kind, p, at, size) == [kind |-> kind, proc |-> p, at |-> at, size |-> size]

\* The items of all the processes.
Items == FoldFunction(LAMBDA items, n : n + Len(items), 0, outputs)

NoReply == [proc |-> 0, at |-> 0, size |-> 0]
NoSub == [state |-> "none", proc |-> 0, upto |-> 0, skip |-> 0, backlog |-> <<>>]
\* desktop_tap: the ring as it is, and from here on every item (upto: the last one read).
Tap(p) == [NoSub EXCEPT !.state = "pending", !.proc = p, !.upto = Len(outputs[p])]
NoDesk == [on |-> FALSE, sub |-> NoSub, unacked |-> 0]
NoPane == [proc |-> 0, at |-> 0, size |-> Rows0, whole |-> FALSE, torn |-> FALSE]

MirrorInit ==
    /\ outputs = [p \in 1 .. MaxProcs |-> <<>>] /\ proc = 1
    /\ desk = NoDesk /\ reply = NoReply /\ down = <<>> /\ upward = <<>>
    /\ tx = FALSE /\ resub = FALSE /\ opened = 0 /\ channel = FALSE /\ unsaid = 0
    /\ pane = NoPane /\ links = 0

-----------------------------------------------------------------------------
(* The terminal and the host's window.                                      *)

ProcessPrints ==
    /\ proc # 0 /\ Items < MaxItems
    /\ LET items == outputs[proc]
           now == SizeAt(items, Len(items))
       IN  outputs' = [outputs EXCEPT ![proc] = Append(items, Byte(now))]
    /\ UNCHANGED <<proc, desk, reply, down, upward, viewerVars, links>>

ProcessResizes(size) ==
    /\ proc # 0 /\ Items < MaxItems
    /\ LET items == outputs[proc]
       IN  /\ SizeAt(items, Len(items)) # size
           /\ outputs' = [outputs EXCEPT ![proc] = Append(items, Resized(size))]
    /\ UNCHANGED <<proc, desk, reply, down, upward, viewerVars, links>>

\* Another process behind the row, or no row any more: the taps of the old one end.
Replaced ==
    /\ proc # 0 /\ proc < MaxProcs
    /\ proc' = proc + 1
    /\ UNCHANGED <<outputs, desk, reply, down, upward, viewerVars, links>>
Closed ==
    /\ proc # 0 /\ proc' = 0
    /\ UNCHANGED <<outputs, desk, reply, down, upward, viewerVars, links>>

\* terminals.ts serialize, asked by subscribe: the screen of the host's own pane, which
\* has painted some of the output, and the offset it shows.
Serializes ==
    /\ desk.sub.state = "pending" /\ proc # 0 /\ reply = NoReply
    /\ RingStart(SubSeq(outputs[desk.sub.proc], 1, desk.sub.upto)) > 0
    /\ \E n \in 0 .. Len(outputs[proc]) :
          reply' = [proc |-> proc, at |-> OffsetAt(outputs[proc], n), size |-> SizeAt(outputs[proc], n)]
    /\ UNCHANGED <<outputVars, desk, down, upward, viewerVars, links>>

-----------------------------------------------------------------------------
(* The host: remote/desktop.rs.                                             *)

Pieces(p, first, last) == [i \in 1 .. last - first + 1 |-> Piece(p, first + i - 1)]

\* How many of the items, lo at least and hi at most, reach an offset.
Reach(items, lo, hi, offset) ==
    CHOOSE j \in lo .. hi : /\ j = hi \/ OffsetAt(items, j) >= offset
                           /\ \A i \in lo .. j - 1 : OffsetAt(items, i) < offset

\* Mutant: the ring after the screen starts one byte late.
RingFrom_Late(sub, from) ==
    Pieces(sub.proc, Reach(outputs[sub.proc], 0, sub.upto, from + 1) + 1, sub.upto)

\* ring_from: what the ring holds from that offset on; a resize at the offset too.
RingFrom(sub, from) == Pieces(sub.proc, Reach(outputs[sub.proc], 0, sub.upto, from) + 1, sub.upto)

\* compose: the first frame, the frames after it, and the live bytes to skip.
Opening(sub) ==
    LET tapped == SubSeq(outputs[sub.proc], 1, sub.upto)
        start == RingStart(tapped)
        total == Total(tapped)
        Whole(rest, skip) ==
            [first |-> Screen("snap", reply.proc, reply.at, reply.size), rest |-> rest, skip |-> skip]
    IN  IF reply # NoReply /\ reply.at >= start
        THEN IF reply.at <= total THEN Whole(RingFrom(sub, reply.at), 0)
             ELSE Whole(<<>>, reply.at - total)
        ELSE IF start = 0
        THEN [first |-> Screen("snap", sub.proc, 0, Rows0), rest |-> RingFrom(sub, 0), skip |-> 0]
        ELSE [first |-> Screen("partial", sub.proc, start, SizeAt(tapped, sub.upto)),
              rest |-> RingFrom(sub, start), skip |-> 0]

\* pump_subs, the messages of the tap: bytes the screen already shows are skipped, and the
\* resizes among them.
Drained(sub) ==
    LET items == outputs[sub.proc]
        shownTo == OffsetAt(items, sub.upto) + sub.skip
        seen == Reach(items, sub.upto, Len(items), shownTo)
    IN  [sub EXCEPT !.upto = Len(items), !.skip = shownTo - OffsetAt(items, seen),
                    !.backlog = @ \o Pieces(sub.proc, seen + 1, Len(items))]

Weight(backlog) == Cardinality({i \in DOMAIN backlog : backlog[i].kind = "byte"})
Lesser(a, b) == IF a < b THEN a ELSE b

\* subscribe: a tap of the process there is, or "gone" at once.
Subscribed == IF proc # 0 THEN Tap(proc) ELSE NoSub
GoneFrame == IF proc # 0 THEN <<>> ELSE <<Plain("gone")>>

\* pump_desktops: every frame of a pass counts until it is acknowledged.
Charged(n) == desk.unacked + n

Sent(sub, out) ==
    /\ desk' = [desk EXCEPT !.sub = sub, !.unacked = Charged(Len(out))]
    /\ down' = down \o out

\* pump_subs for one sub: promote it, read the tap, send as far as the window of
\* unacknowledged frames goes; start over when too far behind or when the process
\* was replaced.
PumpSub(live, first) ==
    LET read == Drained(live)
        ended == read.proc # proc
        room == IF desk.unacked + Len(first) >= MaxUnacked THEN 0
                ELSE Lesser(MaxUnacked - desk.unacked - Len(first), Len(read.backlog))
        left == [read EXCEPT !.backlog = SubSeq(@, room + 1, Len(@))]
    IN  IF Weight(read.backlog) > MaxBacklog
        THEN Sent(Subscribed, first \o GoneFrame) /\ reply' = NoReply
        ELSE IF ended /\ left.backlog = <<>>
        THEN Sent(Subscribed, first \o SubSeq(read.backlog, 1, room) \o GoneFrame) /\ reply' = NoReply
        ELSE Sent(left, first \o SubSeq(read.backlog, 1, room)) /\ UNCHANGED reply

\* The screen came, or the wait for it ended, or none is needed.
PumpPending ==
    /\ desk.sub.state = "pending"
    /\ LET o == Opening(desk.sub)
       IN  PumpSub([desk.sub EXCEPT !.state = "live", !.skip = o.skip, !.backlog = o.rest], <<o.first>>)
    /\ UNCHANGED <<outputVars, upward, viewerVars, links>>

PumpLive ==
    /\ desk.sub.state = "live"
    /\ PumpSub(desk.sub, <<>>)
    /\ (desk' # desk \/ down' # down)
    /\ UNCHANGED <<outputVars, upward, viewerVars, links>>

\* desk_request: an acknowledgement, of the welcome too, which was not charged.
Acked(n) == IF desk.unacked > n THEN desk.unacked - n ELSE 0

\* desk_request: sub replaces the Sub there is.
HostReads ==
    LET m == Head(upward)
    IN  /\ desk.on /\ upward # <<>> /\ upward' = Tail(upward)
        /\ \/ /\ m.kind = "sub"
              /\ desk' = [desk EXCEPT !.sub = Subscribed]
              /\ down' = down \o GoneFrame /\ reply' = NoReply
           \/ /\ m.kind = "unsub"
              /\ desk' = [desk EXCEPT !.sub = NoSub]
              /\ reply' = NoReply /\ UNCHANGED down
           \/ /\ m.kind = "ack"
              /\ desk' = [desk EXCEPT !.unacked = Acked(m.at)]
              /\ UNCHANGED <<down, reply>>
        /\ UNCHANGED <<outputVars, viewerVars, links>>

-----------------------------------------------------------------------------
(* The link, as the two ends see it.                                        *)

\* desk_hello: a new Desk, and the welcome.
LinkUp ==
    /\ ~desk.on /\ ~tx /\ links < MaxLinks
    /\ links' = links + 1
    /\ desk' = [NoDesk EXCEPT !.on = TRUE] /\ reply' = NoReply
    /\ down' = <<Plain("welcome")>> /\ upward' = <<>> /\ unsaid' = 0
    /\ UNCHANGED <<outputVars, tx, resub, opened, channel, pane>>

\* The connection is lost on both sides, and what was on its way.
LinkLost ==
    /\ desk.on /\ links < MaxLinks
    /\ desk' = NoDesk /\ reply' = NoReply /\ down' = <<>> /\ upward' = <<>>
    /\ tx' = FALSE /\ resub' = FALSE /\ unsaid' = 0
    /\ UNCHANGED <<outputVars, opened, channel, pane, links>>

-----------------------------------------------------------------------------
(* The other Mulpex: remote/client.rs and its pane (terminals.ts).          *)

Say(m) == upward' = IF tx THEN Append(upward, m) ELSE upward

\* host_attach: the pane is there, its stream is asked for if the host is.
Opens ==
    /\ ~channel /\ opened < MaxPanes
    /\ opened' = opened + 1 /\ channel' = TRUE /\ pane' = NoPane
    /\ Say(Plain("sub"))
    /\ UNCHANGED <<outputVars, desk, reply, down, tx, resub, unsaid, links>>

\* host_detach
Closes ==
    /\ channel /\ channel' = FALSE /\ pane' = NoPane
    /\ Say(Plain("unsub"))
    /\ UNCHANGED <<outputVars, desk, reply, down, tx, resub, opened, unsaid, links>>

\* What a frame makes of the pane.
Painting(f) ==
    LET right == f.proc = pane.proc /\ f.at = pane.at /\ f.size = pane.size
    IN  CASE f.kind \in {"snap", "partial"} ->
                [proc |-> f.proc, at |-> f.at, size |-> f.size, whole |-> f.kind = "snap", torn |-> FALSE]
          [] f.kind = "byte" ->
                [pane EXCEPT !.at = f.at + 1, !.proc = f.proc, !.torn = @ \/ ~right]
          [] f.kind = "resize" -> [pane EXCEPT !.size = f.size]
          [] OTHER -> pane

\* Mutant: the panes are not asked for again.
Wanted_No == FALSE

\* on_message "welcome": the panes that are open.
Wanted == channel

\* serve: every frame that came is counted, whatever becomes of it.
Counted == unsaid + 1

\* One frame: on_message, and what came is counted.
ViewerReads ==
    LET f == Head(down)
    IN  /\ down # <<>> /\ down' = Tail(down)
        /\ ~resub
        /\ unsaid' = Counted
        /\ IF f.kind = "welcome" THEN tx' = TRUE /\ resub' = Wanted /\ UNCHANGED pane
           ELSE /\ pane' = IF channel THEN Painting(f) ELSE pane
                /\ UNCHANGED <<tx, resub>>
        /\ UNCHANGED <<outputVars, desk, reply, upward, opened, channel, links>>

\* The rest of "welcome", outside its lock.
Resubscribes ==
    /\ resub /\ resub' = FALSE
    /\ Say(Plain("sub"))
    /\ UNCHANGED <<outputVars, desk, reply, down, tx, opened, channel, unsaid, pane, links>>

\* serve: enough came since the last acknowledgement.
AckDue == unsaid >= AckEvery

\* serve: what came since the last ack is acknowledged when it is enough.
Acks ==
    /\ AckDue /\ desk.on
    /\ upward' = Append(upward, [Plain("ack") EXCEPT !.at = unsaid]) /\ unsaid' = 0
    /\ UNCHANGED <<outputVars, desk, reply, down, tx, resub, opened, channel, pane, links>>

-----------------------------------------------------------------------------
MirrorNext ==
    \/ ProcessPrints \/ (\E size \in Rows : ProcessResizes(size)) \/ Replaced \/ Closed \/ Serializes
    \/ PumpPending \/ PumpLive \/ HostReads
    \/ LinkUp \/ LinkLost
    \/ Opens \/ Closes \/ ViewerReads \/ Resubscribes \/ Acks

MirrorSpec == MirrorInit /\ [][MirrorNext]_mirrorVars

\* The two loops run, the host's serve and the other Mulpex's; a link that may come up does.
MirrorFair ==
    /\ WF_mirrorVars(PumpPending \/ PumpLive) /\ WF_mirrorVars(HostReads)
    /\ WF_mirrorVars(ViewerReads \/ Resubscribes) /\ WF_mirrorVars(Acks) /\ WF_mirrorVars(LinkUp)

MirrorFairSpec == MirrorSpec /\ MirrorFair

-----------------------------------------------------------------------------
\* Every variable keeps its type, and an open channel to the host has a link below it.
MirrorTypeOK ==
    /\ proc \in 0 .. MaxProcs /\ links \in 0 .. MaxLinks /\ opened \in 0 .. MaxPanes
    /\ \A p \in 1 .. MaxProcs : \A i \in DOMAIN outputs[p] :
          outputs[p][i].kind \in {"byte", "resize"} /\ outputs[p][i].size \in Rows
    /\ desk.on \in BOOLEAN /\ desk.sub.state \in {"none", "pending", "live"}
    /\ desk.unacked \in Nat /\ desk.sub.skip \in Nat
    /\ {tx, resub, channel, pane.whole, pane.torn} \subseteq BOOLEAN
    /\ tx => desk.on

\* A pane of the process there is now that began with a whole screen shows exactly its
\* output up to some point: every byte once, in order, painted at the size it was drawn
\* for (a process replaced while its screen was serialized is shown torn until the
\* screen of the next one arrives).
MirrorExact == (pane.whole /\ pane.torn) => pane.proc # proc

\* What the acknowledgements on their way say.
SaidIn(messages) ==
    LET said[n \in 0 .. Len(messages)] ==
            IF n = 0 THEN 0
            ELSE said[n - 1] + (IF messages[n].kind = "ack" THEN messages[n].at ELSE 0)
    IN  said[Len(messages)]

\* What the host counts as unacknowledged is on its way to the other Mulpex, or has
\* arrived and will be said, or is being said: the window cannot stay closed.
CreditIsCovered == desk.unacked <= Len(down) + unsaid + SaidIn(upward)

\* While the link stays up, an open pane catches up with the terminal again and again,
\* or is told that it is gone (no pane stays blank, no stream stalls).
Caught ==
    \/ ~channel \/ proc = 0
    \/ links = MaxLinks /\ ~desk.on
    \/ pane.proc = proc /\ proc # 0 /\ pane.at = Total(outputs[proc])
MirrorCatchesUp == []<>Caught

\* A pane of another machine's terminal shows exactly its output, and the window of its
\* stream cannot stay closed (remote/desktop.rs).
MirrorInv == MirrorTypeOK /\ MirrorExact /\ CreditIsCovered
=============================================================================
