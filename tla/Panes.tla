------------------------------- MODULE Panes -------------------------------
(***************************************************************************)
(* One terminal's way from the PTY daemon to its pane, through restarts of *)
(* the app.  The daemon (mulpex-ptyd) owns the child and keeps the last    *)
(* bytes of its output in a ring, with the resizes among them.  It streams *)
(* to one app at a time, named by a generation.  The app mirrors the ring  *)
(* in a sink and feeds the pane, an xterm, from it; an app that starts     *)
(* finds the session running, attaches, and rebuilds the pane from what    *)
(* the previous app serialized and from the ring.                          *)
(*                                                                         *)
(* A byte is its offset in the output since spawn.  A size is the number   *)
(* of rows.  A program that was resized paints its whole screen with its   *)
(* next byte; any other byte is right only on the screen before it.        *)
(***************************************************************************)
EXTENDS Integers, Sequences, FiniteSets
LOCAL INSTANCE SequencesExt

CONSTANTS
    Sizes,      \* the sizes the user gives the window
    Size0,      \* the size of the first pane
    Cap,        \* the bytes a ring keeps
    MaxBytes,   \* bound: the bytes one child prints
    MaxApps,    \* bound: the starts of the app
    MaxAsks,    \* bound: the sizes the user asks for and the reloads of the page
    MaxSpawns,  \* bound: the children
    MaxLink     \* bound: the frames on their way when a byte is printed

ASSUME PanesAssumption ==
    /\ Sizes \subseteq Nat \ {0, 1} /\ Size0 \in Sizes
    /\ {Cap, MaxBytes, MaxApps, MaxSpawns, MaxLink} \subseteq Nat \ {0} /\ MaxAsks \in Nat

VARIABLES
    \* the daemon
    up,         \* the daemon runs
    ring,       \* the output it keeps: from, total, the resizes, first size
    drawn,      \* for every byte: the size it was drawn for, and if it is a whole screen
    ptySize,    \* DSession::size
    recording,  \* the resize under way that is not yet in the ring, or NoAsk
    child,      \* "run", "dead" (not yet told), "gone"
    spawns,     \* the children so far
    gens,       \* the connections so far
    conn,       \* Server::client: the generation of the app, or 0
    sgen,       \* DSession::stream_gen
    eofs,       \* the closed connections whose end was not noticed
    link,       \* the frames on their way to the app
    asked,      \* the resizes on their way to the daemon, and if the user waits for them
    answer,     \* the daemon's reply to the attach on its way
    \* the app
    phase,      \* how far the app is with this terminal
    client,     \* mulpex_ptyd::client::Client
    feed,       \* SinkFeed::early: the events that wait for the seed
    view,       \* OutputSink, the flags of the row and the xterm it feeds (see Fresh)
    geometry,   \* the rows the app last asked of the PTY
    redraw,     \* Session::repaint: the size to give back, or 0
    asks,       \* the sizes the user asked for, and the reloads, so far
    snap        \* the snapshot on disk
daemonVars == <<up, ring, drawn, ptySize, recording, child, spawns, gens, conn, sgen, eofs>>
panesVars == <<daemonVars, link, asked, answer, phase, client, feed, view, geometry, redraw, asks, snap>>

-----------------------------------------------------------------------------
(* The ring, and the sink that mirrors it.                                  *)

EmptyRing(size) == [start |-> 0, total |-> 0, res |-> <<>>, init |-> size, size |-> size]

InRing(res, start) == SelectSeq(res, LAMBDA r : r.at >= start)

\* Ring::push and OutputSink::push: one more byte, and the oldest one out.
Push(r) ==
    LET total == r.total + 1
        start == IF total - r.start > Cap THEN total - Cap ELSE r.start
    IN  [r EXCEPT !.total = total, !.start = start, !.res = InRing(r.res, start)]

\* Ring::resized and OutputSink::resized: the size changes here in the stream.
Mark(r, size) ==
    [r EXCEPT !.res = Append(@, [at |-> r.total, size |-> size]), !.size = size]

-----------------------------------------------------------------------------
(* The xterm: recv is what the frontend counted, at is where in the output  *)
(* its screen really stands, exact that the screen is the program's, taint  *)
(* that it was rebuilt from live bytes painted twice, or from the snapshot  *)
(* of another session or of a pane that still waited to be redrawn.         *)

Blank(size) == [recv |-> 0, at |-> 0, size |-> size, exact |-> TRUE, taint |-> FALSE]

\* One byte reaches the xterm: a whole screen is right whatever was there.
Draw(p, i) ==
    LET fits == drawn[i + 1].size = p.size
    IN  [p EXCEPT !.recv = @ + 1, !.at = i + 1,
                  !.exact = fits /\ (drawn[i + 1].whole \/ (@ /\ p.at = i))]

Msg(k, n) == [k |-> k, n |-> n]
Receive(p, m) == IF m.k = "res" THEN [p EXCEPT !.size = m.n] ELSE Draw(p, m.n)
Show(p, msgs) == FoldLeft(Receive, p, msgs)
Bytes(buf) == [i \in DOMAIN buf |-> Msg("out", buf[i])]

\* Mutant: a resize at the very offset the pane starts from is left out.
RingMsgs_After(t, from) ==
    FlattenSeq([k \in 1..(t.total - from + 1) |->
        LET i == from + k - 1
            marks == SelectSeq(t.res, LAMBDA r : r.at = i /\ r.at > from)
        IN  [m \in DOMAIN marks |-> Msg("res", marks[m].size)]
                \o (IF i < t.total THEN <<Msg("out", i)>> ELSE <<>>)])
\* ring_msgs: the ring from an offset, cut at each resize.
RingMsgs(t, from) ==
    FlattenSeq([k \in 1..(t.total - from + 1) |->
        LET i == from + k - 1
            marks == SelectSeq(t.res, LAMBDA r : r.at = i)
        IN  [m \in DOMAIN marks |-> Msg("res", marks[m].size)]
                \o (IF i < t.total THEN <<Msg("out", i)>> ELSE <<>>)])

NoSnap == [of |-> 0, recv |-> 0, at |-> 0, size |-> Size0, exact |-> FALSE, taint |-> FALSE]

\* What the previous app serialized is painted (snap_msg).
Painted(s) ==
    [recv |-> s.recv, at |-> s.at, size |-> s.size,
     exact |-> s.exact /\ s.at = s.recv /\ s.of = spawns,
     taint |-> s.taint \/ s.of # spawns \/ ~s.exact]

\* A snapshot the ring can go on from (compose, case 1).
Usable(s, t) == s.of # 0 /\ s.recv \in t.start..t.total

\* compose: the pane rebuilt, and whether the program must redraw it.
Compose(t, s) ==
    CASE Usable(s, t) ->
            [pane |-> Show(Painted(s), RingMsgs(t, s.recv)), redraw |-> FALSE]
      [] ~Usable(s, t) /\ t.start = 0 ->
            [pane |-> Show(Blank(t.init), RingMsgs(t, 0)), redraw |-> FALSE]
      [] OTHER ->
            [pane |-> Show([Blank(t.size) EXCEPT !.recv = t.start, !.at = t.start, !.exact = FALSE],
                           RingMsgs(t, t.start)),
             redraw |-> TRUE]

-----------------------------------------------------------------------------
(* The sink and the row.                                                    *)

\* A sink that buffers, with its row alive: no pane has come for it.
Fresh(size) ==
    [sink |-> EmptyRing(size), on |-> FALSE, shown |-> FALSE, buf |-> <<>>,
     replay |-> FALSE, snap |-> NoSnap, pane |-> Blank(size), alive |-> TRUE, lost |-> FALSE]

\* SinkFeed::apply.  Bytes the sink has are dropped, a gap is taken as it comes.
Apply(v, f) ==
    CASE f.k = "out" /\ f.n >= v.sink.total ->
            [v EXCEPT !.sink = Push(@),
                      !.buf = IF v.on THEN @ ELSE Append(@, f.n),
                      !.pane = IF v.on /\ v.shown THEN Draw(@, f.n) ELSE @]
      [] f.k = "res" ->
            [v EXCEPT !.sink = Mark(@, f.n),
                      !.pane.size = IF v.on /\ v.shown THEN f.n ELSE @]
      [] f.k = "exit" -> [v EXCEPT !.alive = FALSE]
      [] f.k = "lost" -> [v EXCEPT !.alive = FALSE, !.lost = TRUE]
      [] OTHER -> v

\* SinkFeed::event, for the events f in their order.
Event(fs) ==
    IF feed.queues THEN feed' = [feed EXCEPT !.early = @ \o fs] /\ UNCHANGED view
                   ELSE view' = FoldLeft(Apply, view, fs) /\ UNCHANGED feed

\* A resize, and whether the user's command holds the workspace's lock until
\* the daemon has answered.
Ask(size, user) == [size |-> size, user |-> user]
NoAsk == Ask(0, FALSE)
Unlocked == ~up \/ ~(recording.user \/ \E i \in DOMAIN asked : asked[i].user)

NoFrame == Msg("none", 0)
NewClient == [life |-> "up", reg |-> FALSE, pend |-> <<>>, held |-> NoFrame]
NoFeed == [queues |-> FALSE, early |-> <<>>]
NoAnswer == [ring |-> EmptyRing(Size0), alive |-> TRUE]

PanesInit ==
    /\ up = TRUE /\ ring = EmptyRing(Size0) /\ drawn = <<>> /\ ptySize = Size0
    /\ recording = NoAsk /\ child = "gone" /\ spawns = 0
    /\ gens = 1 /\ conn = 1 /\ sgen = 0 /\ eofs = {}
    /\ link = <<>> /\ asked = <<>> /\ answer = NoAnswer
    /\ phase = "none" /\ client = NewClient /\ feed = NoFeed /\ view = Fresh(Size0)
    /\ geometry = Size0 /\ redraw = 0 /\ asks = 0 /\ snap = NoSnap

-----------------------------------------------------------------------------
(* The daemon.                                                              *)

\* Server::send_if_streaming.  What is written to a closed socket is lost.
Send(f) == link' = IF conn # 0 /\ sgen = conn /\ phase # "off" THEN Append(link, f) ELSE link

\* The reader thread of the session: into the ring, then to the app.
Prints ==
    LET whole == \E i \in DOMAIN ring.res : ring.res[i].at = ring.total
    IN  /\ up /\ child = "run" /\ ring.total < MaxBytes /\ Len(link) < MaxLink
        /\ ring' = Push(ring)
        /\ drawn' = Append(drawn, [size |-> ring.size, whole |-> whole])
        /\ Send(Msg("out", ring.total))
    /\ UNCHANGED <<up, ptySize, recording, child, spawns, gens, conn, sgen, eofs,
                   asked, answer, phase, client, feed, view, geometry, redraw, asks, snap>>

\* DSession::resize: the PTY first, nothing for the size it has.
Resizes ==
    /\ up /\ asked # <<>> /\ recording = NoAsk
    /\ asked' = Tail(asked)
    /\ IF Head(asked).size = ptySize
       THEN UNCHANGED <<ptySize, recording>>
       ELSE ptySize' = Head(asked).size /\ recording' = Head(asked)
    /\ UNCHANGED <<up, ring, drawn, child, spawns, gens, conn, sgen, eofs, link, answer,
                   phase, client, feed, view, geometry, redraw, asks, snap>>

\* Then the ring and the app, under the ring's lock.
Records ==
    /\ up /\ recording # NoAsk
    /\ ring' = Mark(ring, recording.size) /\ recording' = NoAsk
    /\ Send(Msg("res", recording.size))
    /\ UNCHANGED <<up, drawn, ptySize, child, spawns, gens, conn, sgen, eofs, asked, answer,
                   phase, client, feed, view, geometry, redraw, asks, snap>>

\* The reader thread at the end of the output: dead, and then the app is told.
ChildExits ==
    /\ up /\ child = "run" /\ child' = "dead"
    /\ UNCHANGED <<up, ring, drawn, ptySize, recording, spawns, gens, conn, sgen, eofs, link,
                   asked, answer, phase, client, feed, view, geometry, redraw, asks, snap>>
ExitTold ==
    /\ up /\ child = "dead" /\ child' = "gone"
    /\ Send(Msg("exit", 0))
    /\ UNCHANGED <<up, ring, drawn, ptySize, recording, spawns, gens, conn, sgen, eofs,
                   asked, answer, phase, client, feed, view, geometry, redraw, asks, snap>>

\* serve, at the end of a connection: only if it still is the app's.
Ended(g) == conn' = IF conn = g THEN 0 ELSE conn

EofNoticed(g) ==
    /\ up /\ g \in eofs
    /\ eofs' = eofs \ {g} /\ Ended(g)
    /\ UNCHANGED <<up, ring, drawn, ptySize, recording, child, spawns, gens, sgen, link, asked,
                   answer, phase, client, feed, view, geometry, redraw, asks, snap>>

\* handle "attach", under the ring's lock: from here on the session streams.
Attaches ==
    /\ up /\ phase = "asks" /\ phase' = "waits"
    /\ sgen' = conn
    /\ answer' = [ring |-> [ring EXCEPT !.size = ptySize], alive |-> child = "run"]
    /\ link' = Append(link, Msg("ring", 0))
    /\ UNCHANGED <<up, ring, drawn, ptySize, recording, child, spawns, gens, conn, eofs, asked,
                   client, feed, view, geometry, redraw, asks, snap>>

\* The daemon is killed, and all its children with it; what the app had not
\* read yet may still come.
DaemonDies ==
    /\ up /\ up' = FALSE
    /\ child' = "gone" /\ conn' = 0 /\ eofs' = {} /\ asked' = <<>> /\ recording' = NoAsk
    /\ \E n \in 0..Len(link) : link' = SubSeq(link, 1, n)
    /\ UNCHANGED <<ring, drawn, ptySize, spawns, gens, sgen, answer, phase, client, feed, view,
                   geometry, redraw, asks, snap>>

-----------------------------------------------------------------------------
(* The app: its start, and the session it finds or spawns.                  *)

appView == <<client, feed, view>>

\* serve "hello": the new connection is the app's; the old one is shut down,
\* and what it had asked may have been read or not.  No daemon: one is started.
AppStarts ==
    /\ phase = "off" /\ phase' = "hello" /\ gens < MaxApps
    /\ up' = TRUE /\ gens' = gens + 1 /\ conn' = gens + 1
    /\ link' = <<>> /\ asked' \in {asked, <<>>}
    /\ UNCHANGED <<ring, drawn, ptySize, recording, child, spawns, sgen, eofs, answer, appView,
                   geometry, redraw, asks, snap>>

\* The sessions the daemon lists alive are adopted, with their snapshots.
Lists ==
    /\ phase = "hello" /\ up
    /\ IF child = "run"
       THEN /\ phase' = "listed" /\ snap' = NoSnap
            /\ view' = [Fresh(Size0) EXCEPT !.replay = TRUE, !.snap = snap]
       ELSE phase' = "none" /\ UNCHANGED <<view, snap>>
    /\ UNCHANGED <<daemonVars, link, asked, answer, client, feed, geometry, redraw, asks>>

\* handle "spawn": the session streams to the app that asked from its first byte.
Spawns ==
    /\ phase = "none" /\ up /\ client.life = "up" /\ child # "run" /\ spawns < MaxSpawns
    /\ phase' = "spawned" /\ spawns' = spawns + 1 /\ child' = "run"
    /\ ring' = EmptyRing(geometry) /\ drawn' = <<>> /\ ptySize' = geometry /\ recording' = NoAsk
    /\ sgen' = conn /\ link' = <<>> /\ asked' = <<>>
    /\ view' = Fresh(geometry) /\ feed' = NoFeed
    /\ client' = [client EXCEPT !.reg = FALSE, !.pend = <<>>]
    /\ UNCHANGED <<up, gens, conn, eofs, answer, geometry, redraw, asks, snap>>

\* Client::register: what came early, then the handler; and if the daemon is
\* gone by then, that.
Registers ==
    /\ phase \in {"listed", "spawned"} /\ phase' = "registered"
    /\ client' = [client EXCEPT !.reg = TRUE, !.pend = <<>>]
    /\ IF phase = "listed" THEN feed' = [queues |-> TRUE, early |-> client.pend] /\ UNCHANGED view
                           ELSE view' = FoldLeft(Apply, view, client.pend) /\ UNCHANGED feed
    /\ UNCHANGED <<daemonVars, link, asked, answer, geometry, redraw, asks, snap>>
Gone == client.life # "up" /\ client.reg

RegisterChecked ==
    /\ phase = "registered" /\ phase' = IF feed.queues THEN "asks" ELSE "up"
    /\ IF Gone THEN client' = [client EXCEPT !.reg = FALSE] /\ Event(<<Msg("lost", 0)>>)
               ELSE UNCHANGED appView
    /\ UNCHANGED <<daemonVars, link, asked, answer, geometry, redraw, asks, snap>>

\* The attach fails with the daemon: the session is not adopted.
AttachFails ==
    /\ phase \in {"asks", "waits"} /\ client.life # "up" /\ phase' = "none"
    /\ client' = [client EXCEPT !.reg = FALSE, !.pend = <<>>]
    /\ UNCHANGED <<daemonVars, link, asked, answer, feed, view, geometry, redraw, asks, snap>>

\* Session::adopt: the sink starts from the daemon's ring, then what waited.
Seeds ==
    /\ phase = "answered" /\ phase' = "seeded"
    /\ view' = [view EXCEPT !.sink = answer.ring, !.alive = @ /\ answer.alive]
    /\ geometry' = answer.ring.size /\ answer' = NoAnswer
    /\ UNCHANGED <<daemonVars, link, asked, client, feed, redraw, asks, snap>>
Releases ==
    /\ phase = "seeded" /\ phase' = "up"
    /\ view' = FoldLeft(Apply, view, feed.early) /\ feed' = NoFeed
    /\ UNCHANGED <<daemonVars, link, asked, answer, client, geometry, redraw, asks, snap>>

-----------------------------------------------------------------------------
(* The reader thread of the client.                                         *)

\* Client::dispatch, the first look for a handler.
ReaderTakes ==
    /\ phase # "off" /\ client.life = "up" /\ client.held = NoFrame /\ link # <<>>
    /\ link' = Tail(link)
    /\ CASE Head(link).k = "ring" -> phase' = "answered" /\ UNCHANGED appView
         [] Head(link).k # "ring" /\ client.reg ->
                Event(<<Head(link)>>) /\ UNCHANGED <<phase, client>>
         [] OTHER -> client' = [client EXCEPT !.held = Head(link)] /\ UNCHANGED <<phase, feed, view>>
    /\ UNCHANGED <<daemonVars, asked, answer, geometry, redraw, asks, snap>>
\* The second look, under the lock of the events nobody took yet.
Recheck(f) ==
    IF client.reg THEN client' = [client EXCEPT !.held = NoFrame] /\ Event(<<f>>)
                  ELSE /\ client' = [client EXCEPT !.held = NoFrame, !.pend = Append(@, f)]
                       /\ UNCHANGED <<feed, view>>
HeldRechecked ==
    /\ client.held # NoFrame /\ Recheck(client.held)
    /\ UNCHANGED <<daemonVars, link, asked, answer, phase, geometry, redraw, asks, snap>>

\* The end of read_loop: the daemon is gone, then every handler is told.
ReaderEnds ==
    /\ phase # "off" /\ ~up /\ link = <<>> /\ client.held = NoFrame /\ client.life = "up"
    /\ client' = [client EXCEPT !.life = "ending"]
    /\ UNCHANGED <<daemonVars, link, asked, answer, phase, feed, view, geometry, redraw, asks, snap>>
HandlersDrained ==
    /\ client.life = "ending"
    /\ client' = [client EXCEPT !.life = "ended", !.reg = FALSE]
    /\ IF client.reg THEN Event(<<Msg("lost", 0)>>) ELSE UNCHANGED <<feed, view>>
    /\ UNCHANGED <<daemonVars, link, asked, answer, phase, geometry, redraw, asks, snap>>

-----------------------------------------------------------------------------
(* The pane, the window and the end of the app.                             *)

\* OutputSink::attach, and Session::repaint for a pane that is not exact: a row
\* less, and 150 ms later the rows it had.  (One repaint at a time, a bound.)
Attached ==
    LET c == Compose(view.sink, IF view.replay THEN view.snap ELSE NoSnap)
        fresh == ~view.replay /\ ~view.on
        pane == CASE fresh -> Show(Blank(geometry), Bytes(view.buf))
                  [] view.replay -> [Show(c.pane, Bytes(view.buf)) EXCEPT
                                        !.taint = @ \/ view.buf # <<>>]
                  [] OTHER -> c.pane
    IN  [redraw |-> ~fresh /\ c.redraw,
         view |-> [view EXCEPT !.on = TRUE, !.shown = TRUE, !.buf = <<>>, !.replay = FALSE,
                               !.snap = NoSnap, !.pane = pane]]
PaneAttaches ==
    /\ phase = "up" /\ Unlocked /\ ~view.shown /\ redraw = 0
    /\ view' = Attached.view
    /\ IF Attached.redraw THEN redraw' = geometry /\ asked' = Append(asked, Ask(geometry - 1, FALSE))
                          ELSE UNCHANGED <<redraw, asked>>
    /\ UNCHANGED <<daemonVars, link, answer, phase, client, feed, geometry, asks, snap>>
GivesBack ==
    /\ redraw # 0 /\ (~up \/ (asked = <<>> /\ recording = NoAsk))
    /\ asked' = Append(asked, Ask(redraw, FALSE)) /\ redraw' = 0
    /\ UNCHANGED <<daemonVars, link, answer, phase, client, feed, view, geometry, asks, snap>>

\* The web process crashed: the page comes back with a blank xterm.
PageReloads ==
    /\ phase = "up" /\ view.shown /\ asks < MaxAsks /\ asks' = asks + 1
    /\ view' = [view EXCEPT !.shown = FALSE, !.pane = Blank(Size0)]
    /\ UNCHANGED <<daemonVars, link, asked, answer, phase, client, feed, geometry, redraw, snap>>

\* Session::resize.
UserResizes(size) ==
    /\ phase = "up" /\ Unlocked /\ size # geometry /\ asks < MaxAsks
    /\ asks' = asks + 1 /\ geometry' = size /\ asked' = Append(asked, Ask(size, TRUE))
    /\ UNCHANGED <<daemonVars, link, answer, phase, client, feed, view, redraw, snap>>

\* restart_detached: the panes are serialized at their offsets, unless the page
\* is too late, and then the app goes.
SavesSnapshot ==
    /\ phase = "up" /\ Unlocked /\ phase' = "leaving"
    /\ \/ view.shown /\ snap' = [of |-> spawns, recv |-> view.pane.recv, at |-> view.pane.at,
                                 size |-> view.pane.size, exact |-> view.pane.exact,
                                 taint |-> view.pane.taint]
       \/ UNCHANGED snap
    /\ UNCHANGED <<daemonVars, link, asked, answer, appView, geometry, redraw, asks>>

\* The app is gone: the restart, a crash, or a kill.
AppDies ==
    /\ phase # "off" /\ phase' = "off"
    /\ eofs' = IF up THEN eofs \cup {gens} ELSE eofs
    /\ link' = <<>> /\ answer' = NoAnswer /\ redraw' = 0
    /\ client' = NewClient /\ feed' = NoFeed /\ view' = Fresh(Size0)
    /\ UNCHANGED <<up, ring, drawn, ptySize, recording, child, spawns, gens, conn, sgen, asked,
                   geometry, asks, snap>>

PanesNext ==
    \/ Prints \/ Resizes \/ Records \/ ChildExits \/ ExitTold \/ Attaches \/ DaemonDies
    \/ \E g \in 1..MaxApps : EofNoticed(g)
    \/ AppStarts \/ Lists \/ Spawns \/ Registers \/ RegisterChecked \/ AttachFails
    \/ Seeds \/ Releases \/ ReaderTakes \/ HeldRechecked \/ ReaderEnds \/ HandlersDrained
    \/ PaneAttaches \/ GivesBack \/ PageReloads \/ SavesSnapshot \/ AppDies
    \/ \E size \in Sizes : UserResizes(size)

PanesSpec == PanesInit /\ [][PanesNext]_panesVars

-----------------------------------------------------------------------------
(* Properties.                                                              *)

\* The ring of the daemon and its mirror are within their bounds, every resize
\* in them lies in what they keep, and the frames on the link are the session's.
RingOK(r) ==
    /\ r.start \in 0..r.total /\ r.total \in 0..MaxBytes /\ r.total - r.start <= Cap
    /\ \A i \in DOMAIN r.res : r.res[i].at \in r.start..r.total
PanesTypeOK ==
    /\ RingOK(ring) /\ RingOK(view.sink)
    /\ Len(drawn) = ring.total
    /\ conn \in {0, gens} /\ sgen <= gens /\ eofs \subseteq 1..gens
    /\ child \in {"run", "dead", "gone"} /\ client.life \in {"up", "ending", "ended"}
    /\ phase \in {"off", "hello", "listed", "none", "spawned", "registered", "asks", "waits",
                  "answered", "seeded", "up", "leaving"}

Settled == phase = "up" /\ up /\ link = <<>> /\ client.held = NoFrame

\* No byte is lost between the daemon and the app, none comes twice or out of
\* its place, whatever connections end and whenever the session is adopted: an
\* app that has read all it was sent has the daemon's ring (session.rs: "the
\* ring it is handed and the first live byte after it can never overlap or gap").
NothingLost ==
    Settled => /\ view.sink.total = ring.total
               /\ view.sink.res = ring.res /\ view.sink.start = ring.start

\* A pane shows the program's screen when all has been read and no resize is
\* left to be answered, however it was rebuilt: by a reload of the page, a
\* restart with a snapshot or a crash without one.
Redrawing ==
    \/ asked # <<>> \/ recording # NoAsk \/ redraw # 0
    \/ \E i \in DOMAIN ring.res : ring.res[i].at = ring.total
PaneExact ==
    Settled /\ child = "run" /\ view.shown /\ ~Redrawing => view.pane.exact \/ view.pane.taint

\* The frontend's count is the offset in the output, at which the next snapshot
\* is cut (localChannel: "`received` stays the stream offset throughout").
PaneCounts == view.shown /\ ~view.pane.taint => view.pane.recv = view.sink.total

\* The row learns the end of its child, and of the daemon, and only that.
EndIsKnown ==
    phase = "up" /\ client.held = NoFrame /\ link = <<>> =>
        /\ child = "gone" /\ (up \/ client.life = "ended") => ~view.alive
        /\ view.lost => ~up
        /\ ~view.alive => child # "run" \/ ~up

\* A pane shows its process' output exactly, through adoption by a second app, restarts of
\* the daemon and overflow of its ring, and the end of the process is known (pty.rs, ptyd).
PanesInv == PanesTypeOK /\ NothingLost /\ PaneExact /\ PaneCounts /\ EndIsKnown
=============================================================================
