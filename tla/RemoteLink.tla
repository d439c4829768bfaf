----------------------------- MODULE RemoteLink -----------------------------
(***************************************************************************)
(* Remote Control's link: the relay's room for one Mulpex (the host), the  *)
(* connection threads of that host, and the Mulpex windows (devices) that  *)
(* drive it.  The relay passes frames between the host and the clients of  *)
(* the room and says who is there; host and client agree on a key in a     *)
(* handshake through it and seal everything after that.  Either side may   *)
(* lose its connection at any time, be switched off and on, and the relay  *)
(* may restart, which hands out its connection numbers from 1 again.       *)
(*                                                                         *)
(* A key is what the two handshake frames fix: the client's ephemeral, the *)
(* ephemeral the host answered, and the host's connection.  A sealed frame *)
(* opens under the key it was sealed with and under no other.              *)
(***************************************************************************)
EXTENDS Integers, Sequences, FiniteSets

CONSTANTS
    Devices,        \* the other Mulpexes, positive numbers
    Paired0,        \* those that the host knows at the start
    MaxId,          \* bound: the connections the relay numbers between two of its starts
    MaxEvents,      \* bound: drops, switches, revocations, restarts of the relay
    MaxRestarts,    \* bound: the restarts of the relay among them
    MaxLinkAsks     \* bound: the commands and the claims of the geometry

ASSUME LinkAssumption ==
    /\ Devices \subseteq Nat \ {0} /\ Paired0 \subseteq Devices
    /\ MaxId \in Nat \ {0} /\ {MaxEvents, MaxRestarts, MaxLinkAsks} \subseteq Nat

VARIABLES
    \* the relay
    roomHost,   \* Room::host: the number of the host's connection, or 0
    room,       \* Room::clients: the device behind each connection
    nextId,     \* Relay::next
    handlers,   \* the host connections whose handler still runs
    \* the host
    enabled,    \* Inner::enabled
    epoch,      \* Inner::epoch
    known,      \* Inner::devices
    secret,     \* Inner::pairing: the secret of the QR code shown, or 0
    secrets,    \* how many secrets there were
    pairings,   \* which device paired by which secret
    hostRuns,    \* Inner::pending, and the commands that run on a thread of their own
    linkOutbox, \* Inner::outbox
    lease,      \* Workspace::geometry_owner: a device, or 0
    threads,    \* the connection threads, by epoch: where, conn, sessions
    hostFrames, \* by epoch: the frames the relay sent to that thread's connection
    \* the devices
    peer,       \* one Conn each, with the locals of its serve loop
    frames,     \* the frames the relay sent to the device's connection
    toPeerHost,     \* the messages waiting in its channel to the serve loop
    waiting,    \* the commands whose callers wait
    \* the environment
    claimed,    \* the last claim of the geometry that was carried out, if nobody took it back
    events, restarts, asksMade

relayVars == <<roomHost, room, nextId, handlers>>
linkHostVars == <<enabled, epoch, known, secret, secrets, pairings, hostRuns, linkOutbox, lease, threads, claimed>>
peerVars == <<peer, toPeerHost, waiting>>
budget == <<events, restarts, asksMade>>
linkVars == <<relayVars, linkHostVars, hostFrames, peerVars, frames, budget>>

-----------------------------------------------------------------------------
(* Frames and keys.                                                         *)

NoKey == <<0, 0, 0>>
Frame(kind, cid, dev, n, key, body) ==
    [kind |-> kind, cid |-> cid, dev |-> dev, n |-> n, key |-> key, body |-> body]
Note(kind) == Frame(kind, 0, 0, 0, NoKey, "")
Denied(why) == Frame("denied", 0, 0, 0, NoKey, why)

Epochs == 1 .. 1 + MaxEvents
NoThread == [at |-> "none", conn |-> 0, sessions |-> <<>>]
NoClaim == [dev |-> 0, key |-> NoKey]
Off == [state |-> "disconnected", cid |-> 0, tries |-> 0, eph |-> 0, key |-> NoKey, tx |-> FALSE, pairing |-> 0]
Connecting == [Off EXCEPT !.state = "connecting"]

Without(f, keys) == [k \in DOMAIN f \ keys |-> f[k]]
With(f, key, value) == [k \in DOMAIN f \cup {key} |-> IF k = key THEN value ELSE f[k]]

\* The number of a connection that went with its relay, until its end is noticed.
Lost == MaxId + 1

\* Relay::from_host and the relay's own notes: what reaches a device is what is
\* sent to the connection it has now; the rest goes to a connection nobody reads.
Listens(d, cid) == cid \in DOMAIN room /\ room[cid] = d /\ peer[d].cid = cid
Deliver(q, to, msg) == [d \in Devices |-> IF Listens(d, to) THEN Append(q[d], msg) ELSE q[d]]
\* The frames of thread e, as [to, msg] in their order, if its connection is open.
FromHost(e, sends) ==
    IF threads[e].conn \in handlers
    THEN LET sent[n \in 0 .. Len(sends)] ==
                IF n = 0 THEN frames ELSE Deliver(sent[n - 1], sends[n].to, sends[n].msg)
         IN  sent[Len(sends)]
    ELSE frames

\* Relay::from_client: dropped when no host is in the room.
ToHost(q, msg) ==
    [e \in Epochs |-> IF roomHost # 0 /\ threads[e].conn = roomHost THEN Append(q[e], msg) ELSE q[e]]

LinkInit ==
    /\ roomHost = 0 /\ room = <<>> /\ nextId = 0 /\ handlers = {}
    /\ enabled = TRUE /\ epoch = 1 /\ known = Paired0
    /\ secret = IF Paired0 = Devices THEN 0 ELSE 1
    /\ secrets = secret /\ pairings = {} /\ hostRuns = {} /\ linkOutbox = <<>> /\ lease = 0
    /\ threads = [e \in Epochs |-> IF e = 1 THEN [NoThread EXCEPT !.at = "connect"] ELSE NoThread]
    /\ hostFrames = [e \in Epochs |-> <<>>]
    /\ peer = [d \in Devices |-> IF d \in Paired0 THEN Connecting ELSE [Connecting EXCEPT !.pairing = 1]]
    /\ frames = [d \in Devices |-> <<>>] /\ toPeerHost = [d \in Devices |-> <<>>]
    /\ waiting = [d \in Devices |-> {}]
    /\ claimed = NoClaim /\ events = 0 /\ restarts = 0 /\ asksMade = 0

Spend == events < MaxEvents /\ events' = events + 1 /\ UNCHANGED <<restarts, asksMade>>

-----------------------------------------------------------------------------
(* The relay.                                                               *)

\* host_joined: every client of the room is told that a host is there.
HostIsOnline(q) ==
    [d \in Devices |-> IF Listens(d, peer[d].cid) THEN Append(q[d], Note("online")) ELSE q[d]]

\* Relay::host_joined, and the thread's run up to the first pass: a host that was
\* there is replaced and told to close.
HostConnects(e) ==
    /\ threads[e].at = "connect" /\ epoch = e /\ nextId < MaxId
    /\ nextId' = nextId + 1
    /\ roomHost' = nextId' /\ handlers' = handlers \cup {nextId'}
    /\ threads' = [threads EXCEPT ![e] = [at |-> "top", conn |-> nextId', sessions |-> <<>>]]
    /\ hostFrames' = [f \in Epochs |->
        IF f = e THEN <<>>
        ELSE IF roomHost # 0 /\ threads[f].conn = roomHost THEN Append(hostFrames[f], Note("close"))
        ELSE hostFrames[f]]
    /\ frames' = HostIsOnline(frames)
    /\ UNCHANGED <<room, enabled, epoch, known, secret, secrets, pairings, hostRuns, linkOutbox, lease, claimed,
                   peerVars, budget>>

\* Mutant: a replaced connection takes its successor out of the room.
StillHost_Any(conn) == TRUE

\* host_left: is it the connection of the room's host that ended?
StillHost(conn) == roomHost = conn

\* host_ws after its pump: the host's end is gone, or was told to close.
HostLeft(conn) ==
    /\ conn \in handlers
    /\ \/ \A e \in Epochs : threads[e].conn # conn
       \/ roomHost # conn
    /\ handlers' = handlers \ {conn}
    /\ IF StillHost(conn)
       THEN /\ roomHost' = 0
            /\ frames' = [d \in Devices |->
                IF Listens(d, peer[d].cid) THEN Append(frames[d], Note("offline")) ELSE frames[d]]
       ELSE UNCHANGED <<roomHost, frames>>
    /\ UNCHANGED <<room, nextId, linkHostVars, hostFrames, peerVars, budget>>

\* client_ws: a device's thread connects (client.rs run) and the relay tells both sides.
PeerConnects(d) ==
    /\ peer[d].state \notin {"disconnected", "error"} /\ peer[d].cid = 0 /\ nextId < MaxId
    /\ nextId' = nextId + 1
    /\ room' = With(room, nextId', d)
    /\ peer' = [peer EXCEPT ![d].cid = nextId', ![d].tries = 0, ![d].eph = 0]
    /\ frames' = [frames EXCEPT ![d] = <<Note(IF roomHost # 0 THEN "online" ELSE "offline")>>]
    /\ UNCHANGED <<roomHost, handlers, linkHostVars, hostFrames, toPeerHost, waiting, budget>>

\* client_left, once the relay notices.
PeerLeft(cid) ==
    /\ cid \in DOMAIN room /\ peer[room[cid]].cid # cid
    /\ room' = Without(room, {cid})
    /\ hostFrames' = ToHost(hostFrames, Frame("leave", cid, 0, 0, NoKey, ""))
    /\ UNCHANGED <<roomHost, nextId, handlers, linkHostVars, peerVars, frames, budget>>

\* The relay is deployed again: every connection goes, the numbers start over.
RelayRestarts ==
    /\ restarts < MaxRestarts /\ restarts' = restarts + 1
    /\ events < MaxEvents /\ events' = events + 1
    /\ roomHost' = 0 /\ room' = <<>> /\ nextId' = 0 /\ handlers' = {}
    /\ threads' = [e \in Epochs |-> IF threads[e].conn = 0 THEN threads[e] ELSE [threads[e] EXCEPT !.conn = Lost]]
    /\ peer' = [d \in Devices |-> IF peer[d].cid = 0 THEN peer[d] ELSE [peer[d] EXCEPT !.cid = Lost]]
    /\ UNCHANGED <<enabled, epoch, known, secret, secrets, pairings, hostRuns, linkOutbox, lease, claimed,
                   hostFrames, toPeerHost, waiting, frames, asksMade>>

-----------------------------------------------------------------------------
(* The host: remote/mod.rs and remote/desktop.rs.                           *)

\* set_enabled(false): the thread finds its epoch stale on its next pass.
SwitchOff ==
    /\ enabled /\ Spend
    /\ enabled' = FALSE /\ epoch' = epoch + 1
    /\ UNCHANGED <<relayVars, known, secret, secrets, pairings, hostRuns, linkOutbox, lease, threads, claimed, hostFrames,
                   peerVars, frames>>

\* start_thread: set_enabled(true), or set_relay_url while it is on.
StartThread ==
    /\ Spend
    /\ enabled' = TRUE /\ epoch' = epoch + 1
    /\ threads' = [threads EXCEPT ![epoch'] = [NoThread EXCEPT !.at = "connect"]]
    /\ UNCHANGED <<relayVars, known, secret, secrets, pairings, hostRuns, linkOutbox, lease, claimed, hostFrames, peerVars,
                   frames>>

\* ensure_pairing: the dialog shows a new code when the last one was used (or expired).
ShowCode ==
    /\ enabled /\ secret = 0 /\ secrets < Cardinality(Devices) /\ known # Devices
    /\ secrets' = secrets + 1 /\ secret' = secrets'
    /\ UNCHANGED <<relayVars, enabled, epoch, known, pairings, hostRuns, linkOutbox, lease, threads, claimed, hostFrames,
                   peerVars, frames, budget>>

\* revoke
Revoke(d) ==
    /\ d \in known /\ Spend
    /\ known' = known \ {d}
    /\ UNCHANGED <<relayVars, enabled, epoch, secret, secrets, pairings, hostRuns, linkOutbox, lease, threads, claimed,
                   hostFrames, peerVars, frames>>

\* commands.rs geometry_take_back
TakeBack ==
    /\ lease # 0 /\ Spend
    /\ lease' = 0 /\ claimed' = NoClaim
    /\ UNCHANGED <<relayVars, enabled, epoch, known, secret, secrets, pairings, hostRuns, linkOutbox, threads, hostFrames,
                   peerVars, frames>>

\* run: a thread that is stale returns instead of connecting again.
GivesUpConnecting(e) ==
    /\ threads[e].at = "connect" /\ epoch # e
    /\ threads' = [threads EXCEPT ![e] = NoThread]
    /\ UNCHANGED <<relayVars, enabled, epoch, known, secret, secrets, pairings, hostRuns, linkOutbox, lease, claimed,
                   hostFrames, peerVars, frames, budget>>

\* serve ends with an error: the sessions go with it, and run connects again.
Broken(e) ==
    /\ threads' = [threads EXCEPT ![e] = [NoThread EXCEPT !.at = "connect"]]
    /\ hostFrames' = [hostFrames EXCEPT ![e] = <<>>]

HostDrops(e) ==
    /\ threads[e].conn # 0
    /\ IF threads[e].conn \in handlers THEN Spend ELSE UNCHANGED budget
    /\ Broken(e)
    /\ UNCHANGED <<relayVars, enabled, epoch, known, secret, secrets, pairings, hostRuns, linkOutbox, lease, claimed,
                   peerVars, frames>>

\* Mutant: the lease goes back though another session of the device goes on.
LeaseAfter_Always(sessions, devs) == IF lease \in devs THEN 0 ELSE lease

\* desk_gone and release_geometry, for the devices of the sessions that ended.
LeaseAfter(sessions, devs) ==
    LET Driven(d) == \E c \in DOMAIN sessions : sessions[c].desk /\ sessions[c].dev = d
    IN  IF lease \in devs /\ ~Driven(lease) THEN 0 ELSE lease

\* The devices of those of the sessions cids that are desks.
Desks(e, cids) == {threads[e].sessions[c].dev : c \in {x \in cids : threads[e].sessions[x].desk}}

Session(sessions, e, at) == threads' = [threads EXCEPT ![e].sessions = sessions, ![e].at = at]

\* serve, top of a pass: stop when superseded; cut the sessions of revoked devices.
Top(e) ==
    LET t == threads[e]
        cut == {c \in DOMAIN t.sessions : t.sessions[c].dev \notin known}
        left == Without(t.sessions, cut)
    IN  /\ t.at = "top"
        /\ IF epoch # e
           THEN threads' = [threads EXCEPT ![e] = NoThread] /\ UNCHANGED <<lease, frames>>
           ELSE /\ Session(left, e, "read")
                /\ lease' = LeaseAfter(left, Desks(e, cut))
                /\ frames' = IF t.conn \in handlers
                             THEN [d \in Devices |-> IF \E c \in cut : Listens(d, c)
                                                     THEN Append(frames[d], Denied("revoked")) ELSE frames[d]]
                             ELSE frames
        /\ hostFrames' = IF epoch # e THEN [hostFrames EXCEPT ![e] = <<>>] ELSE hostFrames
        /\ UNCHANGED <<relayVars, enabled, epoch, known, secret, secrets, pairings, hostRuns, linkOutbox, claimed,
                       peerVars, budget>>

\* The replies of this epoch to the sessions there are, sealed (send_sealed); any other is
\* for nobody.
Replies(e) ==
    LET sessions == threads[e].sessions
        Sealed(r) == IF r.epoch = e /\ r.cid \in DOMAIN sessions
                     THEN [to |-> r.cid, msg |-> Frame("sealed", 0, 0, r.rid, sessions[r.cid].key, "res")]
                     ELSE [to |-> 0, msg |-> Note("dropped")]
    IN  [i \in DOMAIN linkOutbox |-> Sealed(linkOutbox[i])]

\* What a frame from the relay makes the thread send comes after the replies.
HostSends(e, msgs) == frames' = FromHost(e, Replies(e) \o msgs)

\* on_relay "leave"
OnLeave(e, f) ==
    LET t == threads[e]
        left == Without(t.sessions, {f.cid})
    IN  /\ Session(left, e, "top")
        /\ lease' = LeaseAfter(left, Desks(e, DOMAIN t.sessions \cap {f.cid}))
        /\ HostSends(e, <<>>)
        /\ UNCHANGED <<known, secret, pairings, hostRuns, claimed>>

\* on_pair: a code pairs one device.
OnPair(e, f) ==
    /\ Session(threads[e].sessions, e, "top")
    /\ IF secret # 0 /\ f.n = secret
       THEN /\ secret' = 0 /\ known' = known \cup {f.dev}
            /\ pairings' = pairings \cup {<<secret, f.dev>>}
            /\ HostSends(e, <<[to |-> f.cid, msg |-> Note("paired")]>>)
       ELSE /\ HostSends(e, <<[to |-> f.cid, msg |-> Denied("expired")]>>)
            /\ UNCHANGED <<secret, known, pairings>>
    /\ UNCHANGED <<hostRuns, lease, claimed>>

\* on_handshake: the session of that connection is new, whatever it was.
OnHandshake(e, f) ==
    LET t == threads[e]
        session == [dev |-> f.dev, key |-> <<f.n, f.n, t.conn>>, desk |-> FALSE]
        answer == Frame("hs", 0, 0, f.n, <<0, f.n, t.conn>>, "")
    IN  /\ IF f.dev \in known
           THEN /\ Session(With(t.sessions, f.cid, session), e, "top")
                /\ HostSends(e, <<[to |-> f.cid, msg |-> answer]>>)
           ELSE /\ Session(t.sessions, e, "top")
                /\ HostSends(e, <<[to |-> f.cid, msg |-> Denied("not paired")]>>)
        /\ UNCHANGED <<known, secret, pairings, hostRuns, lease, claimed>>

\* on_sealed, a frame that does not open.
Refusal(cid) == <<[to |-> cid, msg |-> Denied("bad frame")]>>

\* on_sealed, desk_hello, desk_request and claim_geometry.
OnSealed(e, f) ==
    LET t == threads[e]
        c == f.cid
        s == t.sessions[c]
        welcome == [to |-> c, msg |-> Frame("sealed", 0, 0, 0, s.key, "welcome")]
    IN  /\ IF c \notin DOMAIN t.sessions \/ s.key # f.key
           THEN /\ Session(Without(t.sessions, {c}), e, "top")
                /\ HostSends(e, Refusal(c))
                /\ UNCHANGED <<hostRuns, lease, claimed>>
           ELSE /\ Session([t.sessions EXCEPT ![c].desk = @ \/ f.body = "hello"], e, "top")
                /\ HostSends(e, IF f.body = "hello" THEN <<welcome>> ELSE <<>>)
                /\ hostRuns' = IF f.body = "ask" /\ s.desk
                              THEN hostRuns \cup {[rid |-> f.n, epoch |-> e, cid |-> c]} ELSE hostRuns
                /\ IF f.body = "claim" /\ s.desk
                   THEN lease' = s.dev /\ claimed' = [dev |-> s.dev, key |-> s.key]
                   ELSE UNCHANGED <<lease, claimed>>
        /\ UNCHANGED <<known, secret, pairings>>

\* Would the next pass find anything to do?
PassDue(e) == linkOutbox # <<>> \/ epoch # e \/ \E c \in DOMAIN threads[e].sessions : threads[e].sessions[c].dev \notin known

\* serve, the rest of the pass: the outbox is emptied, the replies of this epoch go
\* out, and one frame is read, or a tick passes without any.
Serve(e) ==
    LET f == Head(hostFrames[e])
        idle == hostFrames[e] = <<>>
    IN  /\ threads[e].at = "read" /\ (idle => PassDue(e))
        /\ linkOutbox' = <<>>
        /\ IF idle \/ f.kind = "close"
           THEN /\ IF idle THEN Session(threads[e].sessions, e, "top") /\ UNCHANGED hostFrames ELSE Broken(e)
                /\ HostSends(e, <<>>)
                /\ UNCHANGED <<known, secret, pairings, hostRuns, lease, claimed>>
           ELSE /\ hostFrames' = [hostFrames EXCEPT ![e] = Tail(@)]
                /\ \/ f.kind = "leave" /\ OnLeave(e, f)
                   \/ f.kind = "pair" /\ OnPair(e, f)
                   \/ f.kind = "hs" /\ OnHandshake(e, f)
                   \/ f.kind = "sealed" /\ OnSealed(e, f)
        /\ UNCHANGED <<relayVars, enabled, epoch, secrets, peerVars, budget>>

\* A command ended on its thread, or the window answered (reply).
HostAnswered ==
    \E r \in hostRuns :
        /\ hostRuns' = hostRuns \ {r} /\ linkOutbox' = Append(linkOutbox, r)
        /\ UNCHANGED <<relayVars, enabled, epoch, known, secret, secrets, pairings, lease, threads, claimed, hostFrames,
                       peerVars, frames, budget>>

-----------------------------------------------------------------------------
(* The devices: remote/client.rs.                                           *)

\* fail_pending_of
FailPending(d) == waiting' = [waiting EXCEPT ![d] = {}]

\* serve returns: Retry connects again, Stop does not; either way the callers are told.
PeerEnds(d, state) ==
    /\ LET code == IF state = "connecting" THEN peer[d].pairing ELSE 0
       IN  peer' = [peer EXCEPT ![d] = [Off EXCEPT !.state = state, !.pairing = code]]
    /\ toPeerHost' = [toPeerHost EXCEPT ![d] = <<>>] /\ frames' = [frames EXCEPT ![d] = <<>>]
    /\ FailPending(d)

Retries(d) == PeerEnds(d, "connecting") /\ UNCHANGED hostFrames
PeerStops(d, state) == PeerEnds(d, state) /\ UNCHANGED hostFrames

FromPeer(d, f) == hostFrames' = IF peer[d].cid \in DOMAIN room THEN ToHost(hostFrames, f) ELSE hostFrames

\* A number no other handshake has: of which relay, connection and attempt it is.
Ephemeral(cid, attempt) == (attempt * (MaxRestarts + 1) + restarts) * (MaxId + 1) + cid

\* A new ephemeral and the first frame of the handshake.
Handshake(d, p) ==
    LET eph == Ephemeral(p.cid, p.tries + 1)
    IN  /\ peer' = [peer EXCEPT ![d] = [p EXCEPT !.tries = @ + 1, !.eph = eph, !.key = NoKey]]
        /\ FromPeer(d, Frame("hs", p.cid, d, eph, NoKey, ""))

\* set_state("offline")
Unreachable(p) == [p EXCEPT !.state = "offline", !.key = NoKey, !.tx = FALSE]

\* serve: the relay says whether the host is in the room.
OnHost(d, f) ==
    LET p == peer[d]
    IN  IF f.kind = "offline"
        THEN IF p.pairing # 0 THEN PeerStops(d, "disconnected")
             ELSE /\ peer' = [peer EXCEPT ![d] = Unreachable(p)]
                  /\ FailPending(d) /\ frames' = [frames EXCEPT ![d] = Tail(@)] /\ UNCHANGED <<toPeerHost, hostFrames>>
        ELSE /\ IF p.pairing # 0
                THEN /\ peer' = [peer EXCEPT ![d].key = NoKey]
                     /\ FromPeer(d, Frame("pair", p.cid, d, p.pairing, NoKey, ""))
                ELSE Handshake(d, p)
             /\ frames' = [frames EXCEPT ![d] = Tail(@)] /\ UNCHANGED <<toPeerHost, waiting>>

OnPaired(d) ==
    /\ Handshake(d, [peer[d] EXCEPT !.pairing = 0])
    /\ frames' = [frames EXCEPT ![d] = Tail(@)] /\ UNCHANGED <<toPeerHost, waiting>>

OnDenied(d, f) ==
    IF peer[d].pairing # 0 THEN PeerStops(d, "disconnected")
    ELSE IF f.body = "bad frame" THEN Retries(d) ELSE PeerStops(d, "error")

\* serve "hs": the key comes from the ephemeral sent last, whichever one was answered.
OnKey(d, f) ==
    LET p == peer[d]
        key == <<p.eph, f.n, f.key[3]>>
    IN  /\ IF p.eph = 0 THEN UNCHANGED <<peer, hostFrames>>
           ELSE /\ peer' = [peer EXCEPT ![d].eph = 0, ![d].key = key]
                /\ FromPeer(d, Frame("sealed", p.cid, d, 0, key, "hello"))
        /\ frames' = [frames EXCEPT ![d] = Tail(@)] /\ UNCHANGED <<toPeerHost, waiting>>

\* serve "sealed" and on_message.
OnMessage(d, f) ==
    LET p == peer[d]
    IN  IF p.key # NoKey /\ p.key # f.key THEN Retries(d)
        ELSE /\ frames' = [frames EXCEPT ![d] = Tail(@)]
             /\ IF p.key = NoKey THEN UNCHANGED <<peer, waiting>>
                ELSE IF f.body = "welcome"
                THEN peer' = [peer EXCEPT ![d].state = "connected", ![d].tx = TRUE] /\ UNCHANGED waiting
                ELSE waiting' = [waiting EXCEPT ![d] = @ \ {f.n}] /\ UNCHANGED peer
             /\ UNCHANGED <<toPeerHost, hostFrames>>

\* serve: one frame of the device's connection.
PeerReads(d) ==
    LET f == Head(frames[d])
    IN  /\ peer[d].cid # 0 /\ frames[d] # <<>>
        /\ \/ f.kind \in {"online", "offline"} /\ OnHost(d, f)
           \/ f.kind = "paired" /\ OnPaired(d)
           \/ f.kind = "denied" /\ OnDenied(d, f)
           \/ f.kind = "hs" /\ OnKey(d, f)
           \/ f.kind = "sealed" /\ OnMessage(d, f)
        /\ UNCHANGED <<relayVars, linkHostVars, budget>>

\* serve: the queue is sealed and sent once there is a key.
PeerSends(d) ==
    LET p == peer[d]
    IN  /\ p.cid # 0 /\ p.key # NoKey /\ toPeerHost[d] # <<>>
        /\ FromPeer(d, [Head(toPeerHost[d]) EXCEPT !.cid = p.cid, !.key = p.key])
        /\ toPeerHost' = [toPeerHost EXCEPT ![d] = Tail(@)]
        /\ UNCHANGED <<relayVars, linkHostVars, peer, waiting, frames, budget>>

PeerDrops(d) ==
    /\ peer[d].cid # 0
    /\ IF peer[d].cid \in DOMAIN room /\ room[peer[d].cid] = d THEN Spend ELSE UNCHANGED budget
    /\ Retries(d)
    /\ UNCHANGED <<relayVars, linkHostVars>>

\* request and send_to: a command, refused unless the host said welcome.
PeerAsks(d) ==
    /\ peer[d].tx /\ asksMade < MaxLinkAsks
    /\ asksMade' = asksMade + 1
    /\ waiting' = [waiting EXCEPT ![d] = @ \cup {asksMade'}]
    /\ toPeerHost' = [toPeerHost EXCEPT ![d] = Append(@, Frame("sealed", 0, d, asksMade', NoKey, "ask"))]
    /\ UNCHANGED <<relayVars, linkHostVars, hostFrames, peer, frames, events, restarts>>

\* host_geo
PeerClaims(d) ==
    /\ peer[d].tx /\ asksMade < MaxLinkAsks
    /\ asksMade' = asksMade + 1
    /\ toPeerHost' = [toPeerHost EXCEPT ![d] = Append(@, Frame("sealed", 0, d, 0, NoKey, "claim"))]
    /\ UNCHANGED <<relayVars, linkHostVars, hostFrames, peer, waiting, frames, events, restarts>>

\* request: nobody answered in time.
PeerTimesOut(d) ==
    \E rid \in waiting[d] :
        /\ waiting' = [waiting EXCEPT ![d] = @ \ {rid}]
        /\ UNCHANGED <<relayVars, linkHostVars, hostFrames, peer, toPeerHost, frames, budget>>

\* host_connect(false), or that Mulpex quits.
PeerOff(d) ==
    /\ peer[d].state # "disconnected" /\ peer[d].pairing = 0 /\ Spend
    /\ PeerStops(d, "disconnected")
    /\ UNCHANGED <<relayVars, linkHostVars>>

\* host_connect(true)
PeerOn(d) ==
    /\ peer[d].state = "disconnected" /\ d \in known /\ Spend
    /\ peer' = [peer EXCEPT ![d] = Connecting]
    /\ UNCHANGED <<relayVars, linkHostVars, hostFrames, toPeerHost, waiting, frames>>

-----------------------------------------------------------------------------
HostStep(e) ==
    \/ HostConnects(e) \/ GivesUpConnecting(e) \/ Top(e) \/ Serve(e)

PeerStep(d) == PeerConnects(d) \/ PeerReads(d) \/ PeerSends(d)

LinkNext ==
    \/ \E e \in Epochs : HostStep(e) \/ HostDrops(e)
    \/ \E c \in handlers : HostLeft(c)
    \/ \E c \in DOMAIN room : PeerLeft(c)
    \/ \E d \in Devices : PeerStep(d) \/ PeerDrops(d) \/ PeerAsks(d) \/ PeerClaims(d) \/ PeerTimesOut(d)
                          \/ PeerOff(d) \/ PeerOn(d) \/ Revoke(d)
    \/ RelayRestarts \/ SwitchOff \/ StartThread \/ ShowCode \/ TakeBack \/ HostAnswered

LinkSpec == LinkInit /\ [][LinkNext]_linkVars

\* Threads run, and notice a connection that the relay has lost; the relay notices
\* one that ended.  No user acts, and no connection has to break.
LinkFair ==
    /\ \A e \in Epochs : WF_linkVars(HostStep(e) \/ (threads[e].conn \notin handlers /\ HostDrops(e)))
    /\ \A d \in Devices : WF_linkVars(PeerStep(d) \/ (peer[d].cid \notin DOMAIN room /\ PeerDrops(d)))
    /\ WF_linkVars(\E c \in handlers : HostLeft(c)) /\ WF_linkVars(\E c \in DOMAIN room : PeerLeft(c))

LinkFairSpec == LinkSpec /\ LinkFair

-----------------------------------------------------------------------------
\* Every variable keeps its type.
LinkTypeOK ==
    /\ roomHost \in 0 .. MaxId /\ nextId \in 0 .. MaxId /\ handlers \subseteq 1 .. MaxId
    /\ \A c \in DOMAIN room : c \in 1 .. MaxId /\ room[c] \in Devices
    /\ enabled \in BOOLEAN /\ epoch \in Epochs /\ known \subseteq Devices
    /\ secret \in 0 .. secrets /\ lease \in Devices \cup {0}
    /\ \A e \in Epochs : /\ threads[e].at \in {"none", "connect", "top", "read"}
                         /\ (threads[e].conn # 0) = (threads[e].at \in {"top", "read"})
                         /\ \A c \in DOMAIN threads[e].sessions :
                               threads[e].sessions[c].dev \in Devices /\ threads[e].sessions[c].desk \in BOOLEAN
    /\ \A d \in Devices :
        /\ peer[d].state \in {"connecting", "connected", "offline", "error", "disconnected"}
        /\ peer[d].tx => peer[d].state = "connected" /\ peer[d].cid # 0
        /\ peer[d].cid = 0 => frames[d] = <<>> /\ toPeerHost[d] = <<>>

\* A host connection that is open, and was not told to close, is the room's host:
\* the end of one that was replaced takes nobody out of the room (host_left).
HostStays ==
    \A e \in Epochs :
        (threads[e].conn \in handlers /\ \A i \in DOMAIN hostFrames[e] : hostFrames[e][i].kind # "close")
        => roomHost = threads[e].conn

\* A device that believes in its key, with no word on its way that says otherwise,
\* shares it with the session of the thread that serves the room, or has sent a
\* frame that thread will refuse: it never talks to a host that lost the session.
LinkAgrees ==
    \A d \in Devices, e \in Epochs :
        LET p == peer[d]
            told == \E i \in DOMAIN frames[d] : frames[d][i].kind \in {"online", "offline", "denied", "hs"}
            heard == \E i \in DOMAIN hostFrames[e] :
                        hostFrames[e][i].kind = "close" \/ (hostFrames[e][i].cid = p.cid /\ hostFrames[e][i].kind = "sealed")
        IN  (p.key # NoKey /\ Listens(d, p.cid) /\ threads[e].conn = roomHost /\ roomHost # 0 /\ ~told /\ ~heard)
            => p.cid \in DOMAIN threads[e].sessions /\ threads[e].sessions[p.cid].key = p.key

\* A caller waits only while its connection is not known to be gone.
WaitsForSomebody == \A d \in Devices : waiting[d] # {} => peer[d].tx

\* The lease leaves a device that claimed it on a link that is still up only because
\* another claimed it or the host's user took it back; the thread of an earlier
\* epoch, which has its own sessions only, is the exception.
LeaseIsKept ==
    [][LET d == claimed.dev
           linked == \E c \in DOMAIN threads[epoch].sessions :
                        LET s == threads[epoch].sessions[c]
                        IN  s.desk /\ s.dev = d /\ s.key = claimed.key /\ peer[d].cid = c /\ peer[d].tx
       IN  (d # 0 /\ lease = d /\ linked /\ lease' # d /\ claimed' = claimed)
           => d \notin known \/ \E e \in Epochs \ {epoch} : threads'[e] # threads[e]]_linkVars

\* While the host serves no device is left waiting: again and again it is paired
\* and linked, or it knows why not, or was switched off.  So a link that broke on
\* either side, or in the relay, comes back, and a device that was revoked is told.
Linked(d) ==
    \E e \in Epochs : /\ peer[d].tx /\ peer[d].cid \in DOMAIN threads[e].sessions
                      /\ threads[e].sessions[peer[d].cid].key = peer[d].key
LinkComesUp ==
    \A d \in Devices :
        []<>(\/ (d \in known /\ Linked(d)) \/ peer[d].state \in {"disconnected", "error"}
             \/ ~enabled \/ nextId = MaxId)

\* The link of a desktop to its host: an open host connection is the room's, the two ends
\* agree on the key, and no call waits on a connection that is gone (relay, client.rs).
LinkInv == LinkTypeOK /\ HostStays /\ LinkAgrees /\ WaitsForSomebody
=============================================================================
