# A TLA+ model of ego-transport

ego-transport is a Rust crate that gives a node one `Transport` (send, recv,
close) over TCP, WebSocket, WebRTC data channels and SSH, together with the
servers such a node needs: an auto-detecting listener, a signaling hub for WebRTC,
a STUN server and prober, and a TURN relay. This directory holds TLA+ models of
its control logic, the TLC runs that check them and the theorems proved about
them. Paths below are relative to the repository.

## 1. Inventory

| Component | Source | State it keeps | Operations | Hard parts |
|---|---|---|---|---|
| Signaling hub | `src/transport/signaling_hub.rs` | map of rooms behind an async mutex; per task: role, channel, position | join, relay, cleanup | tasks interleave at awaits; lock held across a send; a channel's sender outlives its peer; departures race relays; a TCP chunk ends anywhere |
| Signaling protocol and line channel | `src/transport/rtc_signaling.rs` | partial line buffer, parsed messages | serialize, deserialize, `recv_signal`, `recv_one` | lines cut by transport chunks; multi-line SDP in a line protocol |
| WebRTC negotiation (native, browser, WASI) | `src/platform/rtc_*.rs`, `src/transport/p2p.rs` | negotiation stage, pending candidates, "remote done" flags | connect, offer/answer/trickle, send, recv | three implementations meet; each waits for the other; timeouts |
| Auto-detecting listener, server loop | `src/platform/server.rs` | detection tasks, a channel of 32 identified connections | accept, detect, classify, run | short peeks, 5 s timeout, one client's failure, sequential WASI accept |
| Byte transports (TCP, WebSocket, data channel; native, WASI, browser) | `src/platform/tcp_*.rs`, `ws_*.rs`, `rtc_*.rs` | a pending message; the queue a callback fills; a closed flag | connect, send, recv, close | partial writes, message remainder, empty messages, a close that only a callback sees, bounded waits |
| Message buffer, buffered transport, bridge, WASI adapter | `src/transport/message_buffer.rs`, `buffered.rs`, `bridge.rs`, `src/platform/wasi_sync_adapter.rs` | pending bytes, one boxed future | deliver, drain, poll_read, poll_write | a future dropped at Pending; end of stream versus empty message |
| Frames | `src/framing.rs` | receive buffer | send_frame, recv_frame | header split over reads, oversized header |
| Inbound buffer (flow control) | `src/flow.rs` | queue of frames, byte count, refusals | push, pop | caps by count and bytes |
| SSH transport and server | `src/platform/ssh_native.rs` | queued resizes, pending data, two bounded backlogs | recv, next_event, accept, next_channel, auth, host keys | event order across two queues, full backlogs, head-of-line blocking, cancelled accept |
| STUN codec, server, prober | `src/stun.rs`, `src/platform/stun_native.rs` | metrics, connection slots, events handed to the other server of a pair | decode, answer, route, hand over, probe | retransmissions, late replies, silence that means something, answers from another socket, slots held by silent clients |
| TURN relay | `src/platform/turn_native.rs` | live count, per-principal allocation set, metrics; credentials that run out | authenticate, claim, release, refresh, revoke, close | count and notification are asynchronous; revocation works from a snapshot; a credential expires under an allocation; the cap must not reach refreshes |
| Endpoints and schemes | `src/endpoint.rs` | none | parse, require_dial, require_listen, dial | a scheme offered on one platform only |
| Path information | `src/path.rs` | none | from_candidates | table of candidate kinds |
| Identity | `src/identity.rs` | none | constructors | none |
| Test and demo binaries | `src/bin/*.rs`, `tests/` | none of their own | - | read as statements of intent |

What the components do to each other: the listener hands a connection whose first
message is a JOIN to the hub and every other one to the application; the hub
relays the negotiation of two WebRTC peers; a negotiation that needs a relay asks
the TURN server for an allocation, and learns its public address from the STUN
server; frames, buffers and the bridge stack on any transport.

## 2. Plan

Order, most important behaviour first. All of it is done: (1) the signaling hub
and its promise, (2) the negotiation that runs through it, (3) the TURN quota and
revocation, (4) the SSH transport and server, (5) the byte-stream stack up to the
inbound buffer, (6) the auto-detecting listener, (7) the STUN server and the
prober behind a NAT, (8) the stack over every byte transport, with signaling lines
and the bridge, (9) TURN authentication and the clock around the quota.

What could still be modelled is small: `endpoint.rs` and `path.rs` are tables and
parsers without state, and the decisions of the SSH host-key check are single
comparisons. `path_info` of `rtc_native.rs` would need the ICE agent's choice of
pairs beside it.

Proofs, in order: the hub's slots and lock, the quota and revocation, the
server's refinement of the quota and what it says of credentials; then the
listener's routing, the two queues of SSH, the exchange, the lines that cross the
hub with its refinement of `SignalingSession`, STUN's accounts and reports, the
stream of bytes under frames and lines with its refinement of `FrameQueue`, the
exactness of STUN's reports in a quiet network, what the ends of an SSH channel are
given, the types of SSH and STUN, and the stream under the bridge. No safety
invariant of a passing run is left to TLC alone.

The configurations stay within a minute or two each, so that all of them and their
mutants can be run on every change.

## 3. Modules and how they correspond to the code

**`SignalingHub`** (with the promise **`SignalingSession`**). `Peer` is a
connection accepted by the listener, with the task that runs `handle_peer` for it.
`pc` is the await the task is at: `joining` (before the rooms mutex), `announce`
and `refuse` (sending READY or ERROR with the mutex held, so `lock` is a variable
of its own), `select` (the `select!` of `relay_loop`), `forward` (a received line
waits for the mutex), `send` (a line taken from `my_rx` is being written),
`cleanup` and `return`. `peer_a`/`peer_b` are the two senders of a `Room`; `queue`
is the unbounded mpsc channel of a task, and sending to it fails once its task has
returned. `held` is the message a task has in hand. Everything outside the hub is
`conn`, `inbound` (sent and not received yet), `view` (messages delivered to the
peer) and `unread` (delivered and not read, at most `OutCap`: backpressure). Peers
connect, join at any time, send lines, read or stop reading, and leave or die at
any moment, losing what is under way. What a peer says is one text of up to
`MaxSend` parts, with `LineEnds` the places where its lines end. `Receive` is one
`recv`: for a peer in `Stream` (TCP) it returns any stretch of what has arrived, a
part of a line as well as several lines; for a WebSocket peer it returns one
message, which is one line and is taken to fit the buffer of 65,536 bytes. The hub
relays a chunk as a message of its own and ends it with a newline if it has none
(`signaling_hub.rs:243-248`): `Relayed(p, i, j)` is parts `i` to `j` and a newline,
the sender's own only if a line ends at `j`. A peer that sends lines without a
newline (native and browser over a WebSocket) has its line ended by the hub's.
`SignalingSession` is what two matched peers may rely on: roles, the partner's text
in order with nothing missing or doubled, its lines as they were sent if it has a
WebSocket (over TCP only the text is kept), PEER_LEFT after all of it.

**`RtcExchange`** runs `connect` of `rtc_native.rs`, `rtc_browser.rs` and
`rtc_wasi.rs` against each other, in all nine pairs. `stage` is the phase of
`connect`; `chan` is the relay (a FIFO per direction, then PEER_LEFT);
`described`, `local_done`, `remote_done`, `applied` and `pending_ice` are the
locals of the loops; `gathered`/`forwarded` are the ICE agent and the queue
between its callback and the loop. The platforms differ exactly where the files
do: native selects over both sources; browser sends its candidates between two
receives, announces ICE_DONE only after it received one and has a 30 s limit per
receive; wasi answers with a fixed description and carries data through the relay.
The relay is abstracted from `SignalingHub`; `RelayAppendsNewline` makes it the
hub's (`signaling_hub.rs:246`), otherwise it passes on what it was given, as the
relay of `src/bin/test_routed_signaling.rs` does. `Crash`, `HubCuts`,
`SignalTimeout` and `ChannelTimeout` are the faults. The signaling connections are
WebSockets, one message to a receive. A peer may be gone already when it is matched
(`GoneAtMatch`): then no PEER_LEFT announces it, its state is `unannounced`, and
the hub ends the other peer's connection only once it has a line to relay to it.

**`TurnQuota`** is `QuotaRelayAddressGenerator` and the bookkeeping around it: a
request (`Alloc`) loads the counter, compares-and-swaps (which may fail spuriously,
`compare_exchange_weak`), allocates a socket or hands the slot back; an allocation
enters the table, relays bytes, ends by expiry or revocation and is reported later
by the close channel. `revoke_principal` is a snapshot followed by one deletion per
username. `max_allocations` is chosen from `Caps` at the start; `seen` is the value
a request's loop has loaded. A `Username` is a credential `expiry:user`, `Principal`
its user. **`TurnServer`** EXTENDS it with `auth_handle` and a clock: `Verdicts` is
the answer of the static table, of the expiry inside an ephemeral username, or of
the consumer's verifier (anything); `Arrive`, `Refresh` and `Delete` need it,
`allocate_conn` alone looks at the cap. `asked` is when a client last sent a request
for an allocation, `until` when its timer ends. A message that is refused or signed
with the wrong password changes nothing but the counters `auth_ok` and
`auth_refused`, which are left out, so it is no action. `Tick` assumes that a timer
that is due fires, and that a request is answered, within its second. `ServerSpec =>
Spec` of the quota is proved (section 6).

**`SshChannel`** is one end of a channel: `wire` is what russh will hand to
`wait`, `resizes` the queue of `next_event`, `pending` the rest of a chunk, `call`
the call under way. `recv` is not one step: each event it asks `next_event` for is
a step, because the other end acts in between. **`SshSession`** adds the
listener's `conn_queue` and each connection's `chan_queue` (bounded mpsc,
`try_send`), authentication, `next_channel` with the channel in `taking`, and the
client's `open_subsystem`/`open_exec`/`open_pty` with `wait_for_reply` on the
channel that carries data later. `CancelNext` is a `next_channel` future dropped
at its await (in a `select!` or under a timeout): the channel it had taken goes
with it and is remembered in `abandoned`. `Says` is what each end's application
writes; only a client resizes, because only `SshClientChannel` has `resize`. `Only`,
`Stream` and `Geometry` pick the messages, bytes and resizes out of a sequence
without a recursion, for the proofs' sake.

**`ByteTransport`** is one direction of a connection over each transport of the
crate: `tcp`, `tcp_wasi`, `ws`, `ws_wasi`, `browser` (WebSocket and data channel
alike) and `rtc` (the native data channel). A byte is the pair of its unit and its
place. `Write` is what each `send` does (part of the buffer, a whole buffer, a
message); `Reads(n)` is what `recv` with a buffer of n bytes may return. `inbox` is
what has arrived without being received: the queue a callback fills, or
tungstenite's buffer over `WasiSyncStream`. `closed` is the browser's flag; the
native data channel has none, so `AtEnd` is never true of it. **`FrameStream`**
(with the promise **`FrameQueue`**) is what runs on top, by `codec`: `frames`
(`FramedTransport` into an `InboundBuffer`), `lines` (`SignalingClient` and
`TransportSignalingChannel`) or the `bridge` (AsyncRead and AsyncWrite). `stage` is
`connect` (a WASI or browser client; the attempt may fail or time out), `detect`
(the listener consumes the first bytes, kept in `prefix` and replayed by
`BufferedTransport`), `frames` or `failed`. `cut` holds the messages that were
returned without all their lines, `got` the bytes of the current write that a
bridge's reader has, `resent` is set when `poll_write` has dropped a pending send
with bytes already written. The caller that holds a refused frame and stops reading
is the one `PushOutcome::Full` describes; the crate leaves that choice to its user.
One step of `FrameQueue` may deliver several units, because one `poll_read` of a
bridge may return the ends of several writes. Bounds of the model: the bridge runs
over byte streams with writes of at least one byte, detection is followed by frames,
and a character of several bytes that the line channel cuts is not told from others.

**`StunCodec`** is messages as `stun.rs` decodes them: a type, an identifier and the
attributes in order, `Bad` for a value no decoder accepts. **`StunServer`** is one
server or an RFC 5780 pair: per UDP socket a loop that receives, decides
(`route_change`) and sends; `handoffs` are the `ChangeRequestEvent`s on their way to
the other server, whose `answer_for` needs no running loop; for TCP the accept loop
with its slots and the task of each connection, with its idle limit. `net` is the
datagrams under way, lost, doubled and delivered in any order. `silent` counts what
the metrics do not: requests handed over, and replies that failed. `Report` is what
a probe may end with: a `NatMapping`, a `NatFiltering`, a `StunError`, or the
address that `probe_tcp` returns. **`StunExchange`** is the prober against them
through a NAT that maps and filters in one of the ways of RFC 4787: `transact` with
its retransmissions under one identifier, `detect_mapping`, the three tests of
`detect_filtering`, `probe_tcp` under its deadline, strangers' datagrams, and other
TCP clients. `ProbeBreaks` is a TCP probe whose connection is refused or breaks.
`disturbed` records that a timeout overtook an answer or a connection broke.
`TooAlike` says of a NAT and the targets of a probe that `detect_mapping` cannot
tell what it asks: address-dependent mapping and one host, or any mapping that
depends on the endpoint and one server given twice.

**`AutoListener`** is `AutoDetectListener::accept` under `ServerBuilder::run`.
`stage` is how much of a connection's first bytes has arrived, `pc` where its
detection is (`peek`, `handshake`, `first` for the first WebSocket message,
`sigpeek` and `joinread` for a TCP JOIN, `report` while the result waits for room in
the channel), `owner` who has the transport. On native every connection has a task
and `channel` carries the results to `accept`; on WASI `accept` is itself the
detection of `current`, and the hub serves a peer inside it (the documentation of
`signaling_hub.rs` says so), so nobody is accepted until that peer has gone. Its
WebSocket handshake does not wait for the request either
(`wasi_sync_adapter.rs:62-66`): it fails when the peer is gone or the request has
not wholly arrived, and the failure ends the server. A TCP client's first message is
taken to have at least the five bytes that `sig_peek` wants. `short`, `late`,
`taken`, `replay` and `partial` record what happened to the first message; the
properties use them.

The `MC*` modules only give constants their values.

## 4. Runs

| Run | Instance | Shows |
|---|---|---|
| `hub_rooms` | 3 peers over 2 rooms, no relayed lines | slots belong to who joined, the mutex is held over a send only for a connection's first line, every join is decided although nothing is assumed of any peer |
| `hub_relay` | 2 peers, 1 room, one on TCP with a text of 3 parts in 2 lines, one on a WebSocket with 1 line, 1 unread message | no part of a text lost, doubled or overtaken at any stage, and no line of a WebSocket peer broken; the hub implements `SignalingSession`; departures are announced; what is queued arrives |
| `rtc_exchange` | all pairs of platforms, 2 candidates, 1 data message, crashes, cuts, timeouts, a peer gone at the match | every candidate is applied when an exchange is over, the answer precedes candidates, finishing first looks like no failure, exchanges end, and a native peer notices the loss of the other one (but for an answerer matched with an offerer that was gone) |
| `turn_quota` | 2 requests, caps 1 and 2, credentials `1:alice` and `2:alice` under each kind of authentication, lifetime 1, seconds 0..3 | the counter is exact, the cap holds, bytes are attributed once, revocation is thorough, an expired credential ends its allocations, a full server keeps its sessions, the CAS loop ends |
| `ssh_session` | 2 connections, 2 channels (pty, exec), backlogs of 1, chunks of 2, buffers of 1, cancelled `next_channel` | nobody forgotten but who a cancelled call had taken, service in turn, exact delivery, the line moves on |
| `frame_stream` | six transports, three codecs; 4-byte headers, payloads 0..3 (cap 3) and one of 7 or 9, two of one byte in a row, messages of two lines from 3 bytes on, reads of 5, detection of 3, callers' buffers of 2, 6 bytes on the wire, 1 message in the native data channel's queue | bytes in order at every stage, memory bounded, the stack is a queue of units, they arrive, a loss is noticed |
| `stun` | an RFC 5780 pair; every mapping against servers on two hosts, on two ports of one, or one given twice, every filter, servers without alternate port, handler or OTHER-ADDRESS and one that ignores changes; 2 attempts, one datagram touched; 2 TCP clients for 1 slot | what a probe reports is true, and exact when nothing was lost, unless the servers are too much alike to tell; every request is accounted for; probes end; slots come back |
| `listener` | 2 clients (WebSocket/TCP, peer or not), 5 settings over both platforms and modes, channel of 1 | the hub gets JOINs only, the application gets the rest with their first message, nobody is turned away without a reason, no client holds up another on native |
| `hub_cut_line`, `rtc_browser_wait`, `rtc_hub_candidates`, `ssh_resize` | smallest instance that shows it | the findings below |

Why the bounds are enough. Three peers are what it takes to fill a room and refuse
one, or to have a second room beside it; two are what it takes for every order of
relay and departure. A text of three parts, the first two of them one line, can be
cut inside a line, between lines, or not at all. Two candidates let one be forwarded
before and one after any other message. Two requests with a cap of one race for the
last slot and give it back; with a cap of two both may hold an allocation, each
under its own credential, when `revoke_principal` takes its snapshot, so that it has
two usernames to delete (the mutant of `RevokeIsThorough` deletes one of them and
shows only there; for any number of them, `RevocationIsThorough` is proved), and
four seconds let both credentials run out and an allocation be refreshed before
that, refused after it, and time out. Backlogs of one are full at once. In the frame
stream every boundary (header cut, body cut, two frames in a read, prefix longer
than a read's rest, empty and maximal frame) lies inside the instance. Two clients
are enough for one to be in the other's way at each stage of the listener, and a
channel of one is full at once. One touched datagram reaches every branch of
`transact` (a lost request, a lost answer, a second answer, a late one, a
stranger's), since the second attempt meets a healthy network; more than one is two
of these in a row. The same bound allows one stranger's datagram per probe. The
write of `probe_tcp`, outside its deadline, is immediate in the model: a request of
20 bytes on a new connection. The counters that would grow (`sent`, `said`,
`gathered`, `bytes`) are capped by `MaxSend`, `MaxData`, `MaxIce`, `MaxBytes`,
`MaxSaid`, `MaxAsk`, `MaxFaults` and `MaxTime`. `MaxAsk` leaves out a TCP client
that keeps asking within the idle limit: it keeps its slot for as long as it does,
and `SlotsComeBack` is about the others.

`CHECK_DEADLOCK FALSE` everywhere: a peer connects, a request is made and a frame
is sent once in these models, so each of them comes to rest when all is done. What
must not come to rest is stated as liveness.

**Fairness.** Weak fairness, per actor, of what the tokio runtime or the ICE agent
runs: a hub task that can step (`FairSpec`), the request task of TURN, the session
tasks and handlers of SSH, the server's application calling `accept` and
`next_channel`, a call under way, the sender and the receiver of frames, the
browser's callbacks and the end of a connection attempt, the prober with its timers,
STUN's connection tasks with their idle timers (one condition for all of them: each
has finitely many steps), the listener's detection tasks, both branches of its
`select!` (as for the hub, a branch that is always ready is taken at some point) and
the application's handler, which returns. Nothing is assumed of remote peers, except
in `hub_relay`, where `ReadingSpec` adds that a connected peer reads: a line cannot
reach one that does not. In TURN only `Decide` (a request that has begun) is fair,
neither the notification of a close nor the clock. Crashes, lost datagrams and the
timeouts of a negotiation are never fair, and `HubCuts` only where it is the hub's
own doing: a peer whose lines go to one that was gone when they were matched loses
its connection. STUN's timers are, because its probes promise to end. One thing
`FairSpec` of the hub does not give: `select!` picks among ready branches at random,
and weak fairness of the whole task lets one branch win for ever; with finitely many
lines that does not matter.

## 5. Findings

Each is a run that checks the sentence quoted and finds it violated.

- `hub_cut_line`: "normalize here so relay is safe regardless"
  (`signaling_hub.rs:245`) and "partial messages are preserved across calls"
  (`rtc_signaling.rs:635`) - the hub appends a newline to every chunk that does not
  end in one, so a line that TCP cuts is broken in two on the way, and the receiving
  channel, which waits for a newline, takes the first half for a message.
- `rtc_hub_candidates`: the hub appends a newline to lines without one; the strict
  `u16` at the end of a candidate does not parse then, and the candidate is
  dropped without a word.
- `rtc_browser_wait`: two browsers wait for each other's ICE_DONE, and the wait ends
  by the 30 s timeout with the data channel open.
- `ssh_resize`: `recv` queues a resize that `next_event` pops first: the call spins.

Seen while modelling, without a run. The models follow the code in each.

- Hub and negotiation: "Remove room if both peers are gone"
  (`signaling_hub.rs:303`): `cleanup_peer` runs while its caller still holds
  `my_rx`, so `is_closed` of its own sender is false and the room is never removed,
  which `RoomIsNeverRemoved` proves of every execution; a third peer is told the
  room is full although both have left; an answerer is matched with an offerer that
  has left (181), is never told, and when it is native it waits for the offer for
  ever: the exception in `LossEndsExchange`; a READY that cannot be sent returns
  without cleanup (193); the browser sends candidates after its ICE_DONE
  (`rtc_browser.rs:527`); the wasi answerer waits for ever after PEER_LEFT
  (`rtc_wasi.rs:199`), and its DATA does not decode through the hub (264); the line
  channel returns a session description up to its first line break and skips the
  rest (`rtc_signaling.rs:79-82`); `path_info` may show one pair with the round-trip
  time of another (`rtc_native.rs:370`); the native data channel's close is only
  logged, so `recv` on it never ends (484).
- TURN and SSH: `revoke_principal` returns the size of its snapshot
  (`turn_native.rs:741`); `auth_ok` counts a known username with a wrong password
  too (271); a cancelled `next_channel` loses the channel it had taken
  (`ssh_native.rs:521`); `wait_for_reply` drops what the server's application sends
  between the replies to the pty and the shell request (976).
- Frames and listener: a frame above `max_bytes` is refused for ever
  (`flow.rs:155`); a payload of 2^32 bytes or more would be announced modulo 2^32 if
  `max_frame` allowed it (`framing.rs:33`); a JOIN reaches the application, although
  `server.rs:259-261` says it never does, when the listener's peek sees fewer than
  four bytes of the upgrade request or five of a TCP JOIN (399, 468), or when it
  comes after five seconds (446): the exceptions in `RoutedByFirstMessage`; a
  WebSocket client whose request arrives in two pieces is handed over as raw TCP or,
  under `ws_only`, closed; a JOIN cut by the network is given to the hub as it is
  (471); on WASI a failed handshake ends the server (559), also when the client is
  alive and its upgrade request has not wholly arrived; `poll_write` sends bytes
  again after Pending (`bridge.rs:97`).
- Transports: the browser's connect timeout leaves its socket open
  (`ws_browser.rs:97`), its queue has no bound (45), and its receive reports a
  timeout after which the caller may ask again; `WasiSyncStream` spins while a write
  would block, which stops the whole program (`wasi_sync_adapter.rs:119`);
  `tcp_wasi.rs:72` and 319 split an address at its first colon, so `parse_ipv6` is
  never given an address it accepts.
- STUN: a reply to a TCP client that does not read is waited for without limit
  (`stun_native.rs:999`), so its slot is lost: the exception in `SlotsComeBack`; a
  CHANGE-REQUEST that does not decode counts as a change request over UDP (884) and
  not over TCP; `detect_mapping` cannot tell address-dependent mapping from
  endpoint-independent when its servers share a host, and tells nothing when it is
  given one server twice (`TooAlike`, the exception in `ReportIsTrue` and
  `QuietNetworkIsExact`); without a NAT a prober on a wildcard socket reports
  endpoint-independent mapping; silence reads as filtering, so loss can make a
  report stricter than the NAT.

## 6. Proofs

All for every value of the constants that the named assumptions allow
(`HubAssumption`: bounds in Nat, `NoPeer` not a peer, lines that end inside the
text; `QuotaAssumption`: a finite set of requests, caps in Nat, every username with
a principal; `ServerAssumption` of TURN: expiries and a lifetime in Nat;
`ListenerAssumption`: a channel with room for at least one result, settings and
clients of their types; `SessionAssumption`: backlogs of at least one, every channel
an owner, a kind and a bounded list of sayings, made of the messages an application
can write, with resizes by clients only; `RtcAssumption`: at least one candidate,
finite bounds; `TransportAssumption` and `StreamAssumption`: lengths in Nat, a
header, buffers and queues of at least one, several lines in three bytes or more
only; `CodecAssumption`, `ServerAssumption` and `ProbeAssumption` of STUN: finite
sets of servers and connections, at least two targets as `detect_mapping` demands,
NATs of the kinds of RFC 4787, `ReportAssumption`: `None` is no report, an address
or a set of flags is neither `None` nor `Bad`, the client and its NAT have addresses
of their own, and a server that names another or hands requests over has another to
name).

`SignalingHubProofs`. `SlotOwnership` is not inductive alone: that a task's slot
is still its own needs that no one else joins between the check and the insert,
and that a room is never removed under a task that is registered; that in turn
needs to know where a task can be while it holds the mutex. The inductive
invariant is `HubInv == TypeOK /\ FirstLineInv /\ SlotOwnership`, where
`FirstLineInv` says what a task that has not got its first line looks like
(nothing delivered, nothing unread) and who holds the lock. From it:
`TypeCorrect`, `SlotsAreOwned`, `LockIsBrief` (the mutex is held across an await
only for a first line, so no slow reader can stop the hub), and the action
property `RoomIsNeverRemoved`: once a name is used its room stays, with the same
offerer, whoever leaves. One lemma per kind of step (peer, task), one
case per action.

What crosses the hub is a flow from a peer `p` to its partner `q`: READY and the
chunks `q` has or is about to be written (`Toward(q)`), then what `p`'s task has in
hand and what `p` has sent and the hub has not read (`First(p)` on).
`FlowInv == HubInv /\ RelayInv` says that `Toward(q)` is READY and then chunks of the
partner's text, each beginning where the one before it ended (`Chain`, the chunks of
a WebSocket peer being lines), that what is still under way from `p` goes on where
`Toward(q)` ends unless it was lost with the connection (`Meets`, `AwaitInv`), and
that PEER_LEFT is behind all of them. `NothingLostOnTheWay` follows at once, wherever
TCP cuts the text. `HubImplementsSession` maps every step to one of
`SignalingSession` or to a stutter: `Receive` and `Forward` move a chunk between two
parts of the flow, a delivered chunk is the next piece the abstract session may
deliver. The attempt to prove it showed the abstract session wrong: a peer
that is refused while a session is under way had no step there (`Refuse` is that
step now).

`TurnQuotaProofs`. `QuotaInv == TypeOK /\ CountExact`: the counter is the
cardinality of the occupied slots. Three lemmas say what taking, returning and
keeping a slot does to it; every action is one of the three. The cap follows by
cardinality, and `TypeCorrect` gives that `fetch_sub` never wraps. `RevokeInv`
adds what a running `revoke_principal` has left to do: whoever of its snapshot is
still open is under a username it has still to delete; from it
`RevocationIsThorough`, for any number of credentials. `MetricsAgree` speaks of a
sum over the allocations that have reported. `IsTotal` says what a sum is without
a recursion: some function on the subsets is 0 at the empty set, grows by an
element's value when the element is added, and has the total at the whole set. A
report adds one element (`AddToTotal`), any other step leaves the set and the bytes
of its members as they are (`SameTotal`). Theorems: `QuotaInvariant`,
`TypeCorrect`, `NoSlotIsLost`, `CapIsHard`, `MetricsAreExact`,
`RevocationIsThorough`.

`TurnServerProofs`. `ServerImplementsQuota` maps every step of the server to a
step of the quota or to a stutter (`Arrive` is `Load`, `TimeOut` and `Delete` are
`Expire`, `Stop` is `Close`, `Tick` and `Refresh` stutter), so the quota's
theorems hold of the server (`ServerKeepsItsCap`). `CredentialInv` strengthens
`NoRelayOutlivesItsCredential` with what `until` can be: at most one lifetime
after the expiry (`CredentialsEndRelays`); it needs `Tick`'s guard, that a due
timer fires before the next second. `SessionInv` says that a deadline is a whole
lifetime after the last accepted request (`FullServerIsNoHarm`): true because the
cap is no part of `Verdicts`, and false for the server that refuses while
authenticating (the mutant `Verdicts_AtTheCap`).

`AutoListenerProofs`. `RoutedByFirstMessage` speaks of where a connection ended,
not of how; `ListenerInv` adds what each stage of detection knows (`DetectionInv`:
still fresh before the handshake, a hub and a JOIN from `joinread` on), and that
WASI's `accept` is detecting one connection only. Theorems: `ListenerTypeCorrect`,
`RoutedCorrectly`, `NoneTurnedAway`.

`SshSessionProofs`. `SessionInv == LineTypes /\ AcceptInv /\ LineInv`. A
connection's channels form a line: those served, the one that `next_channel` has
in `taking`, those queued. `LineInv` says that the line is in the order of the
opens and that a channel which is in it no more was abandoned or is gone. "Exactly
one place" (`NoneForgotten`) follows because the order is strict and a channel is
opened once; `ReturnedInOrder` is its first part. `QueuesAreBounded`: handlers
refuse at the bound, they never wait.

`NothingLost` is about the content of the channels. `SurfaceInv` adds how far a
channel has got (`StageInv`: nothing but a request is first on the way to a server
that `next_channel` has not returned, and a client reads only after its open), what
a reader's call can have about it (`CallInv`: `pending` and one resize belong to
`recv`, and `recv` takes no event while a chunk is left), and `DeliveryInv`: what
was said is what was given followed by what is to come. For the client of a pty
channel something may be missing in front of it, which is what `wait_for_reply`
passed over, and only before the first message that is given. `recv` moves bytes
from a message to `pending` and from there to the caller, whatever the buffer's
length; `Only`, `Stream` and `Geometry` turn an appended sequence into an appended
result (`OnlyConcat` and its like), so each such step leaves the equation as it was.
The proofs count positions with `Cardinality` instead of going through the sequence.
`FeedTypes` are the types of the channels; `SessionTypeCorrect` follows from them
and `SessionInv`.

`RtcExchangeProofs`. The three properties of an exchange are about the order of
messages in two FIFO lines, so the first part is lemmas on what such a line holds
when it is appended to, consumed or cut. `RtcInv` says, besides types, how far
`connect` has got from what it has done (`Control`), who has closed and who has
noticed (`Links`, `LossInv`), that the answer is in front of every candidate
(`AnswerInv`), and that every candidate sent has arrived or is on its way in front
of its ICE_DONE (`CandInv`). Theorems: `ExchangeTypeCorrect`, `AnswerReachesFirst`,
`LossIsReal`, `EveryCandidateApplied` for a relay that does not append a newline,
and for the hub's relay `NoCandidateThroughHub`, which makes the counterexample of
`rtc_hub_candidates` a fact of every execution.

`StunExchangeProofs`. The accounts: `AccountInv` says of each server that requests
are answers, errors, hand-overs, failures and the replies being sent, and that free
and held slots make up the limit. An action disturbs the books of one server only
(`OthersRest`), and one lemma per kind of connection step says what it does to the
two cardinalities (`EveryRequestAccounted`). The reports: `ProbeInv` follows the
mapped address through the network. Whatever carries a transaction's identifier
(a request, the reply a loop is sending, an event handed to the other server, an
answer) names the mapping the NAT made for that transaction's target, and no
stranger's datagram carries an identifier in use (`Messages`). What the prober
records is therefore `MappedTo` of the server it asked, and during the tests of the
filter it has contacted nobody else, so whom the NAT let in tells its filter
(`HeardIsRight`). `ReportsAreTrue` follows by cases on the NAT's mapping
(`ClassifiedTrue`). The exceptions in the property are needed: the proof attempt
showed that one server given twice is reported endpoint-independent behind any NAT
(`stun_native.rs:262` only counts them).

`QuietNetworkIsRight` is the converse: with nothing lost, doubled, forged or timed
out too early, the report is the NAT's own kind or says why this server cannot tell:
for servers that are not `TooAlike`, and with a NAT's absence told from
endpoint-independence only on a socket bound to an address. The invariant needs more
than the property says, for a report does not forget what it was given:
`QuietReport` is what the code reports in the exceptional cases too, and
`QuietReportIsExact` draws the property from it. It needs to know what a server will
make of each request, so the first lemmas say what the decoders find in what the
encoders wrote (`RequestDecoded`, `SuccessDecoded`, `ErrorDecoded`), the next what
`route_change` decides and which datagrams can come of it (`VerdictIs`,
`AnswersAre`): an answer from the address asked, from the other server, from the
other port, or a refusal. The NAT lets in all of a transaction's answers or none
(`AllOrNone`). `QuietInv` says that whatever carries the identifier of the
transaction under way is its request or on the way to one of its answers
(`OwnTraffic`), that a prober that waits has something under way or waits for what
the NAT will never let in (`Expected`), and why `detect_filtering` has come as far
as it has (`Reached`). So a timeout that overtakes nothing means silence, and each
transaction has the one outcome (`ExactOutcome`) from which the classification
follows (`ClassifiedExact`, `FilteringExact`).

The types (`ExchangeTypeCorrect`) need both invariants and four facts more
(`ExchangeTypes`): a refusal under way has one of the two codes the servers send, so
that `ServerError` is of its type; an identifier under way is that of a transaction
begun; the prober is about to send only while an attempt is left, and has no more
probes than targets; a connection's box of replies stays within what the socket
holds. The slots are within their limit because free and held ones make it up.

`FrameStreamProofs`. First frames and lines: `BytesInOrder` compares neighbours; a
proof has to cut the stream anywhere, so `Orderly` says the same without steps from
byte to byte: behind a byte stand the others of its unit at their places (`Runs`),
behind the last of a unit the first of the next (`Joins`). Both are about any two
places, hence closed under taking a part, under putting the next unit behind
(`Send`), and under cutting a unit or its first lines off the front (`RecvFrame`,
`RecvSignal`), without an induction over the bytes. `FrameInv` adds where in the
units sent the receiver is (`TakenInv`: taken, queued and in hand are the first
`Taken` of them), that the stream goes on from there and, on an open connection,
runs to the end of the last unit (`StreamInv`), which of the six places can hold
bytes under each transport (`LinkInv`: only an open socket has bytes on its wire,
only a detected one has some to replay) and what a receiver that failed had been
given (`FailedInv`). The steps that move bytes from one place to the next leave
`Stream` as it is; most of the proof is that, transport by transport. The steps of
`FrameQueue` come from `TakenInv`: a popped frame is the next that was sent. The
proof attempt showed that `FrameQueue` promised too little: for a bridge one read may
complete several writes.

The bounds on memory rest on `MemoryInv == BufferInv /\ InboxInv /\ ReadInv`. The
byte count of the inbound queue is a sum over a sequence; `Counted` gives each
position what is still to be added behind it, and says besides that this never
grows along the queue, so that a push and a pop are one step each and the count
stays under its cap without an induction. The receive buffer keeps its bound
because a read starts only when no whole frame is in it (`RoomToRead`); the data
channel's queue keeps its bound because `on_message` waits for room and what it
then queues begins one message (`OnMessageFits`).

The bridge needs another argument, because its reader may stop inside a write, and
because a write whose future was dropped is sent again from its head, after bytes
of it that are already on the wire: then places repeat, and neither `Runs` nor
`Joins` holds. But a write is sent again only while bytes of it are unwritten, so
what is repeated never contains its last byte. `Numbered` says which write a byte
belongs to by counting the last bytes in front of it; that survives a resend, and
since the count over a sequence is the sum of the counts over its parts
(`EndsJoined`), the stream can be cut anywhere, again without an induction.
`BridgeInv` says that the units sent are 1, 2, 3 and so on, that what waits to be
written is a tail of the last of them (`WriterInv`), and that the reader has the
first `Len(out)`, the bytes on the way are numbered from there, run out at the last
unit while the connection is open and, when nothing was sent again, follow each other
place by place from where the reader is (`ReaderInv`). One read may complete several
units; `UnitsInTurn` shows that they are the next ones in order, the step `Deliver`
of `FrameQueue`. That holds with `resent` too: a reader of a connection on which a
write was repeated gets the end of every write once, only its bytes may be too many.

`StackInv` puts the two invariants together. Theorems: `StreamIsIntact`,
`StackImplementsQueue`, `MemoryIsBounded`, `StreamTypeCorrect`.

Type correctness, every safety invariant of the passing runs and the refinement of
`FrameQueue` are proved. Only model-checked:

- everything temporal under fairness (`JoinIsDecided`, `LeaverIsAnnounced`,
  `QueuedIsDelivered`, `ExchangeCompletes`, `LossEndsExchange`, `RequestIsDecided`,
  `LineMovesOn`, `FramesArrive`, `LossIsNoticed`, `EveryTalkerIsRouted`,
  `ProbeEnds`, `SlotsComeBack`), which is out of the proof system's reach.

## 7. Not modelled

`PROJECT.json` lists every component with the reason. In short: endpoints, paths and
identities are tables, parsers and constructors without state, which unit tests
settle; the facade dispatches, the library root re-exports, the binaries drive the
library. Inside modelled components: message text and `SdpBuilder`; HMAC and the
counters of authentication; key loading, host-key verification and key identities;
name resolution, binding and address-family conversions; URL parsing and socket
options; logging; `path_info` and the ICE agent's choice of pairs; the bridge over
empty messages. WebRTC negotiation over TCP signaling connections, where the native
`recv_signal` takes whatever one `recv` returns for one message
(`rtc_native.rs:505-517`); what `from_utf8_lossy` makes of a character that a chunk
of the hub cuts; a connection that is lost and reports nothing (half-open).
`WebSocket` ping, pong and text messages do not change what `recv` returns for
frames. Some hazards listed in `PROJECT.json` have no property; each says why.
