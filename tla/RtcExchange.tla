----------------------------- MODULE RtcExchange -----------------------------
(***************************************************************************)
(* The negotiation of a WebRTC connection: two peers that were told READY  *)
(* exchange an offer, an answer, ICE candidates and ICE_DONE through the   *)
(* signaling relay, until the data channel opens.  Each peer runs one of   *)
(* three implementations, which meet in any pair:                          *)
(*   native    rtc_native.rs  waits for local candidates and for the peer  *)
(*                            at the same time                             *)
(*   browser   rtc_browser.rs sends its candidates between two receives,   *)
(*                            and ICE_DONE once it has the peer's          *)
(*   wasi      rtc_wasi.rs    has no WebRTC: a fixed description and       *)
(*                            candidate, then data through the relay       *)
(*                                                                         *)
(* The relay is the hub between two matched peers (module SignalingHub):   *)
(* one FIFO per direction, then PEER_LEFT.  It appends a newline to a line *)
(* without one, which makes a candidate or base64 payload unparseable.     *)
(* The signaling connections are WebSockets, one message to a receive; the *)
(* hub notices when one breaks.  It may match a peer with one that is gone.*)
(***************************************************************************)
EXTENDS Integers, Sequences

CONSTANTS
  Pairings,             \* the pairs of implementations <<offerer, answerer>>
  MaxIce,               \* bound: the candidates an agent gathers
  MaxData,              \* bound: the DATA messages a wasi peer sends
  RelayAppendsNewline,  \* the hub; FALSE is a relay that forwards text as is
  TimeoutsHappen,       \* whether the browser's 30 s receive may expire
  CrashesHappen         \* whether a peer may vanish

Platform == {"native", "browser", "wasi"}

ASSUME RtcAssumption ==
  /\ Pairings \subseteq Platform \X Platform
  /\ MaxIce \in Nat \ {0} /\ MaxData \in Nat
  /\ RelayAppendsNewline \in BOOLEAN
  /\ TimeoutsHappen \in BOOLEAN /\ CrashesHappen \in BOOLEAN

Peer == {"offerer", "answerer"}
Other(p) == IF p = "offerer" THEN "answerer" ELSE "offerer"

VARIABLES
  platform,     \* peer -> its implementation
  stage,        \* peer -> how far connect has got
  why,          \* peer -> the error connect returned
  link,         \* peer -> its signaling connection: open, cut by the hub, left
  orphan,       \* peer -> it sent a line after the other peer had left
  chan,         \* peer -> the messages on their way to it, oldest first
  gather,       \* peer -> its ICE agent: idle, running, over
  gathered,     \* peer -> how many candidates the agent has produced
  forwarded,    \* peer -> how many of them it has sent
  described,    \* peer -> the remote description is set
  local_done,   \* peer -> it has sent ICE_DONE
  remote_done,  \* peer -> it has taken the other's ICE_DONE into account
  pending_ice,  \* peer -> candidates held back until the offer arrives
  applied,      \* peer -> candidates given to its ICE agent
  open,         \* the data channel is open
  said,         \* peer -> DATA messages sent through the relay
  heard         \* peer -> DATA messages received through the relay

iceVars  == <<gather, gathered>>
flagVars == <<described, local_done, remote_done>>
iceIn    == <<pending_ice, applied>>
dataVars == <<said, heard>>
vars == <<platform, stage, why, link, orphan, chan, iceVars, forwarded,
          flagVars, iceIn, open, dataVars>>

Kinds == {"OFFER", "ANSWER", "ICE", "ICE_DONE", "PEER_LEFT", "DATA"}
Msg(k) == [kind |-> k, n |-> 0, ok |-> TRUE]

(* A message whose payload the receiver parses strictly arrives unusable   *)
(* when the relay has appended a newline to it.  A description ends with a *)
(* newline of its own, and the other payloads are empty.                   *)
Payload(k, n) == [kind |-> k, n |-> n, ok |-> ~RelayAppendsNewline]

Stages == {"describe", "offering", "await", "answering", "exchange", "channel",
           "connected", "failed"}
Reasons == {"none", "peer left", "closed", "signal timeout", "no channel", "crash",
            "unannounced"}

TypeOK ==
  /\ platform \in [Peer -> Platform]
  /\ stage \in [Peer -> Stages]
  /\ why \in [Peer -> Reasons]
  /\ \A p \in Peer : (why[p] # "none") <=> (stage[p] = "failed")
  /\ link \in [Peer -> {"open", "cut", "left"}]
  /\ orphan \in [Peer -> BOOLEAN]
  /\ chan \in [Peer -> Seq([kind : Kinds, n : 0..(MaxIce + MaxData), ok : BOOLEAN])]
  /\ gather \in [Peer -> {"idle", "running", "over"}]
  /\ gathered \in [Peer -> 0..MaxIce]
  /\ forwarded \in [Peer -> 0..MaxIce]
  /\ \A p \in Peer : forwarded[p] <= gathered[p]
  /\ described \in [Peer -> BOOLEAN]
  /\ local_done \in [Peer -> BOOLEAN]
  /\ remote_done \in [Peer -> BOOLEAN]
  /\ pending_ice \in [Peer -> SUBSET (1..MaxIce)]
  /\ applied \in [Peer -> SUBSET (1..MaxIce)]
  /\ open \in BOOLEAN
  /\ said \in [Peer -> 0..MaxData]
  /\ heard \in [Peer -> 0..MaxData]

(* The hub has matched the two peers.  An offerer may have left before,    *)
(* its slot outlives it; and an answerer may leave before it has its own   *)
(* READY, when its task returns without cleanup_peer.  Neither is followed *)
(* by a PEER_LEFT: the other peer is told READY, and nothing about this.   *)
GoneAtMatch == {{}} \cup (IF CrashesHappen THEN {{p} : p \in Peer} ELSE {})

Init ==
  /\ \E pair \in Pairings :
       platform = [p \in Peer |-> IF p = "offerer" THEN pair[1] ELSE pair[2]]
  /\ \E gone \in GoneAtMatch :
       /\ stage = [p \in Peer |-> IF p \in gone THEN "failed"
                                  ELSE IF p = "offerer" THEN "describe" ELSE "await"]
       /\ why = [p \in Peer |-> IF p \in gone THEN "unannounced" ELSE "none"]
       /\ link = [p \in Peer |-> IF p \in gone THEN "left" ELSE "open"]
  /\ orphan = [p \in Peer |-> FALSE]
  /\ chan = [p \in Peer |-> <<>>]
  /\ gather = [p \in Peer |-> "idle"]
  /\ gathered = [p \in Peer |-> 0]
  /\ forwarded = [p \in Peer |-> 0]
  /\ described = [p \in Peer |-> FALSE]
  /\ local_done = [p \in Peer |-> FALSE]
  /\ remote_done = [p \in Peer |-> FALSE]
  /\ pending_ice = [p \in Peer |-> {}]
  /\ applied = [p \in Peer |-> {}]
  /\ open = FALSE
  /\ said = [p \in Peer |-> 0]
  /\ heard = [p \in Peer |-> 0]

-----------------------------------------------------------------------------
(* Helpers. *)

Native(p)  == platform[p] = "native"
Browser(p) == platform[p] = "browser"
Wasi(p)    == platform[p] = "wasi"

Goto(p, s) == stage' = [stage EXCEPT ![p] = s] /\ UNCHANGED why

Put(f, p, v) == [f EXCEPT ![p] = v]

(* p leaves rest of what is on its way to it and sends msgs; the relay     *)
(* drops a message whose destination is gone.                              *)
Transmit(p, rest, msgs) ==
  LET reaches == link[p] = "open" /\ link[Other(p)] = "open"
  IN /\ chan' = [chan EXCEPT ![p] = rest,
                             ![Other(p)] = IF reaches THEN @ \o msgs ELSE @]
     /\ orphan' = [orphan EXCEPT ![p] = @ \/ (msgs # <<>> /\ link[Other(p)] = "left")]
     /\ UNCHANGED link

Keep(p) == chan[p]

(* The candidates in the queue between the ICE callback and the exchange.  *)
Unsent(p) == [i \in 1..(gathered[p] - forwarded[p]) |->
                Payload("ICE", forwarded[p] + i)]

(* The browser drains that queue at the top of its loops. *)
Drained(p) == IF Browser(p) THEN Unsent(p) ELSE <<>>
MarkDrained(p) ==
  forwarded' = IF Browser(p) THEN Put(forwarded, p, gathered[p]) ELSE forwarded

(* connect returns an error, or returns with the signaling transport       *)
(* dropped: the hub tells the other peer.                                  *)
HangUp(p) ==
  /\ link' = Put(link, p, "left")
  /\ chan' = [chan EXCEPT ![p] = <<>>,
       ![Other(p)] = IF link[p] # "left" /\ link[Other(p)] = "open"
                     THEN Append(@, Msg("PEER_LEFT")) ELSE @]
  /\ UNCHANGED orphan

Fail(p, reason) ==
  /\ stage' = Put(stage, p, "failed")
  /\ why' = Put(why, p, reason)
  /\ HangUp(p)

Untouched == UNCHANGED <<platform, iceVars, flagVars, iceIn, open, dataVars>>

-----------------------------------------------------------------------------
(* The ICE agent: it gathers from the moment the local description is set. *)

StartGathering(p) ==
  /\ gather' = Put(gather, p, IF Wasi(p) THEN "over" ELSE "running")
  /\ gathered' = Put(gathered, p, IF Wasi(p) THEN 1 ELSE 0)

Gather(p) ==
  /\ gather[p] = "running" /\ gathered[p] < MaxIce
  /\ gathered' = Put(gathered, p, gathered[p] + 1)
  /\ UNCHANGED <<platform, stage, why, link, orphan, chan, gather, forwarded,
                 flagVars, iceIn, open, dataVars>>

GatheringEnds(p) ==
  /\ gather[p] = "running"
  /\ gather' = Put(gather, p, "over")
  /\ UNCHANGED <<platform, stage, why, link, orphan, chan, gathered, forwarded,
                 flagVars, iceIn, open, dataVars>>

(* Two WebRTC agents with both descriptions connect once one of them knows *)
(* a candidate of the other (it may happen while either still exchanges).  *)
DataChannelOpens ==
  /\ ~open
  /\ \A p \in Peer : ~Wasi(p) /\ described[p] /\ stage[p] # "failed"
  /\ \E p \in Peer : applied[p] # {}
  /\ open' = TRUE
  /\ UNCHANGED <<platform, stage, why, link, orphan, chan, iceVars, forwarded,
                 flagVars, iceIn, dataVars>>

-----------------------------------------------------------------------------
(* Descriptions. *)

CreateOffer(p) ==
  /\ stage[p] = "describe"
  /\ StartGathering(p)
  /\ Goto(p, "offering")
  /\ UNCHANGED <<platform, link, orphan, chan, forwarded, flagVars, iceIn, open,
                 dataVars>>

SendOffer(p) ==
  /\ stage[p] = "offering"
  /\ Transmit(p, Keep(p), <<Msg("OFFER")>> \o Drained(p))
  /\ MarkDrained(p)
  /\ Goto(p, "exchange")
  /\ Untouched

(* Both flags and the description: the loop of a peer that announces the   *)
(* end of its own candidates by itself is over.                            *)
Complete(p) ==
  /\ stage[p] = "exchange" /\ ~Browser(p)
  /\ described[p] /\ local_done[p] /\ remote_done[p]

(* A peer takes its next message.  The wasi peer reads only after it has   *)
(* sent everything; a native one that is done leaves first.                *)
Receives(p, k) ==
  /\ stage[p] \in {"await", "exchange"}
  /\ chan[p] # <<>> /\ Head(chan[p]).kind = k
  /\ ~Complete(p)
  /\ (Wasi(p) /\ stage[p] = "exchange") => local_done[p]

(* What the browser sends before it blocks for the next message. *)
Reply(p) == IF stage[p] = "exchange" THEN Drained(p) ELSE <<>>
Replied(p) == IF stage[p] = "exchange" THEN MarkDrained(p) ELSE UNCHANGED forwarded

ReceiveOffer(p) ==
  /\ stage[p] = "await" /\ Receives(p, "OFFER")
  /\ Transmit(p, Tail(chan[p]), <<>>)
  /\ described' = Put(described, p, TRUE)
  /\ pending_ice' = Put(pending_ice, p, {})
  /\ applied' = Put(applied, p, applied[p] \cup pending_ice[p])
  /\ StartGathering(p)
  /\ Goto(p, "answering")
  /\ UNCHANGED <<platform, forwarded, local_done, remote_done, open, dataVars>>

SendAnswer_AfterCandidates(p) ==   \* mutant: what was gathered goes first
  /\ stage[p] = "answering"
  /\ Transmit(p, Keep(p), Unsent(p) \o <<Msg("ANSWER")>>)
  /\ forwarded' = Put(forwarded, p, gathered[p])
  /\ Goto(p, "exchange")
  /\ Untouched

SendAnswer(p) ==
  /\ stage[p] = "answering"
  /\ Transmit(p, Keep(p), <<Msg("ANSWER")>> \o Drained(p))
  /\ MarkDrained(p)
  /\ Goto(p, "exchange")
  /\ Untouched

ReceiveAnswer(p) ==
  /\ stage[p] = "exchange" /\ Receives(p, "ANSWER")
  /\ Transmit(p, Tail(chan[p]), Reply(p))
  /\ Replied(p)
  /\ described' = Put(described, p, TRUE)
  /\ UNCHANGED <<platform, stage, why, iceVars, local_done, remote_done, iceIn,
                 open, dataVars>>

-----------------------------------------------------------------------------
(* Candidates. *)

ForwardCandidate(p) ==
  /\ stage[p] = "exchange" /\ ~Browser(p) /\ ~Complete(p)
  /\ forwarded[p] < gathered[p]
  /\ Transmit(p, Keep(p), <<Payload("ICE", forwarded[p] + 1)>>)
  /\ forwarded' = Put(forwarded, p, forwarded[p] + 1)
  /\ UNCHANGED <<platform, stage, why, iceVars, flagVars, iceIn, open, dataVars>>

SendDone(p) ==
  /\ stage[p] = "exchange" /\ ~Browser(p) /\ ~local_done[p]
  /\ gather[p] = "over"
  /\ Transmit(p, Keep(p), <<Msg("ICE_DONE")>>)
  /\ local_done' = Put(local_done, p, TRUE)
  /\ UNCHANGED <<platform, stage, why, iceVars, forwarded, described,
                 remote_done, iceIn, open, dataVars>>

LocalDone_OnceRemoteIs(p) ==   \* mutant: each waits for the other to be done
  forwarded[p] = gathered[p] /\ remote_done[p] /\ SendDone(p)

LocalDone_Early(p) ==   \* mutant: ICE_DONE overtakes the last candidate
  forwarded[p] + 1 >= gathered[p] /\ SendDone(p)

(* The agent has finished and its queue is empty. *)
LocalDone(p) == forwarded[p] = gathered[p] /\ SendDone(p)

(* A candidate that does not parse is dropped without a word, and the wasi *)
(* peer only notes it.  On a browser that has no description yet           *)
(* addIceCandidate would fail and end the exchange; AnswerComesFirst says  *)
(* that it cannot happen, so there is no action for it.                    *)
Usable(p) == Head(chan[p]).ok /\ ~Wasi(p)

ReceiveCandidate(p) ==
  LET n == Head(chan[p]).n
      takes(s) == IF Usable(p) THEN Put(s, p, s[p] \cup {n}) ELSE s
  IN
  /\ Receives(p, "ICE")
  /\ described[p] \/ stage[p] = "await" \/ ~Browser(p) \/ ~Usable(p)
  /\ Transmit(p, Tail(chan[p]), Reply(p))
  /\ Replied(p)
  /\ applied' = IF described[p] THEN takes(applied) ELSE applied
  /\ pending_ice' = IF stage[p] = "await" THEN takes(pending_ice) ELSE pending_ice
  /\ UNCHANGED <<platform, stage, why, iceVars, flagVars, open, dataVars>>

-----------------------------------------------------------------------------
(* The end of the exchange. *)

(* The native peer records ICE_DONE whenever it comes; the others heed it  *)
(* only once they have the description.                                    *)
ReceiveDone(p) ==
  /\ Receives(p, "ICE_DONE")
  /\ ~(Browser(p) /\ stage[p] = "exchange" /\ described[p])
  /\ Transmit(p, Tail(chan[p]), Reply(p))
  /\ Replied(p)
  /\ remote_done' = Put(remote_done, p,
       remote_done[p] \/ Native(p) \/ (described[p] /\ stage[p] = "exchange"))
  /\ UNCHANGED <<platform, stage, why, iceVars, described, local_done, iceIn,
                 open, dataVars>>

(* The browser leaves its loop: it sends ICE_DONE, then what was gathered  *)
(* while it was blocked.                                                   *)
BrowserFinish(p, rest) ==
  /\ Transmit(p, rest, <<Msg("ICE_DONE")>> \o Drained(p))
  /\ MarkDrained(p)
  /\ local_done' = Put(local_done, p, TRUE)
  /\ Goto(p, "channel")
  /\ UNCHANGED <<platform, iceVars, described, iceIn, open, dataVars>>

BrowserReceivesDone(p) ==
  /\ Receives(p, "ICE_DONE") /\ Browser(p)
  /\ stage[p] = "exchange" /\ described[p]
  /\ remote_done' = Put(remote_done, p, TRUE)
  /\ BrowserFinish(p, Tail(chan[p]))

FinishExchange_NoLocal(p) ==   \* mutant: leaves on the peer's ICE_DONE
  /\ stage[p] = "exchange" /\ ~Browser(p) /\ described[p] /\ remote_done[p]
  /\ Goto(p, IF Wasi(p) THEN "connected" ELSE "channel")
  /\ UNCHANGED <<link, orphan, chan, forwarded>> /\ Untouched

FinishExchange(p) ==
  /\ Complete(p)
  /\ Goto(p, IF Wasi(p) THEN "connected" ELSE "channel")
  /\ UNCHANGED <<link, orphan, chan, forwarded>> /\ Untouched

(* In its last loop an answerer that is not native goes on after PEER_LEFT.*)
EndsOnPeerLeft(p) == Native(p) \/ p = "offerer" \/ stage[p] = "await"

ReceivePeerLeft_OnlyBeforeDone(p) ==   \* mutant: ignored once local_done
  /\ Receives(p, "PEER_LEFT") /\ EndsOnPeerLeft(p)
  /\ IF local_done[p]
     THEN Transmit(p, Tail(chan[p]), <<>>) /\ UNCHANGED <<stage, why>>
     ELSE Fail(p, "peer left")
  /\ Untouched /\ UNCHANGED forwarded

ReceivePeerLeft(p) ==
  /\ Receives(p, "PEER_LEFT") /\ EndsOnPeerLeft(p)
  /\ Fail(p, "peer left")
  /\ Untouched /\ UNCHANGED forwarded

IgnorePeerLeft(p) ==
  /\ Receives(p, "PEER_LEFT") /\ ~EndsOnPeerLeft(p)
  /\ Transmit(p, Tail(chan[p]), Reply(p))
  /\ Replied(p)
  /\ UNCHANGED <<stage, why>> /\ Untouched

(* recv_signal yields nothing more: the hub has cut the connection, or the *)
(* browser has waited for 30 s.  The browser's answerer takes any error in *)
(* its last loop for the end of the candidates.                            *)
SignalFails(p, reason) ==
  /\ stage[p] \in {"await", "exchange"} /\ ~Complete(p) /\ chan[p] = <<>>
  /\ IF Browser(p) /\ p = "answerer" /\ stage[p] = "exchange"
     THEN BrowserFinish(p, <<>>) /\ UNCHANGED remote_done
     ELSE Fail(p, reason) /\ Untouched /\ UNCHANGED forwarded

SignalClosed(p) == link[p] = "cut" /\ SignalFails(p, "closed")

SignalTimeout(p) ==
  /\ TimeoutsHappen /\ Browser(p) /\ link[p] = "open"
  /\ SignalFails(p, "signal timeout")

-----------------------------------------------------------------------------
(* The data channel. *)

Established(p) ==
  /\ stage[p] = "channel" /\ open
  /\ Goto(p, "connected")
  /\ HangUp(p)
  /\ Untouched /\ UNCHANGED forwarded

ChannelTimeout(p) ==
  /\ stage[p] = "channel" /\ ~open
  /\ Fail(p, "no channel")
  /\ Untouched /\ UNCHANGED forwarded

(* The browser's offerer goes on draining while it waits for the channel.  *)
DrainWhileOpening(p) ==
  /\ stage[p] = "channel" /\ Browser(p) /\ p = "offerer"
  /\ Unsent(p) # <<>>
  /\ Transmit(p, Keep(p), Drained(p))
  /\ MarkDrained(p)
  /\ UNCHANGED <<stage, why>> /\ Untouched

(* The wasi peer keeps the signaling connection and wraps data in DATA. *)
WasiSend(p) ==
  /\ stage[p] = "connected" /\ Wasi(p) /\ said[p] < MaxData
  /\ Transmit(p, Keep(p), <<Payload("DATA", said[p] + 1)>>)
  /\ said' = Put(said, p, said[p] + 1)
  /\ UNCHANGED <<platform, stage, why, iceVars, forwarded, flagVars, iceIn, open,
                 heard>>

(* recv skips every other message, and DATA that does not decode. *)
WasiRecv(p) ==
  /\ stage[p] = "connected" /\ Wasi(p)
  /\ chan[p] # <<>> /\ Head(chan[p]).kind # "PEER_LEFT"
  /\ Transmit(p, Tail(chan[p]), <<>>)
  /\ heard' = IF Head(chan[p]).kind = "DATA" /\ Head(chan[p]).ok
              THEN Put(heard, p, heard[p] + 1) ELSE heard
  /\ UNCHANGED <<platform, stage, why, iceVars, forwarded, flagVars, iceIn, open,
                 said>>

WasiClosed(p) ==
  /\ stage[p] = "connected" /\ Wasi(p)
  /\ chan[p] # <<>> /\ Head(chan[p]).kind = "PEER_LEFT"
  /\ Fail(p, "peer left")
  /\ Untouched /\ UNCHANGED forwarded

-----------------------------------------------------------------------------
(* Faults. *)

(* The peer's process or connection dies; the end of what it sent is lost. *)
Crash(p) ==
  /\ CrashesHappen /\ stage[p] \notin {"connected", "failed"}
  /\ stage' = Put(stage, p, "failed")
  /\ why' = Put(why, p, "crash")
  /\ link' = Put(link, p, "left")
  /\ \E i \in 0..Len(chan[Other(p)]) :
       chan' = [chan EXCEPT ![p] = <<>>,
         ![Other(p)] = IF link[p] = "open" /\ link[Other(p)] = "open"
                       THEN Append(SubSeq(@, 1, i), Msg("PEER_LEFT")) ELSE @]
  /\ Untouched /\ UNCHANGED <<orphan, forwarded>>

(* A line for a peer whose task is gone makes the hub end the sender's     *)
(* task too, with whatever is still in its channel.                        *)
HubCuts(p) ==
  /\ orphan[p] /\ link[p] = "open"
  /\ link' = Put(link, p, "cut")
  /\ \E i \in 0..Len(chan[p]) : chan' = Put(chan, p, SubSeq(chan[p], 1, i))
  /\ UNCHANGED <<stage, why, orphan, forwarded>> /\ Untouched

-----------------------------------------------------------------------------
Agent(p) == Gather(p) \/ GatheringEnds(p)

Receive(p) == \/ ReceiveOffer(p) \/ ReceiveAnswer(p) \/ ReceiveCandidate(p)
              \/ ReceiveDone(p) \/ BrowserReceivesDone(p)
              \/ ReceivePeerLeft(p) \/ IgnorePeerLeft(p) \/ SignalClosed(p)

Connect(p) == \/ CreateOffer(p) \/ SendOffer(p) \/ SendAnswer(p)
              \/ ForwardCandidate(p) \/ LocalDone(p) \/ Receive(p)
              \/ FinishExchange(p) \/ Established(p) \/ DrainWhileOpening(p)

Data(p) == WasiSend(p) \/ WasiRecv(p) \/ WasiClosed(p)

Next == \/ DataChannelOpens
        \/ \E p \in Peer : \/ Agent(p) \/ Connect(p) \/ Data(p) \/ Crash(p)
                           \/ HubCuts(p) \/ SignalTimeout(p) \/ ChannelTimeout(p)

Spec == Init /\ [][Next]_vars

(***************************************************************************)
(* Fairness: an agent finishes gathering, and a peer that can take a step  *)
(* takes one.  A timeout or a crash need never come, nor the hub cut a     *)
(* connection; except that the task of a peer whose lines go to a receiver *)
(* dropped before the first of them runs, finds it so and ends.            *)
(***************************************************************************)
Unannounced(p) == why[p] = "unannounced"

FairSpec == Spec /\ \A p \in Peer :
              /\ WF_vars(Agent(p)) /\ WF_vars(Connect(p))
              /\ WF_vars(WasiRecv(p) \/ WasiClosed(p))
              /\ WF_vars(Unannounced(Other(p)) /\ HubCuts(p))
-----------------------------------------------------------------------------
(* Safety. *)

(* The exchange of a peer is over. *)
Over(p) == stage[p] \in {"channel", "connected", "failed"}

(* The comment above next_ice_event: waiting on both sources "is what      *)
(* makes this trickle ICE".  A peer whose exchange with a native or wasi   *)
(* peer is over has given its agent every candidate the other gathered:    *)
(* none was sent after ICE_DONE, overtook the description or was dropped.  *)
CandidatesComplete ==
  \A p \in Peer :
    (remote_done[p] /\ described[p] /\ ~Wasi(p) /\ ~Browser(Other(p)))
      => applied[p] = 1..gathered[Other(p)]

(* No candidate reaches the offerer before the answer does: it would be    *)
(* lost on a native peer and end the exchange of a browser.                *)
AnswerComesFirst ==
  LET line == chan["offerer"] IN
     \A i, j \in DOMAIN line :
       (line[i].kind = "ICE" /\ line[j].kind = "ANSWER") => j < i

(* The side that finishes first drops its signaling connection while the   *)
(* other may still be exchanging.  That never looks like a failure to the  *)
(* other: it fails for a lost peer only when the peer has failed, or is a  *)
(* browser that gave up its wait for ICE_DONE.                             *)
NoFalseLoss ==
  \A p \in Peer : why[p] \in {"peer left", "closed"} =>
    \/ stage[Other(p)] = "failed"
    \/ Browser(Other(p)) /\ ~remote_done[Other(p)]

-----------------------------------------------------------------------------
(* Liveness. *)

(* "both sides waiting is the deadlock" (rtc_native.rs): unless a peer     *)
(* fails, both exchanges end, and no timeout has to help; except between   *)
(* two browsers (NoTimeoutWhileOpen).                                      *)
ExchangeCompletes ==
  \A p \in Peer : <>(\/ Over(p) \/ stage[Other(p)] = "failed"
                     \/ \A q \in Peer : Browser(q))

(* A native peer, whose receive has no time limit, does not wait for a     *)
(* peer that is gone: wherever the other disappears once both were told    *)
(* READY, PEER_LEFT or the end of its connection ends its exchange, and an *)
(* offerer's also when the answerer went before it was told.  Excepted is  *)
(* what the code gets wrong: an answerer matched with an offerer that had  *)
(* left (signaling_hub.rs:181) is never told and waits for ever.           *)
LossEndsExchange ==
  \A p \in Peer : <>(Native(p) => Over(p) \/ (p = "answerer" /\ Unannounced("offerer")))

-----------------------------------------------------------------------------
(* What the documentation and comments say and the code does not do. *)

(* "Non-blocking check for more signaling messages. We use a short timeout *)
(* since the data channel may already be opening" (rtc_browser.rs): two    *)
(* browsers whose data channel is open do not fail for want of ICE_DONE.   *)
NoTimeoutWhileOpen ==
  \A p \in Peer : why[p] = "signal timeout" => ~open

(* "relays SDP/ICE messages between peers" (signaling_hub.rs): a candidate *)
(* that crosses the hub is one the other peer can use.                     *)
RelayedCandidatesApply ==
  \A p \in Peer :
    (stage[p] = "channel" /\ Native(p) /\ Native(Other(p)))
      => applied[p] = 1..gathered[Other(p)]
=============================================================================
