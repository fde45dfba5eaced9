# Charoite in TLA+

Charoite is a WebRTC SFU for IoT devices. An *edge* device (`charoite
livestream`) publishes up to two video streams, DRONE and MONITOR, to the
*cloud* (`charoite broadcast`), which distributes them to *viewers* in browsers.
Edge and cloud signal over MQTT, viewers and cloud over a WebSocket, and all
media goes through pion's WebRTC. This directory holds TLA+ models of that
system, TLC runs over small instances of them, and TLAPS proofs.

`PROJECT.json` lists components, runs, mutants, the map from definitions to
lines, findings, hazards and theorems. This file is the guide to them.

## 1. The system

### 1.1 Components

| component | state it keeps | operations | talks to |
|---|---|---|---|
| broadcast service (`internal/broadcast/broadcast.go`) | `sessions`, a `sync.Map` from machine id + track source to the local track | `Broadcast` starts the two below and an HTTP server | shares `sessions` with both |
| cloud publisher (`internal/broadcast/publisher`) | nothing of its own | `handleMessage` for an MQTT offer, `registerSession`, `sendCandidate`, `recvCandidate` | MQTT, one `WebRTC` per offer |
| subscriber (`internal/broadcast/subscriber`) | `counter`, a plain map of viewer counts | `processMessage` per WebSocket, `updateCounter`, `notifySubscriptions` | browsers, MQTT, `sessions`, one `WebRTC` per offer |
| WebRTC peer (`internal/broadcast/webrtc`) | `SignalChan`, `pendingCandidates`, `connectionCounter` and a mutex for each of the last two | `CreatePublisher`, `CreateSubscriber`, `signalPeerConnection`, `addICECandidates`, the ICE callbacks | pion; calls back `registerSession`, `updateCounter` |
| edge publisher (`internal/livestream/publisher.go`, `signal.go`) | `pendingCandidates`, `isLivestreamStarted`, two mutexes, the context of the stream | `Publish`, `createPeerConnection`, `recvAnswer`, `recvCandidate`, `signalCandidate`, `handleICEConnectionStateChange`, `listenSubscriber` | MQTT, pion, a source |
| sources (`rtp.go`, `rtsp.go`, `rtmp.go`) | a listener or a session | `rtpListener`, `consumeRTSP`, `consumeRTMP` | the edge publisher's track |
| MQTT client (`pkg/mqttclient`) | paho's | `NewClient` (unordered handlers), `CheckConnectivity` | the broker |
| encoding (`internal/pb/signal`) | none | `EncodeSDP`, `DecodeSDP`, candidates likewise | everyone who signals |
| TURN (`internal/turn`), commands (`cmd`), HTTP error codes, test page | none, flags, none, candidates before the answer | start, parse, reply, play | |

### 1.2 Interactions

1. The edge subscribes to its answer and candidate topics and publishes an
   offer. The cloud's `handleMessage` creates a peer, publishes the answer, and
   both sides trickle candidates over MQTT.
2. The first link of that peer makes the ICE callback put the track into
   `sessions`.
3. A viewer's `video-offer` finds the track there and gets a peer of its own;
   the answer and candidates of both sides share the WebSocket.
4. The first link of a viewer's peer, and its loss, change the count of the
   stream, which is published over MQTT.
5. The edge starts its source on a count above zero and cancels it on zero.
6. A failed or closed link makes the edge begin again with 1.

### 1.3 What is hard about it

Every arrow above is asynchronous. pion starts a goroutine per ICE callback,
paho one per message (`SetOrderMatters(false)`), and answers, candidates and
counts are lost, late or overtaken. The two mutexes of a cloud peer belong to
one peer, while the count they guard belongs to the stream. On the edge an
attempt times out while its answer is on the way, and all attempts share the
topics and `pendingCandidates`. Channels of capacity 1 and 2 carry everything
between goroutines, and a send on a full one blocks for good. A panic or a fatal
runtime error in any goroutine ends the process (`restart: always` in
`docker-compose.yml` starts it again, from nothing: no state is persisted).

### 1.4 What makes each component correct

* service: a viewer only gets a track that was connected; an edge that comes
  back takes the place of its dead track; the count of a stream is the number of its connected
  viewers, and the edge is told that number last.
* cloud peer: every offer is answered or refused; candidates are added only
  after the remote description, and sent once each.
* viewer WebSocket: no candidate is lost or overtaken in the channels, the loop
  never wedges, and nothing is left running when the socket is gone.
* edge attempts: one at a time, unless a flush of candidates has failed, each
  with its own answer, and never the last one.
* edge candidates: each is sent once, to somebody who has been answered.
* on-demand stream: it runs when somebody watches, and once; otherwise the
  context it was started in is cancelled, and this comes about again after either
  process has been restarted. A stream that reads its context too late has
  another one and runs on (finding 3).
* RTMP source: every slice reaches the track, and every key frame can be decoded
  by a viewer who joins at it.
* viewer page: every candidate is applied once, when there is an answer.

## 2. The modules

Operators have the names of the functions they model where they model a whole
function; otherwise the name says the step. A function is cut into several
actions exactly where another goroutine can come in between. Operators
introduced as *slips* are plausible bugs; no specification uses them, and the
`mutants` of `PROJECT.json` put them in the place of the real operator to show
that a property notices.

### Broadcast

Peers are publishers (an offer of an edge) and viewers (an offer of a browser).
`sessions`, `connectionCounter` and `counter` are the Go variables of these
names; `phase`, `delta` and `val` are the program counter, the parameter and the
local variable of a running `updateCounter`. `phase[p] # "idle"` is also what it
means for the peer's `counterMux` to be locked.

* `PublisherOffer`, `ViewerOffer`: the handlers, signaling in one step (it is
  refined in PeerSignaling). A viewer without a session is turned away.
* `AgentLink`, `AgentFails`, `RemoteCloses`: pion, external. Each report starts a
  callback goroutine, so `pending` counts goroutines by the state they report
  and any of them may run next.
* `HandleConnected`, `HandleDisconnected`, `HandleFailed`, `HandleClosed`: the
  branches of `OnICEConnectionStateChange`, each followed by the comparison
  `CompareCounters`. The counter is a uint32: `Inc` and `Dec` wrap at `UintMod`.
* `CounterLoad`, `CounterStore`, `NotifySubscriptions`: the three steps of
  `updateCounter`, between which another viewer may do any of its own, because
  `counterMux` is the peer's and the map is everyone's. `MapFault` is the Go
  runtime noticing concurrent accesses of the map and ending the process.
* `ClosePanics`: closing the failed peer connection fails, which is a panic.

`raced` and `late` are history variables: streams on which two
read-modify-writes overlapped, and streams where a store came between another
viewer's store and its notice. They let the properties say exactly what holds
in spite of the races.

### PeerSignaling and Trickle

`Trickle` is the abstract promise: a gathered candidate is sent once, and only
when a remote description is known, or its sending fails; with fairness, none is
left behind. `PeerSignaling` is one call of `CreatePublisher` or
`CreateSubscriber`: `step` is the program counter of the caller's goroutine,
which talks to itself through `SignalChan`; the callback of pion and
`addICECandidates` run beside it. `peer` says who made the offer, and with it who reads the remote candidates (`Listening`): for a publisher an MQTT
handler that lives on when signaling fails; for a viewer the very loop that runs
`CreateSubscriber`, which reads none before the offer is settled and none after
an error, because it returns (`subscriber.go:165-168`). `T == INSTANCE Trickle WITH Candidates <- Local`
is the refinement mapping, the other variables having the same names; the run
checks `T!FairSpec`.

### Page

PeerSignaling with the viewer's page, if the offer is a viewer's, at the other
end of the WebSocket (`e2e/broadcast/static/index.html`, the client of the end-to-end test). `Write`
goes with every step of the cloud and puts what `sendCandidate` sent, or the
answer, on `socket`; the listener reads one message per event. `answer` is the
state of the promise of `setRemoteDescription`, so that candidates may be read
between the answer and its success, and `answered` is the page's flag. The cloud
does send candidates before the answer: it starts gathering before it replies.

### Socket

One WebSocket of a viewer: the client's messages on `wire`, the loop of
`processMessage` (`loop = "put"` while it blocks on a full channel), one channel
of two per track source, and a reader per successful offer. The order in which a
client sends is the one of `e2e/broadcast/static/index.html`: candidates come
after an offer for the same track source. A client that did otherwise could
block the loop; the repository has none.

### EdgePublisher

`createPeerConnection` as an attempt with a `stage`, called by `Publish`
(`NoAttempt` in `looping`) or by the retry loop of a `closed` callback (its
attempt in `looping`). An error of the flush (`FlushFails`, `publisher.go:171-173`)
leaves the attempt `"unsent"`: its caller tries again, but its peer connection
stays open and its agent runs, so that its own `closed` callback may start a
second loop beside the first. An error of `closePeerConnection` is a panic
(`ClosePanics`). The handler of `recvAnswer` is two steps, the send and
the deferred unsubscribe-and-close, so that two messages may be inside it at the
same time. The connection to the broker comes and goes (`Connection`), also when
the process starts (`CheckConnectivity` reports no error when its time is up);
without it paho, which is configured without `ResumeSubs`, throws `Subscribe` and
`Unsubscribe` away and the code only logs that. `deaf` is the attempts to which
this happened, between the retry loop's look at the connection and its use. `route` is the handler that has the answer topic: a new subscription
takes it over and any `Unsubscribe` removes it. The `disconnected` branch is
translated as it stands: it locks `stateMux` and unlocks `candidatesMux`.
`Garbled` names the attempts that are answered with something `DecodeSDP`
rejects, by an error or by a panic.

### EdgeTrickle

The candidates of those attempts, as one retry loop makes them, one after the
other (`Begin` needs the previous call to have ended); the details of retries are
left out. Callbacks, handlers and `signalCandidate` of old attempts live on beside
the new one, and a peer connection that a failed flush has left open (`leftOpen`)
goes on gathering. Two loops at a time, which a failed flush and the later loss of
that link may give (`WaitersBounded` of EdgePublisher), are not covered here.
`Candidates` says what pion gathers in which attempt. `Ask` and `AppendPending` are two actions because
the code asks for the remote description before it locks. `T` maps the shared
list and all attempts onto one `Trickle`, with `Answered` as the description;
only its safety is claimed. The fairness is for
`MutexServes`.

### OnDemand

`listenSubscriber` and the goroutine around `liveStream`. `ctx` is the number of
renewals of the variable, so that a context is cancelled iff its number is below
`ctx`; `born` and `bound` say what `ctx` was when a stream was started and when
it read the variable, two different moments. `Kind` is the choice of source that
`NewDronePublisher` and `NewDeportPublisher` make. `IceDisconnected` is the
effect on the flag and `stateMux` of the branch that EdgePublisher models.
`lost`, `overtaken` and `lastSent` are history.

### Charoite

The loop that makes streams on demand: Broadcast, whose module it extends, and
an instance `O` of OnDemand, joined by the topic of the counts. `Notify` is
Broadcast's `NotifySubscriptions` and, if the edge has subscribed by then
(`edge = "listening"`), OnDemand's `Send` of what the edge will make of the
number (`Word`); no notice is retained, so that an edge that listens later hears
of it no more. `CloudRestarts` and `EdgeRestarts` are `restart: always` of
`docker-compose.yml`, after a crash or at any other time: each forgets what its
own process knew (`Forget` is Broadcast's `Init`, `EdgeRestarts` assigns
OnDemand's), and leaves the other's state alone. The edge offers again
(`EdgeOffersAgain`) and subscribes anew. `informed` is history: whether
the edge has heard the newest count last. The promise that nobody's stream runs
comes in two strengths: `UnwatchedContextsCancelled` speaks of the context in which
a stream was started, and holds; `UnwatchedStreamCancelled` of the one it has read,
and does not.

### RtmpVideo

`handler.OnVideo` for several RTMP clients. A NAL unit is a parameter set with a
version or a slice with a size; `plain` says whether its first byte is the one
`OnVideo` looks for (0x67, 0x68), which other profiles' sets need not have.
`Parse` is the loop over the access unit with its comparison of offsets and
lengths (`DoesNotFit`), as a prefix of the units; `Offset`, a recursive function
over the units, is the variable `offset` at the head of the loop. `Keep` is what becomes of `h.sps` and `h.pps`; `Adorn` the sets put in
front of a key frame; `Collect` the sequence header, which appends the PPS to
`h.sps` and stops at the first set it does not recognise. `latest`, `split` and
`shadowed` are history: the sets a client sent last, and the two ways in which it
makes `h.sps` and `h.pps` disagree with them.

## 3. Runs

Every run takes less than three minutes with two workers.

| run | instance | shows |
|---|---|---|
| BroadcastRace | 1 stream, 1 publisher, 2 viewers, 2 link reports each | `LinkAccounted`, `CounterExact`, `AbsoluteCounter`, `LastNoticeCurrent` |
| BroadcastReconnect | 2 publishers of one stream, 1 viewer, fair | `TrackHadLink`, `LinkedPublisherRegistered`, `ReturningEdgeReplaces`, `FailedPeersClose`, `CallbacksFinish` |
| BroadcastLostUpdate | 2 viewers, 1 report each | violated: `AbsoluteCounterAlways` |
| OnDemandRtp | 2 starts, 4 notices, fair | `OneStreamPerContext`, `FlagTruthful`, `FlagFollowsCount`, `CancelledStreamEnds` |
| OnDemandRtmp | 2 starts, 2 notices, fair | violated: `CancelledStreamEnds` |
| EdgeAttempts | 3 attempts, the third answered with garbage, fair | `WaitersBounded`, `OpenPeersBounded`, `AnswersMatch`, `FailuresRetried` |
| PeerTrickle | a publisher or a viewer with its page, 3 local and 3 remote candidates, fair | `Trickles` (refinement), `AddedAfterDescribed`, `AppliedInOrder`, `OfferSettled`, `RemoteCandidatesAdded`, `CandidatesApplied` |
| EdgeCandidates | 2 attempts that gather 1 and 2 candidates, 1 remote one, 1 garbage message, fair | `TricklesSafely` (refinement), `GatheredAccounted`, `OneStrandedAtMost`, `MutexServes` |
| RtmpVideo | 2 clients, one with sets that are not recognised; see 3.1 | `FramesKept`, `KeyFramesStandAlone` |
| Charoite | 1 edge, 1 viewer with 3 link reports, 2 notices, 1 restart | `WatchedStreamRuns`, `UnwatchedContextsCancelled` |
| CharoiteLateRead | the same without restarts | violated: `UnwatchedStreamCancelled` |
| Socket | 2 track sources, 2 offers, 3 candidates each, 1 other message, fair | `CandidatesKept`, `MessagesRead`, `ReadersEnd` |

### 3.1 Bounds

* `MaxReports` bounds the link changes of a peer's agent. Two make a connect and
  a disconnect, whose callbacks run in either order: the counter wraps, and a
  peer is counted in and out. With two viewers every overlap of two updates is
  there. `UintMod` stands for 2^32; the assumption `UintMod > 2 * MaxReports + 2`
  says that the wrapped values do not meet the others, as in the code. The
  theorems need no bound but this one.
* `MaxNotices = 4` allows start, stop, start and one more count, with a loss or a
  reordering anywhere; `Streams` of two is one more than one context may have.
* `MaxAttempts = 3` in EdgePublisher: the first attempt has a different caller
  (`Publish`), the second may be given up, and the third meets what it left
  behind. The last answer is garbled, so that the handlers meet two good ones
  first. Two attempts suffice in EdgeTrickle, which are sequential: the second
  flushes what the first has stranded, and may fail at it.
* In PeerTrickle three remote candidates are one more than a channel of two holds,
  and three local ones may be written before the answer, while its promise is
  pending, and after it. There and in Socket full channels hold their senders back. In EdgeCandidates
  the channel of an attempt is not full: no property of that run depends on a
  handler that waits. What its properties need is a
  second candidate of one attempt behind a stranded one, and callbacks of two
  attempts at a time, hence three local candidates.
* In Charoite one viewer comes, goes and comes again (three link reports), with
  the restart of either process anywhere in between, so that the counts before it,
  the first one after it and a whole round are there; two viewers and their races
  are BroadcastRace's, and too many states here.
* In RtmpVideo slices of size 1 and 6 are shorter and longer than the length
  field of 4, which is what the comparison in the loop depends on; four packets
  are a header, two frames that renew a set and a key frame, and versions 1 and 2
  tell a newer set from an older one.
* Two offers in Socket give two readers of one channel or one each of two.

Deadlock is not checked: each run has bounds that are used up, and the process
may end. What must not block is stated as liveness instead (`CallbacksFinish`,
`OfferSettled`, `RemoteCandidatesAdded`, `MutexServes`, `MessagesRead`,
`ReadersEnd`, `FailuresRetried`).

### 3.2 Fairness

Weak fairness of a goroutine's next step is Go's scheduler; a `sync.Mutex` hands
itself to a waiter after a millisecond (starvation mode), so that waiting for a
mutex is weakly fair too. Timers fire. Beyond that:

* OnDemand assumes that the source keeps sending packets to a running listener:
  `rtpListener` and `consumeRTSP` look at their context only after a packet.
* EdgePublisher assumes that the MQTT client gets connected again and again
  (`ConnectRetry`, paho reconnects) and that the retry loop, which polls without
  sleeping, then sees it: strong fairness of `TryAgain`.
* EdgeTrickle has strong fairness of each attempt's callback: `candidatesMux` is
  given and taken many times, and starvation mode gets each waiter its turn.
  Nothing is assumed of `Begin` or of the broker.
* The fairness of PeerTrickle is stated in Page, over the steps of PeerSignaling
  with what they write: the goroutines run and take the remote candidates that
  arrive, as long as somebody listens for them (`Listening`; a viewer's loop that
  has ended reads no more). The browser's event loop runs.
* Charoite and RtmpVideo claim safety only and assume nothing. A watched stream
  cannot be promised "in the end": a lost count is not repeated.
* Nothing is assumed of pion's reports, of the broker, of the remote peer or of
  the browser.

### 3.3 What the runs found

1. `updateCounter` loses updates (`subscriber.go:247`), although the caller
   announces "Absolute corectness of connections conter".
2. An RTMP stream cannot be cancelled (`rtmp.go:61`), although `liveStream`
   "should listens to ctx.Done".
3. A stream on demand may run with nobody watching: its goroutine reads the
   variable `ctx` when it first runs (`publisher.go:330`), and a zero handled before
   that has renewed it (`publisher.go:318`). It streams until the next zero.

Two more are translated as they stand, without a run: the nil received from an
answer channel that was closed is dereferenced (`TakeNil`, `publisher.go:147`),
although "The caller must check if result in channel is nil" (`signal.go:37`), and
the `disconnected` branch of the edge locks one mutex and unlocks another
(`publisher.go:206-209`), which is fatal, or unlocks the mutex of a running flush,
and leaves `stateMux` locked for good.

The provisos of the properties that hold are as telling:

* `AbsoluteCounter` counts viewers whose *last report* was "connected". A viewer
  whose link fails or is closed by the remote end without being "disconnected"
  first stays counted.
* `AnswersMatch` holds as long as no attempt has returned an error, no subscription thrown
  away and nothing undecodable received; otherwise answers of one attempt may
  describe another, two messages get into the handler of `recvAnswer`, which "is a one time
  subscriber" (`signal.go:36`) but unsubscribes only after the send, or a nil
  answer is dereferenced.
* `OneStrandedAtMost` does not say none: a callback that found no remote
  description may append its candidate after `emptyPendingCandidate`, and it is
  sent by the next attempt or never (`publisher.go:110`).
* `FailuresRetried` is content with an attempt that is signaled. One whose
  `SetRemoteDescription` failed is signaled too (`publisher.go:147`), and no ICE
  callback will ever start it again.
* `UnwatchedContextsCancelled` says nothing of a stream that reads its context
  after a zero was handled; finding 3 is that stream.
* `WatchedStreamRuns` and `UnwatchedContextsCancelled` hold when the edge has heard the
  newest count. After a restart of the cloud an edge streams for nobody until a
  viewer comes and goes; after a restart of the edge a viewer who stays waits
  until another comes or goes; nothing else tells them.
* `KeyFramesStandAlone` needs clients that send SPS and PPS together, and no
  header after a PPS in band: `OnVideo` would leave the old PPS behind the new.
  Sets that `OnVideo` does not recognise are not added to key frames.
* `WaitersBounded` and `OpenPeersBounded` say one *and one more for each flush that
  failed*: such an attempt is retried while its peer connection is open and may
  later be lost and retried once more. `OpenPeersBounded` also excepts attempts that
  returned an error before the offer: their peer connections are never closed.
* `LinkedPublisherRegistered` does not say *which* publisher is registered: a
  late callback of an older one may replace a newer one. `ReturningEdgeReplaces`
  does, but for older ones that are closed, with no callback left to run.
* `LastNoticeCurrent` excepts streams on which a store came between another
  viewer's store and its notice (`late`): there the edge is told the older count
  last (`subscriber.go:255`).
* `FlagFollowsCount` needs notices in order, which MQTT at QoS 0 with unordered
  handlers does not give.
* `CandidatesKept` says that two offers for one track source share its candidates
  out between their peers, so that neither need get them all.
* No property of EdgeTrickle promises that handlers do not panic: a candidate
  message that cannot be decoded closes the channel, and the next one panics.

## 4. Proofs

Eight modules hold theorems, one for each component that has some; TLAPS checks
them for every value of the constants that satisfies the module's `ASSUME`. Each
assumption says what the constants are or what the code makes sure of:
`BroadcastAssumption` that the values of a counter that wrapped below zero stay clear
of the others, that publishers are no viewers and that these are finitely many,
`EdgePublisherAssumption` that garbled answers belong to attempts,
`EdgeTrickleAssumption` that a candidate names the attempt that gathers it and that
nothing is decodable and garbage at once, `CharoiteAssumption` the names of
the track sources and protocols, `PageAssumption` that the answer is no candidate,
`RtmpVideoAssumption` that a frame has NAL units and these are not empty, the others
that bounds are numbers. PeerSignaling assumes nothing. Every invariant that is checked by a
passing run is proved; so are `ReturningEdgeReplaces`, a safety property of
behaviours, and both refinements of Trickle, as far as they are about safety.

**Broadcast.** `TypeCorrect` proves `TypeOK`, one step per action.
`LinksAreAccounted` proves `LinkAccounted`, which is not inductive alone:
reading the unsigned counter as a signed one needs a bound on the callbacks that
still wait (`PendingBound`), and that reports alternate is in the agent's state
(`IceLinked`). `LinkInv` is their conjunction. Lemma `LinkChanges` says that a
step changes the sum of one peer in one of three ways at most: a report and its
callback, a callback and the counter, or not at all; `SignedSteps` says that
`Inc` and `Dec` are plus and minus one in the signed reading, wrapped or not.
`CounterIsExact` proves `CounterExact` with `CounterInv`, which adds `UpdateInv`:
a viewer in the middle of an update has just brought its `connectionCounter` to
1 or 0, as its `delta` says, and the sum it has loaded is still the right one
unless its stream has raced. Only a store moves a viewer in or out of the count
(`OnlyStoreCounts`), and then the cardinality changes by one (`CounterStep`).
`CounterIsAbsolute` combines both invariants: for a settled viewer, being
counted in is being linked.
`NoticesAreCurrent` needs `NoticeInv`: on a stream that is not `late`, one viewer
at most stands between its store and its notice, and what it is about to publish
is the count.
The table has one lemma, `SessionChanges`: a step leaves it alone or stores a
publisher whose counter a link callback brings from 0 to 1. `TracksHadLinks` and `PublishersAreRegistered` follow with `SessionInv`:
a registered publisher has reported a link, because a callback was waiting, and
as long as the signed counter of a publisher is positive its stream is registered.
`ReturningEdgesReplace` proves `ReturningEdgeReplaces`. From the state on in which q
is gone and p has not offered, two things stay: q is gone, so that it registers
nothing any more (`GoneStays`), and as long as q's track is in the table, p's
counter has never been positive (`ReplacedInv`). p's first count registers p's
track (`FirstCount`), and once p's callbacks have run `LinkAccounted` turns a
counter of one into a link.

**OnDemand.** `TypeCorrect` proves `TypeOK`. `StreamsAreExclusive` and
`FlagIsTruthful` share `StreamInv`: with the flag down and the mutex free, no
stream was started in the current context (`FreshWhenDown`), a goroutine read a
context no older than its own (`ContextsAge`), and a stream that is over was
cancelled or left its error in the channel (`OverExplained`).
`FlagFollowsInOrder` uses `InboxTells`: while nothing was lost or overtaken, the
last number in the inbox is the last one sent, and with none left the flag
already agrees with it.

**Charoite.** `ViewersGetTheirStream` and `UnwatchedContextsAreCancelled` are put
together from the invariants of the two halves, `CounterInv` and `NoticeInv` of
Broadcast and `StreamInv` of the instance of OnDemand: a step of the composition
is one of theirs, a stutter, or a restart, which takes a half back to where it
starts. What neither half knows is `Informing`, where the newest count is: while it
is the last one heard, the flag agrees with it, and while it is on its way it is
the last of the inbox. With `HalvesKeepTheirPromises` the properties of
the halves are known to survive composition and restarts.

**PeerSignaling.** `TypeCorrect` proves `TypeOK`. `AddedOnce` proves
`AddedAfterDescribed`; what it lacks to be inductive is that `addICECandidates`
runs only with a remote description (`AddedInv`), and lemmas on sequences say
that a round of it moves the head of one queue to the end of the other
(`MoveHead`). `ImplementsTrickle` proves `Spec => T!Spec`, the safety half of
`Trickles`, with `TrickleInv`: pion gathers only after SetLocalDescription, hence
with a remote description, so the callback never finds none, `pendingCandidates`
always stays empty, and sending what is pending is a stutter of Trickle. The list
is dead code as long as `signalPeerConnection` sets the remote description first.

**Page** (in PeerSignalingProofs, which extends it). `PageKeepsSignaling` proves that the cloud peer does nothing with the
page that it does not do alone, and so hands `TrickleInv` down: with nothing
pending, a step sends one candidate or none (`NewlySentIs`). `CandidatesInOrder`
proves `AppliedInOrder` with `LineInv`, which, for a viewer, says where the answer is: not on the
socket yet, on it between candidates written before and after, or taken. Applied,
kept and flying candidates, in this order, are in each case what was sent; before
the answer none is applied, after it none is kept.

**Socket.** `TypeCorrect` proves `TypeOK` with `OffersBound`: readers and offers
still on the wire are no more than the offers sent, which is why a reader's number
stays in range. `NoCandidateLost` proves `CandidatesKept`, which needs only that a
reader that does not run yet has taken nothing (`Fresh`). For one track source,
`Split` says that the candidates taken, in the channel and not yet dealt with are
the numbers sent, in ascending order; the lemmas `SplitAppend`, `SplitSkip`,
`SplitPut` and `SplitTake` say what each way of moving a message does to it, and
`KeptStep` finds one of them in each action. They rest on what `Head`, `Tail` and
`Append` do to the positions of a sequence.

**EdgePublisher.** `TypeCorrect` proves `TypeOK`. `WaitersAreBounded` and
`OpenPeersAreBounded` prove `WaitersBounded` and `OpenPeersBounded` by counting
turns: an attempt has one while it is calling, while its link is not closed, while
its "closed" callback is about to run, and while that callback is about to try
again. `TurnsBounded` says that the turns are no more than one and one for each
flush that failed. A step keeps the turns or gives some up (`TurnStays`), moves one
(`TurnMoves`), or makes one, which only a failing flush does (`TurnMade`): it adds
the caller's turn and keeps the link's. What ties turns to peer connections: a link
starts with the answer (`LinkStage`), a failed one stays so until its callback
closes the peer connection (`FailedLink`), and an open one waits, is described, or
was left by a setup error (`OpenStage`).
`AnswersGoToTheirOffer` proves `AnswersMatch` with `AnswerInv`: while nothing has
gone wrong (`Calm`), an attempt has one answer and it is in one place, with the
cloud or on its way (`Asked`), in the one handler of that attempt (`OneHandler`),
or in its channel (`OwnAnswer`), which also says that the topic belongs to the
attempt that waits. That no two attempts wait is taken from `WaitersBounded`: while all is
calm, no flush has failed.

**EdgeTrickle.** `TypeCorrect` proves `TypeOK`.
`CandidatesAccounted` proves `GatheredAccounted` with `Accounting`: the places of
a candidate, with its callback, in the shared list, sent, lost, exclude each other
and cover all that was gathered; a callback carries a candidate of its own
attempt; and the mutex is taken exactly while the list is sent, so that nothing is
appended meanwhile. `EdgeTricklesSafely` proves `TricklesSafely`, that is
`Spec => T!Spec`, and needs `AnsweredFirst` too: a callback that sends, and a loop
over the pending candidates, come after an answer. `AtMostOneStranded` proves
`OneStrandedAtMost` with `Stranding`: the callback that stands between its
question and its append is the last that can have found no description, so the
list, once emptied, gets at most that one candidate.

**RtmpVideo.** The loop over a packet is arithmetic on offsets that add up from one
NAL unit to the next, so what it does to a frame of any length is an induction. It
is done on sets of numbers, which the provers can instantiate: `LeastNumber`, a
non-empty set of numbers has a least one, gives `IntervalInduction`. With it
`OffsetsExist` shows that some function satisfies the equation that defines
`Offset` (step by step, an initial piece of one extends), so that `Offset` does
(`OffsetIs`), `OffsetsGrow` that an offset, the length field behind it and the NAL
unit fit into what comes to the end, and `ParseTakesAll` that the loop takes every
NAL unit of a well-formed packet. From it follows `TypeOK` (`TypeCorrect`): however
many packets come, `h.pps` holds one set at most and `h.sps` what one header brings.
`FramesAreKept` proves `FramesKept`, since what is put in front of a frame comes
from `h.sps` and `h.pps`, which hold parameter sets only.
`KeyFramesStandAlone` speaks of a sample and is not inductive: the next key frame is
as good as the handler is between packets. `HandlersReady` says how good that is: a
client that is `Regular` finds its newest sets either in `h.sps` and `h.pps` or,
after a header, both in `h.sps` and none in `h.pps`. `HandlersAreReady` proves it:
after a packet a client is regular only if it sent both sets in band, which replace
both places, or none and was regular before (`RegularPackets`), or a header while
`h.pps` was empty. `KeyFramesDecode` follows, in both shapes a key frame has the
SPS, the PPS and then slices (`KeyFrameData`), where a decoder finds them
(`DecodedIs`). `TypeOK` and `HandlersReady` are strengthenings, stated with the
proofs; the run checks the two properties that follow from them.

What TLAPS cannot reach stays with TLC: all liveness, that is `CallbacksFinish`,
`FailedPeersClose`, `CancelledStreamEnds`, `FailuresRetried`, `OfferSettled`,
`RemoteCandidatesAdded`, `CandidatesApplied`, `MutexServes`, `MessagesRead`,
`ReadersEnd`, and the liveness half of `Trickles`.

## 5. Not modelled

* Media: RTP and RTCP forwarding, codecs, `OnTrack`. It keeps no state that
  signaling reads, and what could be said of it ("packets are forwarded") restates
  a loop. Noted while reading: the cloud reads packets of 1400 bytes
  (`webrtc.go:102`) and the edge of 1600 (`rtp.go:28`), and the edge discards the
  RTCP feedback that the cloud sends it (`publisher.go:251`).
* pion, paho, the broker and the browsers: external, as nondeterministic as the
  code's use of them allows. ICE, DTLS and candidate priorities do not appear.
* The TURN server starts pion/turn and waits; flag parsing, logging, HTTP error
  replies and the wire format hold no state.
* `Publish` without `consume_stream_on_demand` serves its source until it fails,
  whatever the counts.
* Malformed RTMP and RTSP data. RtmpVideo's packets are well formed.
* A restart of the edge within EdgePublisher and EdgeTrickle, or of the cloud
  within PeerSignaling and Socket, is a new behaviour of that module: nothing is
  persisted, no message is retained, and paho's client id is new. Where a
  restart of one process meets the state of the other, it is in Charoite.

## 6. Plan

1. *(done)* Broadcast with its races and proofs; OnDemand with proofs; signaling
   of one cloud peer against Trickle, with proofs, and the page at its other end;
   the edge's attempts and candidates, over a connection that comes and goes; the
   viewer WebSocket; `OnVideo`; Charoite, the loop with restarts.
2. *(done)* Proofs: every safety property of every passing run, the safety of both
   refinements of Trickle, and that the properties of Broadcast and
   OnDemand survive their composition and restarts.
3. The leaks that are only noted as hazards (channels that are never closed,
   `addICECandidates` of an edge that offers again) could become a module over
   several offers of one edge, if the code ever promises to end them.
4. EdgeTrickle with two retry loops at a time, after a failed flush and the loss
   of the link it left, would show what two flushes do to one list.
