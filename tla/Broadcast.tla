------------------------------- MODULE Broadcast -------------------------------
(***************************************************************************)
(* The cloud service of `charoite broadcast`: the session table shared by  *)
(* publishers and subscribers, one WebRTC struct per offer, the ICE        *)
(* callbacks that pion delivers on goroutines of their own, and the viewer *)
(* counter that those callbacks update and publish over MQTT.              *)
(*                                                                         *)
(* A publisher stands for one offer of an edge device, a viewer for one    *)
(* "video-offer" of a browser.  SDP and candidates are the business of     *)
(* PeerSignaling; here an offer creates its peer connection in one step.   *)
(***************************************************************************)
EXTENDS Integers, FiniteSets

CONSTANTS
    Keys,        \* streams: a machine id with a track source
    Publishers,  \* offers of edge devices, one peer connection each
    Viewers,     \* offers of browsers, one peer connection each
    KeyOf,       \* the stream each of them names in its metadata
    MaxReports,  \* bound: link changes an ICE agent reports
    UintMod,     \* 2^32 in the code, the modulus of connectionCounter
    None         \* no session stored under a key

Peers == Publishers \cup Viewers

ASSUME BroadcastAssumption ==
    /\ Publishers \cap Viewers = {}
    /\ KeyOf \in [Peers -> Keys]
    /\ None \notin Publishers
    /\ IsFiniteSet(Viewers)
    /\ MaxReports \in Nat
    /\ UintMod \in Nat /\ UintMod > 2 * MaxReports + 2

VARIABLES
    up,                 \* the process runs: no goroutine hit a fatal error
    sessions,           \* Service.sessions: key -> publisher of the track
    peer,               \* peer connection: "none", "open" or "closed"
    track,              \* viewer -> publisher whose track was added to it
    ice,                \* pion: state of the ICE agent
    linked,             \* pion: its last link report was "connected"
    reports,            \* pion: number of link reports so far
    pending,            \* callback goroutines that have not got counterMux
    connectionCounter,  \* WebRTC.connectionCounter, a uint32
    phase,              \* where a callback is inside updateCounter
    delta, val,         \* its parameter n and its local val
    counter,            \* Subscriber.counter, 0 for an absent key
    notice,             \* last count published to each key's notify topic
    raced,              \* history: keys on which two read-modify-writes of
                        \* the counter overlapped
    late                \* history: keys with a store between another
                        \* viewer's store and the notice that goes with it

agentVars  == <<ice, linked, reports>>
updateVars == <<phase, delta, val>>
historyVars == <<raced, late>>
vars == <<up, sessions, peer, track, agentVars, pending, connectionCounter,
          updateVars, counter, notice, historyVars>>

CallbackStates == {"connected", "disconnected", "failed", "closed"}

ViewersOf(k) == {v \in Viewers : KeyOf[v] = k}

-----------------------------------------------------------------------------
(* uint32 arithmetic.                                                      *)

Inc(n) == IF n = UintMod - 1 THEN 0 ELSE n + 1
\* Slips, for comparison: a counter that is not unsigned, or stops at zero.
DecSigned(n) == n - 1
DecToZero(n) == IF n = 0 THEN 0 ELSE n - 1

Dec(n) == IF n = 0 THEN UintMod - 1 ELSE n - 1

\* The counter read as a two's complement integer.
Signed(n) == IF n <= MaxReports + 1 THEN n ELSE n - UintMod

-----------------------------------------------------------------------------
Init ==
    /\ up = TRUE
    /\ sessions = [k \in Keys |-> None]
    /\ peer = [p \in Peers |-> "none"]
    /\ track = [v \in Viewers |-> None]
    /\ ice = [p \in Peers |-> "checking"]
    /\ linked = [p \in Peers |-> FALSE]
    /\ reports = [p \in Peers |-> 0]
    /\ pending = [p \in Peers |-> [s \in CallbackStates |-> 0]]
    /\ connectionCounter = [p \in Peers |-> 0]
    /\ phase = [p \in Peers |-> "idle"]
    /\ delta = [p \in Peers |-> 0]
    /\ val = [p \in Peers |-> 0]
    /\ counter = [k \in Keys |-> 0]
    /\ notice = [k \in Keys |-> 0]
    /\ raced = {}
    /\ late = {}

-----------------------------------------------------------------------------
(* Offers.                                                                 *)

\* Slip: the session is registered with the offer, not with the first link.
PublisherOfferRegisters(p) ==
    /\ up
    /\ peer[p] = "none"
    /\ peer' = [peer EXCEPT ![p] = "open"]
    /\ sessions' = [sessions EXCEPT ![KeyOf[p]] = p]
    /\ UNCHANGED <<up, track, agentVars, pending, connectionCounter,
                   updateVars, counter, notice, historyVars>>

\* handleMessage: an offer of an edge device, answered by a publisher peer.
PublisherOffer(p) ==
    /\ up
    /\ peer[p] = "none"
    /\ peer' = [peer EXCEPT ![p] = "open"]
    /\ UNCHANGED <<up, sessions, track, agentVars, pending, connectionCounter,
                   updateVars, counter, notice, historyVars>>

\* "video-offer": without a session under the key the viewer is turned away,
\* otherwise the track found there is added to a new subscriber peer.
ViewerOffer(v) ==
    /\ up
    /\ peer[v] = "none"
    /\ sessions[KeyOf[v]] # None
    /\ track' = [track EXCEPT ![v] = sessions[KeyOf[v]]]
    /\ peer' = [peer EXCEPT ![v] = "open"]
    /\ UNCHANGED <<up, sessions, agentVars, pending, connectionCounter,
                   updateVars, counter, notice, historyVars>>

-----------------------------------------------------------------------------
(* The ICE agent (external).  A state change starts one callback goroutine; *)
(* two of them reach counterMux in either order.                           *)

Report(p, s) ==
    /\ ice' = [ice EXCEPT ![p] = s]
    /\ pending' = [pending EXCEPT ![p][s] = @ + 1]

AgentLink(p) ==
    /\ up
    /\ peer[p] = "open"
    /\ reports[p] < MaxReports
    /\ \/ /\ ice[p] \in {"checking", "disconnected"}
          /\ Report(p, "connected")
          /\ linked' = [linked EXCEPT ![p] = TRUE]
       \/ /\ ice[p] = "connected"
          /\ Report(p, "disconnected")
          /\ linked' = [linked EXCEPT ![p] = FALSE]
    /\ reports' = [reports EXCEPT ![p] = @ + 1]
    /\ UNCHANGED <<up, sessions, peer, track, connectionCounter, updateVars,
                   counter, notice, historyVars>>

AgentFails(p) ==
    /\ up
    /\ peer[p] = "open"
    /\ ice[p] \in {"checking", "connected", "disconnected"}
    /\ Report(p, "failed")
    /\ UNCHANGED <<up, sessions, peer, track, linked, reports,
                   connectionCounter, updateVars, counter, notice, historyVars>>

\* The remote end says goodbye (DTLS close_notify): pion closes the peer.
RemoteCloses(p) ==
    /\ up
    /\ peer[p] = "open"
    /\ ice[p] \in {"connected", "disconnected"}
    /\ peer' = [peer EXCEPT ![p] = "closed"]
    /\ Report(p, "closed")
    /\ UNCHANGED <<up, sessions, track, linked, reports, connectionCounter,
                   updateVars, counter, notice, historyVars>>

-----------------------------------------------------------------------------
(* OnICEConnectionStateChange, under the peer's counterMux.  The mutex is   *)
(* held as long as phase is not "idle".                                    *)

Take(p, s) ==
    /\ up
    /\ phase[p] = "idle"
    /\ pending[p][s] > 0

\* Slip: LoadOrStore instead of Store.
RegisterSessionOnce(p) ==
    sessions' = IF p \in Publishers /\ sessions[KeyOf[p]] = None
                THEN [sessions EXCEPT ![KeyOf[p]] = p]
                ELSE sessions

\* registerSession stores the track for a publisher, is a no-op for a viewer.
RegisterSession(p) ==
    sessions' = IF p \in Publishers
                THEN [sessions EXCEPT ![KeyOf[p]] = p]
                ELSE sessions

\* updateCounter(n) is a no-op for a publisher, a few steps for a viewer.
CallUpdateCounter(p, n) ==
    IF p \in Viewers
    THEN /\ phase' = [phase EXCEPT ![p] = "load"]
         /\ delta' = [delta EXCEPT ![p] = n]
         /\ UNCHANGED val
    ELSE UNCHANGED updateVars

\* Slips: a viewer is never counted out; any rise counts in and any fall out;
\* the session goes when its publisher loses the link.
CompareNeverOut(p, old, new) ==
    \/ /\ old = 0 /\ new = 1
       /\ RegisterSession(p)
       /\ CallUpdateCounter(p, 1)
    \/ /\ <<old, new>> # <<0, 1>>
       /\ UNCHANGED <<sessions, updateVars>>

CompareByOrder(p, old, new) ==
    \/ /\ old > new
       /\ CallUpdateCounter(p, -1)
       /\ UNCHANGED sessions
    \/ /\ old < new
       /\ RegisterSession(p)
       /\ CallUpdateCounter(p, 1)

CompareUnregisters(p, old, new) ==
    \/ /\ old = 1 /\ new = 0
       /\ CallUpdateCounter(p, -1)
       /\ sessions' = IF p \in Publishers
                      THEN [sessions EXCEPT ![KeyOf[p]] = None]
                      ELSE sessions
    \/ /\ old = 0 /\ new = 1
       /\ RegisterSession(p)
       /\ CallUpdateCounter(p, 1)
    \/ /\ <<old, new>> \notin {<<1, 0>>, <<0, 1>>}
       /\ UNCHANGED <<sessions, updateVars>>

\* The comparison of the counter before and after the switch.
CompareCounters(p, old, new) ==
    \/ /\ old = 1 /\ new = 0
       /\ CallUpdateCounter(p, -1)
       /\ UNCHANGED sessions
    \/ /\ old = 0 /\ new = 1
       /\ RegisterSession(p)
       /\ CallUpdateCounter(p, 1)
    \/ /\ <<old, new>> \notin {<<1, 0>>, <<0, 1>>}
       /\ UNCHANGED <<sessions, updateVars>>

HandleLink(p, s, new) ==
    /\ Take(p, s)
    /\ pending' = [pending EXCEPT ![p][s] = @ - 1]
    /\ connectionCounter' = [connectionCounter EXCEPT ![p] = new]
    /\ CompareCounters(p, connectionCounter[p], new)
    /\ UNCHANGED <<up, peer, track, agentVars, counter, notice, historyVars>>

HandleConnected(p) == HandleLink(p, "connected", Inc(connectionCounter[p]))

HandleDisconnected(p) ==
    HandleLink(p, "disconnected", Dec(connectionCounter[p]))

\* Slip: the failed peer connection is left to itself.
HandleFailedKeeps(p) ==
    /\ Take(p, "failed")
    /\ pending' = [pending EXCEPT ![p]["failed"] = @ - 1]
    /\ UNCHANGED <<up, sessions, peer, track, agentVars, connectionCounter,
                   updateVars, counter, notice, historyVars>>

\* The agent of a closed peer connection reports "closed".
ClosePeerConnection(p) ==
    /\ peer' = [peer EXCEPT ![p] = "closed"]
    /\ ice' = [ice EXCEPT ![p] = "closed"]
    /\ pending' = [pending EXCEPT ![p]["failed"] = @ - 1,
                                  ![p]["closed"] = @ + 1]

HandleFailed(p) ==
    /\ Take(p, "failed")
    /\ ClosePeerConnection(p)
    /\ UNCHANGED <<up, sessions, track, linked, reports, connectionCounter,
                   updateVars, counter, notice, historyVars>>

\* An error of closePeerConnection is a panic.
ClosePanics(p) ==
    /\ Take(p, "failed")
    /\ up' = FALSE
    /\ UNCHANGED <<sessions, peer, track, agentVars, pending, connectionCounter,
                   updateVars, counter, notice, historyVars>>

\* The default branch of the switch: the callback changes nothing.
HandleClosed(p) ==
    /\ Take(p, "closed")
    /\ pending' = [pending EXCEPT ![p]["closed"] = @ - 1]
    /\ UNCHANGED <<up, sessions, peer, track, agentVars, connectionCounter,
                   updateVars, counter, notice, historyVars>>

-----------------------------------------------------------------------------
(* updateCounter.  counterMux belongs to one peer, the map to all of them:  *)
(* nothing orders the steps of two viewers.                                *)

CounterLoad(v) ==
    /\ up
    /\ phase[v] = "load"
    /\ val' = [val EXCEPT ![v] = counter[KeyOf[v]] + delta[v]]
    /\ phase' = [phase EXCEPT ![v] = "store"]
    /\ UNCHANGED <<up, sessions, peer, track, agentVars, pending,
                   connectionCounter, delta, counter, notice, historyVars>>

\* Another viewer of the same key is at phase ph: with "store" the sum it has
\* loaded becomes stale, with "notify" the count it will publish does.
Overlaps(v, ph) ==
    \E w \in Viewers \ {v} : KeyOf[w] = KeyOf[v] /\ phase[w] = ph

MarkIf(cond, set, v) == IF cond THEN set \cup {KeyOf[v]} ELSE set

CounterStore(v) ==
    /\ up
    /\ phase[v] = "store"
    /\ counter' = [counter EXCEPT ![KeyOf[v]] = val[v]]
    /\ raced' = MarkIf(Overlaps(v, "store"), raced, v)
    /\ late' = MarkIf(Overlaps(v, "notify"), late, v)
    /\ phase' = [phase EXCEPT ![v] = "notify"]
    /\ UNCHANGED <<up, sessions, peer, track, agentVars, pending,
                   connectionCounter, delta, val, notice>>

\* Slips: the change is published, not the count; counterMux stays locked.
NotifyDelta(v) ==
    /\ up
    /\ phase[v] = "notify"
    /\ notice' = [notice EXCEPT ![KeyOf[v]] = delta[v]]
    /\ phase' = [phase EXCEPT ![v] = "idle"]
    /\ UNCHANGED <<up, sessions, peer, track, agentVars, pending,
                   connectionCounter, delta, val, counter, historyVars>>

NotifyKeepsLock(v) ==
    /\ up
    /\ phase[v] = "notify"
    /\ notice' = [notice EXCEPT ![KeyOf[v]] = val[v]]
    /\ UNCHANGED <<up, sessions, peer, track, agentVars, pending,
                   connectionCounter, updateVars, counter, historyVars>>

\* notifySubscriptions, then the deferred unlock of counterMux.
NotifySubscriptions(v) ==
    /\ up
    /\ phase[v] = "notify"
    /\ notice' = [notice EXCEPT ![KeyOf[v]] = val[v]]
    /\ phase' = [phase EXCEPT ![v] = "idle"]
    /\ UNCHANGED <<up, sessions, peer, track, agentVars, pending,
                   connectionCounter, delta, val, counter, historyVars>>

\* The Go runtime may catch a map write that overlaps another access, of
\* whatever key: "fatal error: concurrent map writes" ends the process.
MapFault(v, w) ==
    /\ up
    /\ v # w
    /\ phase[v] = "store"
    /\ phase[w] \in {"load", "store"}
    /\ up' = FALSE
    /\ UNCHANGED <<sessions, peer, track, agentVars, pending,
                   connectionCounter, updateVars, counter, notice, historyVars>>

-----------------------------------------------------------------------------
Agent(p)   == AgentLink(p) \/ AgentFails(p) \/ RemoteCloses(p)
Handler(p) == \/ HandleConnected(p) \/ HandleDisconnected(p)
              \/ HandleFailed(p) \/ ClosePanics(p) \/ HandleClosed(p)
Update(v)  == CounterLoad(v) \/ CounterStore(v) \/ NotifySubscriptions(v)

Next ==
    \/ \E p \in Publishers : PublisherOffer(p)
    \/ \E v \in Viewers : ViewerOffer(v) \/ Update(v)
    \/ \E p \in Peers : Agent(p) \/ Handler(p)
    \/ \E v, w \in Viewers : MapFault(v, w)

Spec == Init /\ [][Next]_vars

\* A runnable goroutine is scheduled, and a mutex reaches every waiter.
Fairness ==
    /\ \A p \in Peers : /\ WF_vars(HandleConnected(p))
                        /\ WF_vars(HandleDisconnected(p))
                        /\ WF_vars(HandleFailed(p))
                        /\ WF_vars(HandleClosed(p))
    /\ \A v \in Viewers : WF_vars(Update(v))

FairSpec == Spec /\ Fairness

-----------------------------------------------------------------------------
(* Correctness.                                                            *)

\* Every variable has the type the code gives it.
TypeOK ==
    /\ up \in BOOLEAN
    /\ sessions \in [Keys -> Publishers \cup {None}]
    /\ peer \in [Peers -> {"none", "open", "closed"}]
    /\ track \in [Viewers -> Publishers \cup {None}]
    /\ ice \in [Peers -> CallbackStates \cup {"checking"}]
    /\ linked \in [Peers -> BOOLEAN]
    /\ reports \in [Peers -> 0..MaxReports]
    /\ pending \in [Peers -> [CallbackStates -> Nat]]
    /\ connectionCounter \in [Peers -> 0..(UintMod - 1)]
    /\ phase \in [Peers -> {"idle", "load", "store", "notify"}]
    /\ delta \in [Peers -> -1..1]
    /\ val \in [Peers -> Int]
    /\ counter \in [Keys -> Int]
    /\ notice \in [Keys -> Int]
    /\ raced \in SUBSET Keys
    /\ late \in SUBSET Keys

\* All callbacks of p have run to their end.
Settled(p) ==
    /\ phase[p] = "idle"
    /\ pending[p]["connected"] = 0
    /\ pending[p]["disconnected"] = 0

\* Whatever the order in which a peer's callbacks got the mutex, and even
\* though the unsigned connectionCounter may wrap below zero on the way, the
\* callbacks handled and those still waiting add up to the agent's last link
\* report (webrtc.go, OnICEConnectionStateChange).
LinkAccounted ==
    \A p \in Peers :
        Signed(connectionCounter[p])
            + pending[p]["connected"] - pending[p]["disconnected"]
        = IF linked[p] THEN 1 ELSE 0

\* v is part of the count: it has stored its +1 and not yet its -1.
InCount(v) ==
    IF phase[v] \in {"load", "store"}
    THEN delta[v] = -1
    ELSE Signed(connectionCounter[v]) >= 1

\* The count kept for a stream is the number of viewers counted in, as long
\* as no two read-modify-writes of that stream overlapped (subscriber.go,
\* updateCounter, called under a mutex that the viewers do not share).
CounterExact ==
    \A k \in Keys \ raced :
        counter[k] = Cardinality({v \in ViewersOf(k) : InCount(v)})

\* "Absolute corectness of connections conter": once the callbacks have run,
\* the count of a stream is the number of viewers whose last link report was
\* "connected", unless updates overlapped.
AbsoluteCounter ==
    \A k \in Keys \ raced :
        (\A v \in ViewersOf(k) : Settled(v)) =>
            counter[k] = Cardinality({v \in ViewersOf(k) : linked[v]})

\* A publisher whose link is up and whose callbacks have run is in the session
\* table, or has been replaced there by another publisher of its stream: no
\* order of its callbacks skips registerSession.
LinkedPublisherRegistered ==
    \A p \in Publishers :
        Settled(p) /\ linked[p] => sessions[KeyOf[p]] # None

\* The track given to a viewer is one of its own stream, and its publisher had
\* been connected before: nobody is handed a track that never carried media.
TrackHadLink ==
    \A v \in Viewers :
        track[v] # None => /\ KeyOf[track[v]] = KeyOf[v]
                           /\ reports[track[v]] > 0

\* When no update of a stream is in progress, the count the edge was told last
\* is the count held, unless a store of one viewer came between the store and
\* the notice of another (updateCounter publishes after it has stored, and
\* nothing keeps the two together).
LastNoticeCurrent ==
    \A k \in Keys \ late :
        (\A v \in ViewersOf(k) : phase[v] = "idle") => notice[k] = counter[k]

\* "Absolute corectness of connections conter" (webrtc.go:192) without the
\* proviso of AbsoluteCounter: overlapping updates included.
AbsoluteCounterAlways ==
    \A k \in Keys :
        (\A v \in ViewersOf(k) : Settled(v)) =>
            counter[k] = Cardinality({v \in ViewersOf(k) : linked[v]})

\* Nothing takes a publisher out of the session table, but the edge device that
\* offers again comes in its place: once the peer of q is closed and its
\* callbacks have run, a publisher of the same stream that offers from then on
\* and is connected has its track there, and not the dead one of q
\* (registerSession, called from the ICE callback).
Gone(q) == peer[q] = "closed" /\ Settled(q)

Replaces(p, q) == Settled(p) /\ linked[p] => sessions[KeyOf[q]] # q

ReturningEdgeReplaces ==
    \A p, q \in Publishers :
        KeyOf[p] = KeyOf[q] =>
            [](Gone(q) /\ peer[p] = "none" => []Replaces(p, q))

\* A peer whose ICE agent failed is closed, unless the process died.
FailedPeersClose ==
    \A p \in Peers : (ice[p] = "failed") ~> (peer[p] = "closed" \/ ~up)

\* No callback waits for ever for a peer's mutex, and every change of the
\* counter that was started is published.
CallbacksFinish ==
    \A p \in Peers :
        (~Settled(p)) ~> (Settled(p) \/ ~up)
=============================================================================
