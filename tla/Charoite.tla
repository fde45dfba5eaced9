-------------------------------- MODULE Charoite --------------------------------
(***************************************************************************)
(* The whole loop of "consume stream on demand": the cloud counts the       *)
(* viewers of a stream (Broadcast), publishes the count over MQTT, and the  *)
(* edge device starts and cancels its live stream by it (OnDemand).  Either *)
(* process may end at any time; docker-compose.yml starts it again, with    *)
(* nothing left of what it knew.                                           *)
(*                                                                         *)
(* The edge subscribes to the counts when its peer connection is created,   *)
(* and a count that is published before is gone: none is retained.         *)
(***************************************************************************)
EXTENDS Broadcast, Sequences

CONSTANTS
    Key,         \* the stream of the edge device
    Streams, TrackSource, Protocol, MaxNotices,  \* see OnDemand
    MaxRestarts  \* bound: restarts of the two processes

ASSUME CharoiteAssumption ==
    /\ Key \in Keys
    /\ TrackSource \in {"DRONE", "MONITOR"}
    /\ Protocol \in {"rtp", "rtsp", "rtmp"}
    /\ MaxNotices \in Nat /\ MaxRestarts \in Nat

VARIABLES
    edge,                 \* how far Publish is: "started", "offered" or
                          \* "listening"
    edgeUp, stateMux, isLivestreamStarted, ctx,
    stream, born, bound, errChan,
    inbox, sent, lastSent, lost, overtaken,      \* see OnDemand
    informed,             \* history: does the edge know the last count, "yes",
                          \* "soon" while it is on its way, or "no"
    restarts              \* number of restarts

O == INSTANCE OnDemand WITH up <- edgeUp

deviceVars == <<edgeUp, stateMux, isLivestreamStarted, ctx, stream, born, bound,
                errChan, inbox, sent, lastSent, lost, overtaken>>
charoiteVars == <<vars, edge, deviceVars, informed, restarts>>

-----------------------------------------------------------------------------
CharoiteInit ==
    /\ Init
    /\ O!Init
    /\ edge = "started"
    /\ informed = "yes"
    /\ restarts = 0

-----------------------------------------------------------------------------
(* The cloud.                                                              *)

\* An offer of the edge, by Publish or by the retry loop of a lost link.
EdgeOffers(p) ==
    /\ edgeUp
    /\ PublisherOffer(p)
    /\ edge' = IF edge = "started" THEN "offered" ELSE edge
    /\ UNCHANGED <<deviceVars, informed, restarts>>

\* One more offer of an edge that was started again, when all Publishers are
\* used up: the peer it gets is left out, as it could only register a second
\* track under the key.
EdgeOffersAgain ==
    /\ up /\ edgeUp
    /\ edge = "started"
    /\ \A p \in Publishers : peer[p] # "none"
    /\ edge' = "offered"
    /\ UNCHANGED <<vars, deviceVars, informed, restarts>>

Cloud ==
    /\ \/ \E v \in Viewers : ViewerOffer(v) \/ CounterLoad(v) \/ CounterStore(v)
       \/ \E p \in Peers : Agent(p) \/ Handler(p)
       \/ \E v, w \in Viewers : MapFault(v, w)
    /\ UNCHANGED <<edge, deviceVars, informed, restarts>>

\* What the edge makes of a count.
Word(n) == IF n = 0 THEN "zero" ELSE "some"

\* A count is published: to the edge if it listens, to nobody otherwise.
Notify(v) ==
    /\ NotifySubscriptions(v)
    /\ UNCHANGED <<edge, restarts>>
    /\ IF KeyOf[v] = Key /\ edge = "listening"
       THEN O!Send(Word(notice'[Key])) /\ informed' = "soon"
       ELSE /\ informed' = IF KeyOf[v] = Key THEN "no" ELSE informed
            /\ UNCHANGED deviceVars

-----------------------------------------------------------------------------
(* The edge device.                                                        *)

\* createPeerConnection has returned, and listenSubscriber subscribes; without
\* a connection to the broker it never does, like an edge that stays "offered".
Listen ==
    /\ edgeUp
    /\ edge = "offered"
    /\ edge' = "listening"
    /\ UNCHANGED <<vars, deviceVars, informed, restarts>>

\* The newest count is the last one in the inbox, unless it is there no more.
IsNewest(j) == informed = "soon" /\ j = Len(inbox)

Hear(j) ==
    /\ O!HandleNotice(j)
    /\ informed' = IF IsNewest(j) THEN "yes"
                   ELSE IF informed = "yes" THEN "no" ELSE informed
    /\ UNCHANGED <<vars, edge, restarts>>

LoseNotice(j) ==
    /\ O!Lose(j)
    /\ informed' = IF IsNewest(j) THEN "no" ELSE informed
    /\ UNCHANGED <<vars, edge, restarts>>

Device ==
    /\ \/ \E i \in Streams : O!LiveStream(i)
       \/ O!IceDisconnected
       \/ O!PublishReturns
    /\ UNCHANGED <<vars, edge, informed, restarts>>

-----------------------------------------------------------------------------
(* Restarts.                                                               *)

Restart ==
    /\ restarts < MaxRestarts
    /\ restarts' = restarts + 1

\* Slip: the counts survive, say in a file.
ForgetKeepsCounter ==
    /\ up' = TRUE
    /\ sessions' = [k \in Keys |-> None]
    /\ peer' = [p \in Peers |-> "none"]
    /\ track' = [v \in Viewers |-> None]
    /\ ice' = [p \in Peers |-> "checking"]
    /\ linked' = [p \in Peers |-> FALSE]
    /\ reports' = [p \in Peers |-> 0]
    /\ pending' = [p \in Peers |-> [s \in CallbackStates |-> 0]]
    /\ connectionCounter' = [p \in Peers |-> 0]
    /\ phase' = [p \in Peers |-> "idle"]
    /\ delta' = [p \in Peers |-> 0] /\ val' = [p \in Peers |-> 0]
    /\ UNCHANGED <<counter, notice>>
    /\ raced' = {} /\ late' = {}

\* Init of Broadcast; browsers and edge devices may offer again.
Forget ==
    /\ up' = TRUE
    /\ sessions' = [k \in Keys |-> None]
    /\ peer' = [p \in Peers |-> "none"]
    /\ track' = [v \in Viewers |-> None]
    /\ ice' = [p \in Peers |-> "checking"]
    /\ linked' = [p \in Peers |-> FALSE]
    /\ reports' = [p \in Peers |-> 0]
    /\ pending' = [p \in Peers |-> [s \in CallbackStates |-> 0]]
    /\ connectionCounter' = [p \in Peers |-> 0]
    /\ phase' = [p \in Peers |-> "idle"]
    /\ delta' = [p \in Peers |-> 0] /\ val' = [p \in Peers |-> 0]
    /\ counter' = [k \in Keys |-> 0] /\ notice' = [k \in Keys |-> 0]
    /\ raced' = {} /\ late' = {}

\* The new cloud counts nobody: the edge knows this if it streams for nobody.
CloudRestarts ==
    /\ Restart
    /\ Forget
    /\ informed' = IF isLivestreamStarted \/ informed = "soon" THEN "no" ELSE "yes"
    /\ UNCHANGED <<edge, deviceVars>>

\* Init of OnDemand.  The new edge streams for nobody; it knows the count if
\* that is zero, although it will only listen later.
EdgeRestarts ==
    /\ Restart
    /\ edgeUp' = TRUE /\ stateMux' = "free" /\ isLivestreamStarted' = FALSE
    /\ ctx' = 0
    /\ stream' = [i \in Streams |-> "none"]
    /\ born' = [i \in Streams |-> 0] /\ bound' = [i \in Streams |-> 0]
    /\ errChan' = 0
    /\ inbox' = <<>> /\ sent' = 0 /\ lastSent' = "zero"
    /\ lost' = FALSE /\ overtaken' = FALSE
    /\ edge' = "started"
    /\ informed' = IF notice[Key] = 0 THEN "yes" ELSE "no"
    /\ UNCHANGED vars

-----------------------------------------------------------------------------
CharoiteNext ==
    \/ \E p \in Publishers : EdgeOffers(p)
    \/ EdgeOffersAgain
    \/ Cloud
    \/ \E v \in Viewers : Notify(v)
    \/ Listen
    \/ \E j \in DOMAIN inbox : Hear(j) \/ LoseNotice(j)
    \/ Device
    \/ CloudRestarts \/ EdgeRestarts

CharoiteSpec == CharoiteInit /\ [][CharoiteNext]_charoiteVars

-----------------------------------------------------------------------------
(* Correctness.                                                            *)

\* Nothing is on its way: the viewers' callbacks have run, the last count was
\* heard last, and no update raced with another.
InStep ==
    /\ up /\ edgeUp /\ stateMux = "free"
    /\ informed = "yes"
    /\ Key \notin raced \cup late
    /\ \A v \in ViewersOf(Key) : Settled(v)

Watched == \E v \in ViewersOf(Key) : linked[v]

\* A connected viewer gets a stream: one of the current context is alive, or its
\* error is about to restart the edge.  After a restart of either side, and
\* after lost or reordered counts, this is so again as soon as one more count is
\* heard.
WatchedStreamRuns ==
    InStep /\ Watched =>
        /\ isLivestreamStarted
        /\ \/ errChan = 1
           \/ \E i \in Streams : /\ stream[i] \notin {"none", "over"}
                                 /\ born[i] = ctx

\* With no viewer connected the flag is down, and each stream that was started
\* belongs to a context that is cancelled: it ends if it had read that context
\* by then.  A goroutine that runs only after the zero was handled reads the
\* context of the next stream (publisher.go:318, 330), and goes on unwatched
\* until the next zero: UnwatchedStreamCancelled, without this proviso, does not
\* hold.
UnwatchedContextsCancelled ==
    InStep /\ ~Watched =>
        /\ ~isLivestreamStarted
        /\ \A i \in Streams : stream[i] # "none" => O!Cancelled(born[i])

\* "Consume stream on demand" (cmd.go:285): no stream runs uncancelled without a
\* viewer.
UnwatchedStreamCancelled ==
    InStep /\ ~Watched =>
        \A i \in Streams :
            stream[i] \in {"bound", "running"} => O!Cancelled(bound[i])
=============================================================================
