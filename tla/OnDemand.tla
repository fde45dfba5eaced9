------------------------------- MODULE OnDemand --------------------------------
(***************************************************************************)
(* The edge side of "consume stream on demand": publisher.listenSubscriber  *)
(* turns the viewer counts of the cloud into starting and cancelling the    *)
(* live stream, and the live stream (rtpListener, consumeRTSP, consumeRTMP) *)
(* runs in a goroutine of its own.                                         *)
(*                                                                         *)
(* Contexts are numbered by their renewals: cancel() always hits the        *)
(* current one, so a context is cancelled iff its number is below ctx.      *)
(***************************************************************************)
EXTENDS Naturals, Sequences, SequencesExt

CONSTANTS
    Streams,     \* goroutines that may be started
    TrackSource, \* "DRONE" or "MONITOR", the publisher of the depot
    Protocol,    \* what is configured for it: "rtp", "rtsp" or "rtmp"
    MaxNotices   \* bound: notices the broker accepts

ASSUME OnDemandAssumption ==
    /\ TrackSource \in {"DRONE", "MONITOR"}
    /\ Protocol \in {"rtp", "rtsp", "rtmp"}
    /\ MaxNotices \in Nat

VARIABLES
    up,                   \* the process runs
    stateMux,             \* "free", or "held" for ever
    isLivestreamStarted,
    ctx,                  \* the variable ctx: how often it was renewed
    stream,               \* where each goroutine is
    born,                 \* value of ctx when it was started
    bound,                \* value of ctx when it ran and read the variable
    errChan,              \* errors in the channel of capacity 1
    inbox,                \* notices on their way, oldest first
    sent,                 \* number of notices so far
    lastSent,             \* history: the last notice with a number in it
    lost, overtaken       \* history: one was lost; one was handled before
                          \* an older one

edgeVars  == <<up, stateMux, isLivestreamStarted, ctx>>
streamVars == <<stream, born, bound, errChan>>
noticeVars == <<inbox, sent, lastSent, lost, overtaken>>
vars == <<edgeVars, streamVars, noticeVars>>

Notices == {"zero", "some", "bad"}  \* what strconv.Atoi makes of a payload

Cancelled(c) == c < ctx

\* The live stream function: NewDronePublisher takes the one of the protocol,
\* NewDeportPublisher listens for RTP and pulls RTSP otherwise.
Kind == IF TrackSource = "MONITOR" /\ Protocol # "rtp" THEN "rtsp" ELSE Protocol

-----------------------------------------------------------------------------
Init ==
    /\ up = TRUE
    /\ stateMux = "free"
    /\ isLivestreamStarted = FALSE
    /\ ctx = 0
    /\ stream = [i \in Streams |-> "none"]
    /\ born = [i \in Streams |-> 0]
    /\ bound = [i \in Streams |-> 0]
    /\ errChan = 0
    /\ inbox = <<>>
    /\ sent = 0
    /\ lastSent = "zero"
    /\ lost = FALSE
    /\ overtaken = FALSE

-----------------------------------------------------------------------------
(* The broker (external): messages handled in any order, or lost at QoS 0.   *)

Send(n) ==
    /\ sent < MaxNotices
    /\ inbox' = Append(inbox, n)
    /\ sent' = sent + 1
    /\ lastSent' = IF n = "bad" THEN lastSent ELSE n
    /\ UNCHANGED <<edgeVars, streamVars, lost, overtaken>>

Lose(j) ==
    /\ j \in DOMAIN inbox
    /\ inbox' = RemoveAt(inbox, j)
    /\ lost' = TRUE
    /\ UNCHANGED <<edgeVars, streamVars, sent, lastSent, overtaken>>

\* One of the messages is taken; SetOrderMatters(false) gives every message a
\* goroutine, and any of them may reach stateMux first.
Deliver(j) ==
    /\ j \in DOMAIN inbox
    /\ inbox' = IF j = 1 THEN Tail(inbox) ELSE RemoveAt(inbox, j)
    /\ overtaken' = (overtaken \/ j # 1)
    /\ UNCHANGED <<sent, lastSent, lost>>

-----------------------------------------------------------------------------
(* The subscription handler, all of it under stateMux.                      *)

\* Slip: a zero only cancels, the flag stays.
HandleNoticeKeepsFlag(j) ==
    /\ up
    /\ stateMux = "free"
    /\ Deliver(j)
    /\ UNCHANGED <<up, stateMux, bound, errChan>>
    /\ \/ /\ inbox[j] = "zero"
          /\ ctx' = ctx + 1
          /\ UNCHANGED <<isLivestreamStarted, stream, born>>
       \/ /\ inbox[j] = "some" /\ ~isLivestreamStarted
          /\ \E i \in Streams :
                /\ stream[i] = "none"
                /\ stream' = [stream EXCEPT ![i] = "spawned"]
                /\ born' = [born EXCEPT ![i] = ctx]
          /\ isLivestreamStarted' = TRUE
          /\ UNCHANGED ctx
       \/ /\ inbox[j] # "zero" /\ (inbox[j] = "some" => isLivestreamStarted)
          /\ UNCHANGED <<isLivestreamStarted, ctx, stream, born>>

HandleNotice(j) ==
    /\ up
    /\ stateMux = "free"
    /\ Deliver(j)
    /\ UNCHANGED <<up, stateMux, bound, errChan>>
    /\ \/ /\ inbox[j] = "bad"
          /\ UNCHANGED <<isLivestreamStarted, ctx, stream, born>>
       \/ /\ inbox[j] = "zero"
          /\ ctx' = ctx + 1
          /\ isLivestreamStarted' = FALSE
          /\ UNCHANGED <<stream, born>>
       \/ /\ inbox[j] = "some" /\ isLivestreamStarted
          /\ UNCHANGED <<isLivestreamStarted, ctx, stream, born>>
       \/ /\ inbox[j] = "some" /\ ~isLivestreamStarted
          /\ \E i \in Streams :
                /\ stream[i] = "none"
                /\ stream' = [stream EXCEPT ![i] = "spawned"]
                /\ born' = [born EXCEPT ![i] = ctx]
          /\ isLivestreamStarted' = TRUE
          /\ UNCHANGED ctx

\* Slip: the branch unlocks what it has locked, and the flag alone is reset.
IceDisconnectedUnlocks ==
    /\ up
    /\ stateMux = "free"
    /\ isLivestreamStarted' = FALSE
    /\ UNCHANGED <<up, stateMux, ctx, streamVars, noticeVars>>

\* The "disconnected" branch of handleICEConnectionStateChange resets the flag
\* and keeps stateMux.  It then unlocks candidatesMux, fatal unless a flush of
\* createPeerConnection happens to hold it.
IceDisconnected ==
    /\ up
    /\ stateMux = "free"
    /\ stateMux' = "held"
    /\ isLivestreamStarted' = FALSE
    /\ up' \in BOOLEAN
    /\ UNCHANGED <<ctx, streamVars, noticeVars>>

-----------------------------------------------------------------------------
(* The goroutine around liveStream.                                        *)

\* It evaluates its arguments when it first runs, without stateMux: the context
\* it gets is the one of that moment.
ReadContext(i) ==
    /\ up
    /\ stream[i] = "spawned"
    /\ bound' = [bound EXCEPT ![i] = ctx]
    /\ stream' = [stream EXCEPT ![i] = "bound"]
    /\ UNCHANGED <<edgeVars, born, errChan, noticeVars>>

\* RTP and RTMP listen on one port; RTSP dials.
PortTaken == Kind # "rtsp" /\ \E i \in Streams : stream[i] = "running"

Open(i) ==
    /\ up
    /\ stream[i] = "bound"
    /\ \/ /\ ~PortTaken
          /\ stream' = [stream EXCEPT ![i] = "running"]
       \/ stream' = [stream EXCEPT ![i] = "failed"]
    /\ UNCHANGED <<edgeVars, born, bound, errChan, noticeVars>>

\* Slip: the context is looked at before the first packet only.
PacketNoCheck(i) ==
    /\ up
    /\ stream[i] = "running"
    /\ UNCHANGED vars

\* A packet: rtpListener and consumeRTSP look at the context after writing it,
\* consumeRTMP serves without ever looking.
Packet(i) ==
    /\ up
    /\ stream[i] = "running"
    /\ stream' = IF Kind # "rtmp" /\ Cancelled(bound[i])
                 THEN [stream EXCEPT ![i] = "over"]
                 ELSE stream
    /\ UNCHANGED <<edgeVars, born, bound, errChan, noticeVars>>

\* A read or a write fails, or the RTMP server stops serving.
SourceFails(i) ==
    /\ up
    /\ stream[i] = "running"
    /\ stream' = [stream EXCEPT ![i] = "failed"]
    /\ UNCHANGED <<edgeVars, born, bound, errChan, noticeVars>>

\* Slips: the error of a live stream is only logged; nobody minds the capacity.
SendErrorOverfills(i) ==
    /\ up
    /\ stream[i] = "failed"
    /\ errChan' = errChan + 1
    /\ stream' = [stream EXCEPT ![i] = "over"]
    /\ UNCHANGED <<edgeVars, born, bound, noticeVars>>

SendErrorLogs(i) ==
    /\ up
    /\ stream[i] = "failed"
    /\ stream' = [stream EXCEPT ![i] = "over"]
    /\ UNCHANGED <<edgeVars, born, bound, errChan, noticeVars>>

\* The error is put into errChan; Publish takes it out and returns, and with
\* it the command that runs both publishers.
SendError(i) ==
    /\ up
    /\ stream[i] = "failed"
    /\ errChan = 0
    /\ errChan' = 1
    /\ stream' = [stream EXCEPT ![i] = "over"]
    /\ UNCHANGED <<edgeVars, born, bound, noticeVars>>

PublishReturns ==
    /\ up
    /\ errChan = 1
    /\ errChan' = 0
    /\ up' = FALSE
    /\ UNCHANGED <<stateMux, isLivestreamStarted, ctx, stream, born, bound,
                   noticeVars>>

-----------------------------------------------------------------------------
LiveStream(i) ==
    ReadContext(i) \/ Open(i) \/ Packet(i) \/ SourceFails(i) \/ SendError(i)

Next ==
    \/ \E n \in Notices : Send(n)
    \/ \E j \in DOMAIN inbox : Lose(j) \/ HandleNotice(j)
    \/ \E i \in Streams : LiveStream(i)
    \/ IceDisconnected
    \/ PublishReturns

Spec == Init /\ [][Next]_vars

\* Goroutines run, and the source keeps sending packets to whoever listens.
Fairness ==
    /\ \A i \in Streams : /\ WF_vars(ReadContext(i))
                          /\ WF_vars(Open(i))
                          /\ WF_vars(Packet(i))
                          /\ WF_vars(SendError(i))
    /\ WF_vars(PublishReturns)

FairSpec == Spec /\ Fairness

-----------------------------------------------------------------------------
(* Correctness.                                                            *)

TypeOK ==
    /\ up \in BOOLEAN
    /\ stateMux \in {"free", "held"}
    /\ isLivestreamStarted \in BOOLEAN
    /\ ctx \in Nat
    /\ stream \in [Streams -> {"none", "spawned", "bound", "running",
                               "failed", "over"}]
    /\ born \in [Streams -> Nat]
    /\ bound \in [Streams -> Nat]
    /\ errChan \in {0, 1}
    /\ inbox \in Seq(Notices)
    /\ sent \in 0..MaxNotices
    /\ lastSent \in {"zero", "some"}
    /\ lost \in BOOLEAN /\ overtaken \in BOOLEAN

Started == {i \in Streams : stream[i] # "none"}

\* At most one stream is started between two cancels, whatever the order the
\* notices come in, and also when the peer connection is lost in between: the
\* flag and the context change together (publisher.go, listenSubscriber and
\* handleICEConnectionStateChange).
OneStreamPerContext ==
    \A i, j \in Started : i # j => born[i] # born[j]

\* While the flag says that the stream was started, there is one that has not
\* been told to stop, or its error is about to end the process: a viewer never
\* waits for a stream that the edge believes to run.
FlagTruthful ==
    isLivestreamStarted /\ up =>
        \/ errChan = 1
        \/ \E i \in Started : born[i] = ctx /\ stream[i] # "over"

\* With no notice lost or overtaken, the flag says what the last count said
\* once all are handled.
FlagFollowsCount ==
    ~lost /\ ~overtaken /\ stateMux = "free" /\ inbox = <<>> =>
        (isLivestreamStarted <=> lastSent = "some")

\* "It should listens to ctx.Done, and exit when done" (publisher.go:35): a
\* stream whose context is cancelled ends, given packets.
CancelledStreamEnds ==
    \A i \in Streams :
        (stream[i] = "running" /\ Cancelled(bound[i]))
            ~> (stream[i] # "running" \/ ~up)
=============================================================================
