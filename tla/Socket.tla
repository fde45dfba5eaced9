--------------------------------- MODULE Socket ---------------------------------
(***************************************************************************)
(* One WebSocket of a viewer: Subscriber.processMessage, its channel of     *)
(* candidates per track source, and the addICECandidates goroutine that     *)
(* every signaled offer leaves behind as a reader of that channel.          *)
(*                                                                         *)
(* The client sends candidates only for track sources it has offered        *)
(* before, as e2e/broadcast/static/index.html does.  The candidates of a    *)
(* track source are numbered.                                              *)
(***************************************************************************)
EXTENDS Naturals, Sequences, SequencesExt

CONSTANTS
    TrackSources,   \* DRONE and MONITOR
    MaxCandidates,  \* bound: candidates of a track source
    MaxOffers,      \* bound: offers, each with at most one reader
    MaxOther        \* bound: messages that are neither

ASSUME SocketAssumption ==
    MaxCandidates \in Nat /\ MaxOffers \in Nat /\ MaxOther \in Nat

Readers == 1..MaxOffers
CandidateCap == 2  \* make(chan string, 2)

VARIABLES
    registered,  \* track sources with a session
    wire,        \* messages of the client the loop has not read
    offered,     \* track sources the client has offered
    offers, count, others,  \* what the client has sent so far
    loop,        \* "read", "put" while it sends on a channel, or "over"
    held,        \* the candidate it sends, as a sequence
    channel, closed,
    source,      \* reader -> its track source, once it runs
    running,     \* readers still in their loop
    taken        \* candidates each reader has taken

clientVars == <<wire, offered, offers, count, others>>
readerVars == <<source, running, taken>>
vars == <<registered, clientVars, loop, held, channel, closed, readerVars>>

Offer(ts) == [event |-> "video-offer", ts |-> ts]
Candidate(ts, n) == [event |-> "new-ice-candidate", ts |-> ts, n |-> n]
Malformed == [event |-> "malformed"]  \* JSON or metadata is not in order
Unknown == [event |-> "unknown"]

-----------------------------------------------------------------------------
Init ==
    /\ registered = {}
    /\ wire = <<>> /\ offered = {} /\ offers = 0 /\ others = 0
    /\ count = [ts \in TrackSources |-> 0]
    /\ loop = "read" /\ held = <<>>
    /\ channel = [ts \in TrackSources |-> <<>>]
    /\ closed = FALSE
    /\ source = <<>>
    /\ running = {}
    /\ taken = [r \in Readers |-> <<>>]

-----------------------------------------------------------------------------
(* External: publishers register sessions, the client sends messages.       *)

Register(ts) ==
    /\ ts \notin registered
    /\ registered' = registered \cup {ts}
    /\ UNCHANGED <<clientVars, loop, held, channel, closed, readerVars>>

ClientOffers(ts) ==
    /\ offers < MaxOffers
    /\ wire' = Append(wire, Offer(ts))
    /\ offered' = offered \cup {ts}
    /\ offers' = offers + 1
    /\ UNCHANGED <<registered, count, others, loop, held, channel, closed,
                   readerVars>>

ClientTrickles(ts) ==
    /\ ts \in offered
    /\ count[ts] < MaxCandidates
    /\ wire' = Append(wire, Candidate(ts, count[ts] + 1))
    /\ count' = [count EXCEPT ![ts] = @ + 1]
    /\ UNCHANGED <<registered, offered, offers, others, loop, held, channel,
                   closed, readerVars>>

ClientSendsOther(m) ==
    /\ others < MaxOther
    /\ wire' = Append(wire, m)
    /\ others' = others + 1
    /\ UNCHANGED <<registered, offered, offers, count, loop, held, channel,
                   closed, readerVars>>

-----------------------------------------------------------------------------
(* processMessage.                                                         *)

Read(event) ==
    /\ loop = "read"
    /\ wire # <<>>
    /\ Head(wire).event = event
    /\ wire' = Tail(wire)

\* Slip: the channels stay open.
ReturnLeaksChannels ==
    /\ loop' = "over"
    /\ UNCHANGED closed

\* Every return runs the deferred function that closes the channels.
Return ==
    /\ loop' = "over"
    /\ closed' = TRUE

\* Slip: addICECandidates is not started.
StartReaderForgets(ts) ==
    /\ source' = Append(source, ts)
    /\ UNCHANGED running

\* recvCandidate gives the peer the channel of the track source, and
\* addICECandidates ranges over it.
StartReader(ts) ==
    /\ source' = Append(source, ts)
    /\ running' = running \cup {Len(source')}

\* An offer: its track source has a session, and CreateSubscriber and the
\* answer work out, or one of them fails, before or after addICECandidates
\* was started.
ReadOffer ==
    /\ Read("video-offer")
    /\ \/ /\ Head(wire).ts \in registered
          /\ StartReader(Head(wire).ts)
          /\ \/ UNCHANGED <<loop, closed>>
             \/ Return
       \/ /\ Return
          /\ UNCHANGED <<source, running>>
    /\ UNCHANGED <<registered, offered, offers, count, others, held, channel,
                   taken>>

\* A candidate, without a session for it: the connection is given up.
ReadCandidate ==
    /\ Read("new-ice-candidate")
    /\ \/ /\ Head(wire).ts \in registered
          /\ loop' = "put"
          /\ held' = <<Head(wire)>>
          /\ UNCHANGED closed
       \/ /\ Head(wire).ts \notin registered
          /\ Return
          /\ UNCHANGED held
    /\ UNCHANGED <<registered, offered, offers, count, others, channel,
                   readerVars>>

\* Slips: a full channel takes one more, or the candidate is thrown away.
PutCandidateUnbounded ==
    /\ loop = "put"
    /\ channel' = [channel EXCEPT ![held[1].ts] = Append(@, held[1].n)]
    /\ held' = <<>>
    /\ loop' = "read"
    /\ UNCHANGED <<registered, clientVars, closed, readerVars>>

PutCandidateOrDrop ==
    /\ loop = "put"
    /\ channel' = [channel EXCEPT ![held[1].ts] =
                     IF Len(@) < CandidateCap THEN Append(@, held[1].n) ELSE @]
    /\ held' = <<>>
    /\ loop' = "read"
    /\ UNCHANGED <<registered, clientVars, closed, readerVars>>

\* The send blocks as long as the channel is full, whatever happens to the
\* connection meanwhile.
PutCandidate ==
    /\ loop = "put"
    /\ Len(channel[held[1].ts]) < CandidateCap
    /\ channel' = [channel EXCEPT ![held[1].ts] = Append(@, held[1].n)]
    /\ held' = <<>>
    /\ loop' = "read"
    /\ UNCHANGED <<registered, clientVars, closed, readerVars>>

ReadMalformed ==
    /\ Read("malformed")
    /\ Return
    /\ UNCHANGED <<registered, offered, offers, count, others, held, channel,
                   readerVars>>

ReadUnknown ==
    /\ Read("unknown")
    /\ UNCHANGED <<registered, offered, offers, count, others, loop, held,
                   channel, closed, readerVars>>

\* The client is gone, or the connection broke.
ReadFails ==
    /\ loop = "read"
    /\ Return
    /\ UNCHANGED <<registered, clientVars, held, channel, readerVars>>

-----------------------------------------------------------------------------
(* addICECandidates of reader r: a range over the channel, which hands out   *)
(* what is left in a closed channel before it ends.                         *)

Take(r) ==
    /\ r \in running
    /\ channel[source[r]] # <<>>
    /\ taken' = [taken EXCEPT ![r] = Append(@, Head(channel[source[r]]))]
    /\ channel' = [channel EXCEPT ![source[r]] = Tail(@)]
    /\ UNCHANGED <<registered, clientVars, loop, held, closed, source, running>>

End(r) ==
    /\ r \in running
    /\ channel[source[r]] = <<>> /\ closed
    /\ running' = running \ {r}
    /\ UNCHANGED <<registered, clientVars, loop, held, channel, closed, source,
                   taken>>

-----------------------------------------------------------------------------
Client ==
    \/ \E ts \in TrackSources : ClientOffers(ts) \/ ClientTrickles(ts)
    \/ \E m \in {Malformed, Unknown} : ClientSendsOther(m)
Loop == ReadOffer \/ ReadCandidate \/ PutCandidate \/ ReadMalformed \/ ReadUnknown

Next ==
    \/ \E ts \in TrackSources : Register(ts)
    \/ Client
    \/ Loop \/ ReadFails
    \/ \E r \in Readers : Take(r) \/ End(r)

Spec == Init /\ [][Next]_vars

\* Goroutines run; the client and the network promise nothing.
FairSpec ==
    /\ Spec
    /\ WF_vars(Loop)
    /\ \A r \in Readers : WF_vars(Take(r) \/ End(r))

-----------------------------------------------------------------------------
(* Correctness.                                                            *)

Candidates == {Candidate(ts, n) : ts \in TrackSources, n \in 1..MaxCandidates}
Messages ==
    {Malformed, Unknown} \cup {Offer(ts) : ts \in TrackSources} \cup Candidates

TypeOK ==
    /\ registered \subseteq TrackSources
    /\ offered \subseteq TrackSources
    /\ wire \in Seq(Messages)
    /\ offers \in 0..MaxOffers
    /\ count \in [TrackSources -> 0..MaxCandidates]
    /\ others \in 0..MaxOther
    /\ loop \in {"read", "put", "over"}
    /\ held \in Seq(Candidates)
    /\ Len(held) = IF loop = "put" THEN 1 ELSE 0
    /\ channel \in [TrackSources -> Seq(1..MaxCandidates)]
    /\ \A ts \in TrackSources : Len(channel[ts]) <= CandidateCap
    /\ closed \in BOOLEAN
    /\ source \in Seq(TrackSources) /\ Len(source) <= MaxOffers
    /\ running \subseteq 1..Len(source)
    /\ taken \in [Readers -> Seq(1..MaxCandidates)]

\* The candidates of a track source are numbered; where they are, from the back:
\* among the messages the loop has not dealt with, in the channel, with a reader.
Undealt == held \o wire
CandidatesIn(q, ts) ==
    {i \in DOMAIN q : q[i].event = "new-ice-candidate" /\ q[i].ts = ts}
Coming(q, ts) == {q[i].n : i \in CandidatesIn(q, ts)}
ReadersOf(ts) == {r \in DOMAIN source : source[r] = ts}
Taken(ts) == UNION {ToSet(taken[r]) : r \in ReadersOf(ts)}

Increasing(q) == \A i, j \in DOMAIN q : i < j => q[i] < q[j]
InOrder(q, ts) == \A i, j \in CandidatesIn(q, ts) : i < j => q[i].n < q[j].n
Before(A, B) == \A a \in A, b \in B : a < b

\* Not one candidate is lost, duplicated or overtaken on its way through the
\* loop and a channel, no matter how full it gets or when the socket goes; two
\* offers for one track source share its candidates out between their peers
\* (processMessage, recvCandidate, addICECandidates).
CandidatesKept ==
    loop # "over" =>
        \A ts \in TrackSources :
            /\ Taken(ts) \cup ToSet(channel[ts]) \cup Coming(Undealt, ts)
                   = 1..count[ts]
            /\ Before(Taken(ts), ToSet(channel[ts]) \cup Coming(Undealt, ts))
            /\ Before(ToSet(channel[ts]), Coming(Undealt, ts))
            /\ InOrder(Undealt, ts) /\ Increasing(channel[ts])
            /\ \A r \in ReadersOf(ts) : Increasing(taken[r])
            /\ \A r, q \in ReadersOf(ts) :
                   r # q => ToSet(taken[r]) \cap ToSet(taken[q]) = {}

\* A client that offers first never wedges the loop, although its send on a
\* channel has no way out: every message is read, or the connection is over.
MessagesRead == wire # <<>> ~> wire = <<>> \/ loop = "over"

\* When the socket is gone every goroutine it started ends, and only after it
\* has added the candidates that were in the channel by then.
ReadersEnd ==
    loop = "over" ~> running = {} /\ \A ts \in TrackSources : channel[ts] = <<>>
=============================================================================
