----------------------------- MODULE PeerSignaling -----------------------------
(***************************************************************************)
(* One call of CreatePublisher or CreateSubscriber on the cloud: the caller *)
(* passes the offer and takes the answer through SignalChan, and            *)
(* signalPeerConnection answers and trickles candidates in both directions. *)
(*                                                                         *)
(* What runs beside it: pion's OnICECandidate callback (one at a time), the *)
(* addICECandidates goroutine and whoever fills its channel.  candidatesMux *)
(* makes the body of the callback and the sending of the pending candidates *)
(* critical sections, so each is one action.                               *)
(***************************************************************************)
EXTENDS Naturals, Sequences, SequencesExt

CONSTANTS
    Local,   \* candidates pion gathers
    Remote   \* candidates of the remote peer that reach the cloud

VARIABLES
    peer,        \* who made the offer: a "publisher" or a "viewer"
    step,        \* where the caller's goroutine is
    signalChan,  \* WebRTC.SignalChan
    described,   \* peerConnection.RemoteDescription() # nil
    gathering,   \* pion gathers candidates
    gathered,    \* those it has
    callback,    \* the candidate its callback is about, as a set
    pendingCandidates,
    sent,        \* candidates passed to sendCandidate
    dropped,     \* candidates for which sendCandidate returned an error
    inbox,       \* candidateChan
    arriving,    \* remote candidates on their way
    reading,     \* addICECandidates runs
    added        \* candidates passed to AddICECandidate

localVars  == <<gathering, gathered, callback, pendingCandidates, sent, dropped>>
remoteVars == <<inbox, arriving, reading, added>>
vars == <<peer, step, signalChan, described, localVars, remoteVars>>

NoBuffer == 0      \* Slip: an unbuffered channel.
SignalCap == 1     \* make(chan *webrtc.SessionDescription, 1)

CandidateCap == 2  \* make(chan string, 2)

-----------------------------------------------------------------------------
Init ==
    /\ peer \in {"publisher", "viewer"}
    /\ step = "new"
    /\ signalChan = <<>>
    /\ described = FALSE
    /\ gathering = FALSE
    /\ gathered = {} /\ callback = {}
    /\ pendingCandidates = <<>> /\ sent = <<>> /\ dropped = {}
    /\ inbox = <<>> /\ arriving = Remote
    /\ reading = FALSE
    /\ added = <<>>

-----------------------------------------------------------------------------
(* The caller's goroutine.                                                 *)

\* A send on SignalChan: whoever receives is further down the same goroutine.
Put(value) ==
    /\ Len(signalChan) < SignalCap
    /\ signalChan' = Append(signalChan, value)

\* A receive from it.
Get(value) ==
    /\ signalChan # <<>>
    /\ Head(signalChan) = value
    /\ signalChan' = Tail(signalChan)

PutOffer ==
    /\ step = "new"
    /\ Put("offer")
    /\ step' = "offered"
    /\ UNCHANGED <<peer, described, localVars, remoteVars>>

\* newPeerConnection, AddTransceiverFromKind or AddTrack fails.
SetupFails ==
    /\ step = "offered"
    /\ step' = "refused"
    /\ UNCHANGED <<peer, signalChan, described, localVars, remoteVars>>

\* Slip: addICECandidates is started with the channel it reads.
TakeOfferReads ==
    /\ step = "offered"
    /\ Get("offer")
    /\ step' = "listening"
    /\ reading' = TRUE
    /\ UNCHANGED <<peer, described, localVars, inbox, arriving, added>>

\* The offer is received, recvCandidate called and the callbacks are set.
TakeOffer ==
    /\ step = "offered"
    /\ Get("offer")
    /\ step' = "listening"
    /\ UNCHANGED <<peer, described, localVars, remoteVars>>

\* SetRemoteDescription, and the goroutine that adds remote candidates.
SetRemoteDescription ==
    /\ step = "listening"
    /\ described' = TRUE
    /\ reading' = TRUE
    /\ step' = "described"
    /\ UNCHANGED <<peer, signalChan, localVars, inbox, arriving, added>>

\* CreateAnswer and SetLocalDescription, which makes pion gather.
SetLocalDescription ==
    /\ step = "described"
    /\ gathering' = TRUE
    /\ step' = "answered"
    /\ UNCHANGED <<peer, signalChan, described, gathered, callback,
                   pendingCandidates, sent, dropped, remoteVars>>

\* Each of the three can fail; the peer connection and its goroutines stay.
DescriptionFails ==
    /\ step \in {"listening", "described"}
    /\ step' = "failed"
    /\ UNCHANGED <<peer, signalChan, described, localVars, remoteVars>>

PutAnswer ==
    /\ step = "answered"
    /\ Put("answer")
    /\ step' = "replied"
    /\ UNCHANGED <<peer, described, localVars, remoteVars>>

\* The pending candidates are sent; none of them is removed.
SendPending ==
    /\ step = "replied"
    /\ sent' = sent \o pendingCandidates
    /\ step' = "signaled"
    /\ UNCHANGED <<peer, signalChan, described, gathering, gathered, callback,
                   pendingCandidates, dropped, remoteVars>>

\* The caller sends the answer to its peer.
TakeAnswer ==
    /\ step = "signaled"
    /\ Get("answer")
    /\ step' = "settled"
    /\ UNCHANGED <<peer, described, localVars, remoteVars>>

\* The answer cannot be encoded or written, which ends a viewer's loop.
AnswerFails ==
    /\ step = "signaled"
    /\ Get("answer")
    /\ step' = "failed"
    /\ UNCHANGED <<peer, described, localVars, remoteVars>>

-----------------------------------------------------------------------------
(* Local candidates.                                                       *)

\* External: pion gathers, and calls back for one candidate after the other.
Gather(c) ==
    /\ gathering
    /\ callback = {}
    /\ c \in Local \ gathered
    /\ gathered' = gathered \cup {c}
    /\ callback' = {c}
    /\ UNCHANGED <<peer, step, signalChan, described, gathering,
                   pendingCandidates, sent, dropped, remoteVars>>

\* The candidate is published, or cannot be encoded and is dropped.
SendCandidate(c) ==
    \/ /\ sent' = Append(sent, c)
       /\ UNCHANGED dropped
    \/ /\ dropped' = dropped \cup {c}
       /\ UNCHANGED sent

\* Slip: the candidate is appended before the remote description is asked for.
OnICECandidateKeeps(c) ==
    /\ c \in callback
    /\ callback' = {}
    /\ pendingCandidates' = Append(pendingCandidates, c)
    /\ IF described THEN SendCandidate(c) ELSE UNCHANGED <<sent, dropped>>
    /\ UNCHANGED <<peer, step, signalChan, described, gathering, gathered,
                   remoteVars>>

\* The body of the OnICECandidate callback.
OnICECandidate(c) ==
    /\ c \in callback
    /\ callback' = {}
    /\ \/ /\ described
          /\ SendCandidate(c)
          /\ UNCHANGED pendingCandidates
       \/ /\ ~described
          /\ pendingCandidates' = Append(pendingCandidates, c)
          /\ UNCHANGED <<sent, dropped>>
    /\ UNCHANGED <<peer, step, signalChan, described, gathering, gathered,
                   remoteVars>>

-----------------------------------------------------------------------------
(* Remote candidates.                                                      *)

\* Who reads them: a handler of its own that recvCandidate subscribes, whatever
\* becomes of the offer; or the viewer's loop, which is this very goroutine, got
\* the offer first, comes to them when it is settled and ends with an error.
Listening ==
    \/ peer = "publisher" /\ step \notin {"new", "offered", "refused"}
    \/ peer = "viewer" /\ step = "settled"

\* Slip: the full channel does not hold the sender back.
ArriveUnbounded(r) ==
    /\ Listening
    /\ r \in arriving
    /\ inbox' = Append(inbox, r)
    /\ arriving' = arriving \ {r}
    /\ UNCHANGED <<peer, step, signalChan, described, localVars, reading, added>>

\* The MQTT handler or the WebSocket loop: it blocks while the channel is full.
Arrive(r) ==
    /\ Listening
    /\ r \in arriving
    /\ Len(inbox) < CandidateCap
    /\ inbox' = Append(inbox, r)
    /\ arriving' = arriving \ {r}
    /\ UNCHANGED <<peer, step, signalChan, described, localVars, reading, added>>

\* Slip: one candidate and no loop.
AddICECandidateOnce ==
    /\ reading
    /\ inbox # <<>>
    /\ added' = Append(added, Head(inbox))
    /\ inbox' = Tail(inbox)
    /\ reading' = FALSE
    /\ UNCHANGED <<peer, step, signalChan, described, localVars, arriving>>

\* One round of addICECandidates.
AddICECandidate ==
    /\ reading
    /\ inbox # <<>>
    /\ added' = Append(added, Head(inbox))
    /\ inbox' = Tail(inbox)
    /\ UNCHANGED <<peer, step, signalChan, described, localVars, arriving,
                   reading>>

-----------------------------------------------------------------------------
Caller ==
    \/ PutOffer \/ SetupFails \/ TakeOffer
    \/ SetRemoteDescription \/ SetLocalDescription \/ DescriptionFails
    \/ PutAnswer \/ SendPending \/ TakeAnswer \/ AnswerFails

Next ==
    \/ Caller
    \/ \E c \in Local : Gather(c) \/ OnICECandidate(c)
    \/ \E r \in Remote : Arrive(r)
    \/ AddICECandidate

Spec == Init /\ [][Next]_vars

-----------------------------------------------------------------------------
(* Correctness.                                                            *)

TypeOK ==
    /\ peer \in {"publisher", "viewer"}
    /\ step \in {"new", "offered", "listening", "described", "answered",
                 "replied", "signaled", "settled", "refused", "failed"}
    /\ signalChan \in Seq({"offer", "answer"}) /\ Len(signalChan) <= SignalCap
    /\ described \in BOOLEAN
    /\ gathering \in BOOLEAN
    /\ gathered \subseteq Local
    /\ callback \subseteq gathered
    /\ pendingCandidates \in Seq(Local)
    /\ sent \in Seq(Local)
    /\ dropped \subseteq Local
    /\ inbox \in Seq(Remote) /\ Len(inbox) <= CandidateCap
    /\ arriving \subseteq Remote
    /\ reading \in BOOLEAN
    /\ added \in Seq(Remote)

\* "Add candidate after setting remote description" (webrtc.go:208): whatever
\* arrives before it waits in the channel, and every remote candidate is
\* waiting, on its way, or was added, exactly once.
AddedAfterDescribed ==
    /\ added # <<>> => described
    /\ IsInjective(added \o inbox)
    /\ ToSet(added \o inbox) = Remote \ arriving

\* Trickling keeps its promise, liveness included: each gathered candidate is
\* sent once, with a remote description, and none stays in pendingCandidates
\* (signalPeerConnection, even when it returns an error halfway).
T == INSTANCE Trickle WITH Candidates <- Local
Trickles == T!FairSpec

\* "Make 1 buffer so SDP signaling never blocks" (webrtc.go:68): every offer
\* ends in an answer taken by the caller or in an error.
OfferSettled == <>(step \in {"settled", "refused", "failed"})

\* Once there is a remote description and somebody reads the candidates of the
\* remote peer, each is added, although more arrive than the channel holds; for
\* a publisher also when its signaling fails later (recvCandidate,
\* addICECandidates).
RemoteCandidatesAdded ==
    \A r \in Remote : described /\ Listening ~> r \in ToSet(added)
=============================================================================
