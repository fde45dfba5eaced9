--------------------------------- MODULE Page ----------------------------------
(***************************************************************************)
(* The page of a viewer at the other end of PeerSignaling: what the cloud   *)
(* writes to the WebSocket, candidates and the answer in whatever order     *)
(* they come about, and the page's listener, which keeps candidates until   *)
(* its peer connection has the answer.  JavaScript runs one event at a time *)
(* and setRemoteDescription settles in an event of its own.                 *)
(***************************************************************************)
EXTENDS PeerSignaling

VARIABLES
    socket,      \* messages the page has not read
    answer,      \* of setRemoteDescription: "none", "pending", "set", "rejected"
    candidates,  \* candidates that wait for it
    applied      \* candidates passed to pc.addIceCandidate

listenerVars == <<answer, candidates, applied>>
pageVars == <<vars, socket, listenerVars>>

Answer == "video-answer"
\* The two events of the socket are told apart by their names.
ASSUME PageAssumption == Answer \notin Local

answered == answer = "set"

PageInit ==
    /\ Init
    /\ socket = <<>>
    /\ answer = "none"
    /\ candidates = <<>> /\ applied = <<>>

-----------------------------------------------------------------------------
(* The cloud.                                                              *)

\* To a viewer sendCandidate writes what is sent, and the loop of the socket the
\* answer; what goes to an edge device takes another way.
NewlySent == SubSeq(sent', Len(sent) + 1, Len(sent'))
Write ==
    /\ socket' = IF peer = "viewer"
                 THEN socket \o NewlySent
                             \o (IF step' = "settled" /\ step # "settled"
                                 THEN <<Answer>> ELSE <<>>)
                 ELSE socket
    /\ UNCHANGED listenerVars

Cloud == Next /\ Write

-----------------------------------------------------------------------------
(* The listener of the page.                                               *)

ReadAnswer ==
    /\ socket # <<>> /\ Head(socket) = Answer
    /\ socket' = Tail(socket)
    /\ answer' = "pending"
    /\ UNCHANGED <<vars, candidates, applied>>

\* Slip: the candidates that waited are not removed.
DescribedKeeps ==
    /\ answer = "pending"
    /\ answer' = "set"
    /\ applied' = applied \o candidates
    /\ UNCHANGED <<vars, socket, candidates>>

\* setRemoteDescription has resolved; when it is rejected that is all.
Described ==
    /\ answer = "pending"
    /\ answer' = "set"
    /\ applied' = applied \o candidates
    /\ candidates' = <<>>
    /\ UNCHANGED <<vars, socket>>

Rejected ==
    /\ answer = "pending"
    /\ answer' = "rejected"
    /\ UNCHANGED <<vars, socket, candidates, applied>>

\* Slip: a candidate waits as soon as one may have to.
ReadCandidateKeeps ==
    /\ socket # <<>> /\ Head(socket) # Answer
    /\ socket' = Tail(socket)
    /\ candidates' = Append(candidates, Head(socket))
    /\ UNCHANGED <<vars, answer, applied>>

ReadCandidate ==
    /\ socket # <<>> /\ Head(socket) # Answer
    /\ socket' = Tail(socket)
    /\ \/ /\ ~answered
          /\ candidates' = Append(candidates, Head(socket))
          /\ UNCHANGED applied
       \/ /\ answered
          /\ applied' = Append(applied, Head(socket))
          /\ UNCHANGED candidates
    /\ UNCHANGED <<vars, answer>>

Listener == ReadAnswer \/ Described \/ Rejected \/ ReadCandidate

-----------------------------------------------------------------------------
PageNext == Cloud \/ Listener

\* Goroutines run and so does the browser's event loop; the remote peer and
\* pion's gathering promise nothing.
PageSpec ==
    /\ PageInit /\ [][PageNext]_pageVars
    /\ WF_pageVars(Caller /\ Write)
    /\ \A c \in Local : WF_pageVars(OnICECandidate(c) /\ Write)
    /\ \A r \in Remote : WF_pageVars(Arrive(r) /\ Write)
    /\ WF_pageVars(AddICECandidate /\ Write)
    /\ WF_pageVars(Listener)

-----------------------------------------------------------------------------
(* Correctness.                                                            *)

\* Nothing is lost, doubled or overtaken between the cloud and the page, and
\* no candidate is applied before the answer, although the cloud sends
\* candidates before it (subscriber.go:173, index.html).
InFlight ==
    IF \E i \in DOMAIN socket : socket[i] = Answer
    THEN RemoveAt(socket, CHOOSE i \in DOMAIN socket : socket[i] = Answer)
    ELSE socket
AppliedInOrder ==
    peer = "viewer" =>
        /\ applied # <<>> => answered
        /\ applied \o candidates \o InFlight = sent

\* Once the page is answered, every candidate the cloud sends is applied.
CandidatesApplied ==
    \A c \in Local : answered /\ c \in ToSet(sent) ~> c \in ToSet(applied)
=============================================================================
