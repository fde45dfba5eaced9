------------------------------ MODULE EdgeTrickle ------------------------------
(***************************************************************************)
(* Candidates on the edge.  createPeerConnection is called once and, when   *)
(* its peer connection has closed or the retry failed, again; the calls     *)
(* share pendingCandidates and the candidate topic, while each has a peer   *)
(* connection and a channel of its own.  OnICECandidate asks for the remote *)
(* description before it locks candidatesMux, so the question and the       *)
(* append are two actions.                                                  *)
(*                                                                         *)
(* The calls are those of one retry loop, one after the other.  A peer that  *)
(* a failed flush has left open gathers on beside them; that its link is     *)
(* lost later and starts a loop of its own is the business of EdgePublisher. *)
(***************************************************************************)
EXTENDS Naturals, FiniteSets, Sequences, SequencesExt

CONSTANTS
    MaxAttempts,  \* bound: calls of createPeerConnection
    Candidates,   \* what pion gathers: an attempt and a name
    Remote,       \* candidates the cloud sends
    Garbage       \* messages DecodeCandidate rejects

Attempts == 1..MaxAttempts

ASSUME EdgeTrickleAssumption ==
    /\ MaxAttempts \in Nat \ {0}
    /\ \A c \in Candidates : c[1] \in Attempts
    /\ Remote \cap Garbage = {}

VARIABLES
    fault,       \* what ended the process, "none" while it runs
    attempt,     \* the current attempt
    stage,       \* how far it is
    described,   \* attempts whose peer connection has a remote description
    leftOpen,    \* attempts whose flush failed: nobody closes their peer
    gathered,
    callback,    \* OnICECandidate of each attempt: its candidate and step
    pendingCandidates, candidatesMux,
    left,        \* pending candidates the loop has yet to send
    sent, lost,  \* candidates published; those whose publication failed
    route,       \* paho: the attempt whose handler has the candidate topic
    messages,    \* messages on that topic not delivered yet
    handlers,    \* goroutines of the handler of recvCandidate
    channel, closed,  \* candidateChan of each attempt
    taker,       \* signalCandidate of each attempt
    added        \* candidates passed to AddICECandidate

mainVars == <<fault, attempt, stage, described, leftOpen>>
sendVars == <<gathered, callback, pendingCandidates, candidatesMux, left, sent, lost>>
recvVars == <<route, messages, handlers, channel, closed, taker, added>>
vars == <<mainVars, sendVars, recvVars>>

up == fault = "none"
CandidateCap == 2  \* make(chan string, 2)
NoCallback == [at |-> "none"]

-----------------------------------------------------------------------------
Init ==
    /\ fault = "none"
    /\ attempt = 1 /\ stage = "subscribed"
    /\ described = {} /\ leftOpen = {}
    /\ gathered = {}
    /\ callback = [a \in Attempts |-> NoCallback]
    /\ pendingCandidates = <<>> /\ candidatesMux = FALSE /\ left = <<>>
    /\ sent = <<>> /\ lost = {}
    /\ route = 1
    /\ messages = Remote \cup Garbage
    /\ handlers = {}
    /\ channel = [a \in Attempts |-> <<>>]
    /\ closed = [a \in Attempts |-> FALSE]
    /\ taker = [a \in Attempts |-> "idle"]
    /\ added = [a \in Attempts |-> {}]

-----------------------------------------------------------------------------
(* createPeerConnection.                                                   *)

\* A new attempt: recvCandidate subscribes with a handler for a new channel.
Begin ==
    /\ up
    /\ attempt < MaxAttempts
    /\ stage \in {"signaled", "gaveUp"}
    /\ attempt' = attempt + 1
    /\ stage' = "subscribed"
    /\ route' = attempt + 1
    /\ UNCHANGED <<fault, described, leftOpen, sendVars, messages, handlers,
                   channel, closed, taker, added>>

\* SetLocalDescription, which makes pion gather, and the offer.
SendOffer ==
    /\ up
    /\ stage = "subscribed"
    /\ stage' = "waiting"
    /\ UNCHANGED <<fault, attempt, described, leftOpen, sendVars, recvVars>>

\* An error ends Publish, and the process, or only a round of the retry loop.
GiveUp ==
    /\ stage' = "gaveUp"
    /\ fault' = IF attempt = 1 THEN "publish failed" ELSE fault

TimeOut ==
    /\ up
    /\ stage = "waiting"
    /\ GiveUp
    /\ UNCHANGED <<attempt, described, leftOpen, sendVars, recvVars>>

\* An answer; an error of SetRemoteDescription is only logged.  Then
\* signalCandidate is started.
TakeAnswer ==
    /\ up
    /\ stage = "waiting"
    /\ \/ described' = described \cup {attempt}
       \/ UNCHANGED described
    /\ stage' = "described"
    /\ taker' = [taker EXCEPT ![attempt] = "selecting"]
    /\ UNCHANGED <<fault, attempt, leftOpen, sendVars, route, messages,
                   handlers, channel, closed, added>>

LockCandidates ==
    /\ up
    /\ stage = "described"
    /\ ~candidatesMux
    /\ candidatesMux' = TRUE
    /\ left' = pendingCandidates
    /\ stage' = "sending"
    /\ UNCHANGED <<fault, attempt, described, leftOpen, gathered, callback,
                   pendingCandidates, sent, lost, recvVars>>

SendPending ==
    /\ up
    /\ stage = "sending"
    /\ left # <<>>
    /\ sent' = Append(sent, Head(left))
    /\ left' = Tail(left)
    /\ UNCHANGED <<mainVars, gathered, callback, pendingCandidates,
                   candidatesMux, lost, recvVars>>

\* Slip: the deferred call only unlocks.
EmptyPendingKeeps ==
    /\ candidatesMux' = FALSE
    /\ UNCHANGED pendingCandidates

\* The deferred emptyPendingCandidate and unlock.
EmptyPending ==
    /\ pendingCandidates' = <<>>
    /\ candidatesMux' = FALSE

Return ==
    /\ up
    /\ stage = "sending"
    /\ left = <<>>
    /\ EmptyPending
    /\ stage' = "signaled"
    /\ UNCHANGED <<fault, attempt, described, leftOpen, gathered, callback,
                   left, sent, lost, recvVars>>

\* Slip: the error returns past the unlock.
SendPendingFailsLocked ==
    /\ up
    /\ stage = "sending"
    /\ left # <<>>
    /\ lost' = lost \cup ToSet(left)
    /\ left' = <<>>
    /\ pendingCandidates' = <<>>
    /\ leftOpen' = leftOpen \cup {attempt}
    /\ GiveUp
    /\ UNCHANGED <<attempt, described, gathered, callback, candidatesMux, sent,
                   recvVars>>

\* sendCandidate returns an error: so does the call, what was not sent is
\* emptied with the rest, and the peer connection stays open.
SendPendingFails ==
    /\ up
    /\ stage = "sending"
    /\ left # <<>>
    /\ lost' = lost \cup ToSet(left)
    /\ left' = <<>>
    /\ EmptyPending
    /\ leftOpen' = leftOpen \cup {attempt}
    /\ GiveUp
    /\ UNCHANGED <<attempt, described, gathered, callback, sent, recvVars>>

-----------------------------------------------------------------------------
(* OnICECandidate.                                                         *)

\* The peer connections that are open and have a local description.
Gathering ==
    leftOpen \cup IF stage \in {"subscribed", "gaveUp"} THEN {} ELSE {attempt}

\* External: pion gathers from SetLocalDescription until the peer connection
\* is closed, and calls back for one candidate after the other.
Gather(c) ==
    /\ up
    /\ c[1] \in Gathering
    /\ callback[c[1]] = NoCallback
    /\ c \notin gathered
    /\ gathered' = gathered \cup {c}
    /\ callback' = [callback EXCEPT ![c[1]] = [at |-> "ask", of |-> c]]
    /\ UNCHANGED <<mainVars, pendingCandidates, candidatesMux, left, sent,
                   lost, recvVars>>

\* Slip: the remote description is asked for after the candidate was kept.
AskKeeps(a) ==
    /\ up
    /\ callback[a].at = "ask"
    /\ ~candidatesMux
    /\ pendingCandidates' = Append(pendingCandidates, callback[a].of)
    /\ callback' = [callback EXCEPT ![a] =
                      IF a \in described THEN [@ EXCEPT !.at = "send"] ELSE NoCallback]
    /\ UNCHANGED <<mainVars, gathered, candidatesMux, left, sent, lost, recvVars>>

\* Slip: every candidate is kept for the loop.
AskNever(a) ==
    /\ up
    /\ callback[a].at = "ask"
    /\ callback' = [callback EXCEPT ![a].at = "append"]
    /\ UNCHANGED <<mainVars, gathered, pendingCandidates, candidatesMux, left,
                   sent, lost, recvVars>>

\* RemoteDescription() == nil decides, and the answer can be old when it is used.
Ask(a) ==
    /\ up
    /\ callback[a].at = "ask"
    /\ callback' = [callback EXCEPT ![a].at =
                      IF a \in described THEN "send" ELSE "append"]
    /\ UNCHANGED <<mainVars, gathered, pendingCandidates, candidatesMux, left,
                   sent, lost, recvVars>>

AppendPending(a) ==
    /\ up
    /\ callback[a].at = "append"
    /\ ~candidatesMux
    /\ pendingCandidates' = Append(pendingCandidates, callback[a].of)
    /\ callback' = [callback EXCEPT ![a] = NoCallback]
    /\ UNCHANGED <<mainVars, gathered, candidatesMux, left, sent, lost, recvVars>>

SendAtOnce(a) ==
    /\ up
    /\ callback[a].at = "send"
    /\ \/ /\ sent' = Append(sent, callback[a].of)
          /\ UNCHANGED lost
       \/ /\ lost' = lost \cup {callback[a].of}
          /\ UNCHANGED sent
    /\ callback' = [callback EXCEPT ![a] = NoCallback]
    /\ UNCHANGED <<mainVars, gathered, pendingCandidates, candidatesMux, left,
                   recvVars>>

-----------------------------------------------------------------------------
(* Candidates from the cloud.                                              *)

\* External: paho runs the handler that has the topic in a new goroutine.
Deliver(m) ==
    /\ up
    /\ stage # "subscribed"
    /\ m \in messages
    /\ messages' = messages \ {m}
    /\ handlers' = handlers \cup {[to |-> route, msg |-> m]}
    /\ UNCHANGED <<mainVars, sendVars, route, channel, closed, taker, added>>

\* Slip: the decoding error is logged and no more.
HandleGarbageSends(h) ==
    /\ up
    /\ h \in handlers /\ h.msg \in Garbage
    /\ handlers' = handlers \ {h}
    /\ Len(channel[h.to]) < CandidateCap
    /\ channel' = [channel EXCEPT ![h.to] = Append(@, h.msg)]
    /\ UNCHANGED <<mainVars, sendVars, route, messages, closed, taker, added>>

\* A message that cannot be decoded closes the channel.
HandleGarbage(h) ==
    /\ up
    /\ h \in handlers /\ h.msg \in Garbage
    /\ handlers' = handlers \ {h}
    /\ closed' = [closed EXCEPT ![h.to] = TRUE]
    /\ fault' = IF closed[h.to] THEN "close of closed channel" ELSE fault
    /\ UNCHANGED <<attempt, stage, described, leftOpen, sendVars, route,
                   messages, channel, taker, added>>

HandleCandidate(h) ==
    /\ up
    /\ h \in handlers /\ h.msg \in Remote
    /\ handlers' = handlers \ {h}
    /\ \/ /\ closed[h.to]
          /\ fault' = "send on closed channel"
          /\ UNCHANGED channel
       \/ /\ ~closed[h.to]
          /\ Len(channel[h.to]) < CandidateCap
          /\ channel' = [channel EXCEPT ![h.to] = Append(@, h.msg)]
          /\ UNCHANGED fault
    /\ UNCHANGED <<attempt, stage, described, leftOpen, sendVars, route,
                   messages, closed, taker, added>>

\* The select of signalCandidate: it takes one candidate, or the zero value of
\* a closed channel, or its timer fires.
TakeCandidate(a) ==
    /\ up
    /\ taker[a] = "selecting"
    /\ \/ /\ channel[a] # <<>>
          /\ added' = [added EXCEPT ![a] = @ \cup {Head(channel[a])}]
          /\ channel' = [channel EXCEPT ![a] = Tail(@)]
       \/ /\ channel[a] = <<>> /\ closed[a]
          /\ UNCHANGED <<added, channel>>
    /\ taker' = [taker EXCEPT ![a] = "done"]
    /\ UNCHANGED <<mainVars, sendVars, route, messages, handlers, closed>>

TakerTimesOut(a) ==
    /\ up
    /\ taker[a] = "selecting"
    /\ taker' = [taker EXCEPT ![a] = "timedOut"]
    /\ UNCHANGED <<mainVars, sendVars, route, messages, handlers, channel,
                   closed, added>>

-----------------------------------------------------------------------------
Main == \/ SendOffer \/ TakeAnswer \/ TimeOut
        \/ LockCandidates \/ SendPending \/ Return \/ SendPendingFails
Callback(a) == Ask(a) \/ AppendPending(a) \/ SendAtOnce(a)

Next ==
    \/ Begin
    \/ Main
    \/ \E c \in Candidates : Gather(c)
    \/ \E a \in Attempts : \/ Callback(a)
                           \/ TakeCandidate(a) \/ TakerTimesOut(a)
    \/ \E m \in messages : Deliver(m)
    \/ \E h \in handlers : HandleGarbage(h) \/ HandleCandidate(h)

Spec == Init /\ [][Next]_vars

\* The goroutines are scheduled, and sync.Mutex hands itself to a waiter that
\* has starved: nobody is overtaken at candidatesMux for ever.
Fairness ==
    /\ WF_vars(Main)
    /\ \A a \in Attempts : SF_vars(Callback(a))

FairSpec == Spec /\ Fairness

-----------------------------------------------------------------------------
(* Correctness.                                                            *)

TypeOK ==
    /\ fault \in {"none", "publish failed", "send on closed channel",
                  "close of closed channel"}
    /\ attempt \in Attempts
    /\ stage \in {"subscribed", "waiting", "described", "sending", "signaled",
                  "gaveUp"}
    /\ described \subseteq Attempts /\ leftOpen \subseteq Attempts
    /\ gathered \subseteq Candidates
    /\ callback \in [Attempts -> {NoCallback} \cup
                       [at : {"ask", "append", "send"}, of : Candidates]]
    /\ pendingCandidates \in Seq(Candidates) /\ left \in Seq(Candidates)
    /\ candidatesMux \in BOOLEAN
    /\ sent \in Seq(Candidates)
    /\ lost \subseteq Candidates
    /\ route \in Attempts
    /\ messages \subseteq Remote \cup Garbage
    /\ handlers \subseteq [to : Attempts, msg : Remote \cup Garbage]
    /\ channel \in [Attempts -> Seq(Remote)]
    /\ \A a \in Attempts : Len(channel[a]) <= CandidateCap
    /\ closed \in [Attempts -> BOOLEAN]
    /\ taker \in [Attempts -> {"idle", "selecting", "done", "timedOut"}]
    /\ added \in [Attempts -> SUBSET Remote]

\* Every candidate pion gathered is in exactly one place: with its callback,
\* pending, sent or lost; nothing overwrites or empties what was not sent.
InCallback == {callback[a].of : a \in {b \in Attempts : callback[b] # NoCallback}}
Waiting == IF stage = "sending" THEN left ELSE pendingCandidates

GatheredAccounted ==
    /\ IsInjective(sent \o Waiting)
    /\ gathered = InCallback \cup ToSet(sent \o Waiting) \cup lost
    /\ InCallback \cap (ToSet(sent \o Waiting) \cup lost) = {}

\* Over all attempts the edge trickles safely: a candidate is sent at most
\* once and never before an answer was received (pendingCandidates, whatever
\* the callbacks and the failing attempts do to it).
Answered == \E a \in Attempts : taker[a] # "idle"
T == INSTANCE Trickle WITH described <- Answered, dropped <- lost
TricklesSafely == T!Spec

\* A callback that waits for candidatesMux gets it and returns, although a
\* flush may stop at a candidate that cannot be sent (the deferred function of
\* publisher.go:165-168).
MutexServes ==
    \A a \in Attempts :
        callback[a] # NoCallback ~> callback[a] = NoCallback \/ ~up

\* pendingCandidates is emptied when signaling is over, but a callback may have
\* asked for the remote description before the answer came and append later.
\* Only one can: pion calls back for one candidate at a time, and the next one
\* finds the description (publisher.go:105-116, 292).
Over(a) == a < attempt \/ stage \in {"signaled", "gaveUp"}
PendingOf(a) == {c \in ToSet(pendingCandidates) : c[1] = a}

OneStrandedAtMost ==
    \A a \in described : Over(a) => Cardinality(PendingOf(a)) <= 1
=============================================================================
