----------------------------- MODULE EdgePublisher ------------------------------
(***************************************************************************)
(* The edge side of signaling: publisher.createPeerConnection, called by    *)
(* Publish and again by the retry loop of the "closed" callback, the        *)
(* one-time subscription of recvAnswer, and the ICE callbacks.  Candidates  *)
(* are the business of EdgeTrickle.                                        *)
(*                                                                         *)
(* Each call of createPeerConnection is an attempt with a peer connection   *)
(* and an answer channel of its own; the answer topic is the same for all.  *)
(***************************************************************************)
EXTENDS Naturals, FiniteSets

CONSTANTS
    MaxAttempts,  \* bound: calls of createPeerConnection
    Garbled       \* attempts that the cloud answers with what DecodeSDP rejects

Attempts == 1..MaxAttempts
NoAttempt == 0    \* no attempt; as a caller, Publish itself

ASSUME EdgePublisherAssumption ==
    /\ MaxAttempts \in Nat \ {0}
    /\ Garbled \subseteq Attempts

VARIABLES
    fault,          \* what ended the process, "none" while it runs
    stage,          \* how far each attempt is
    caller,         \* the attempt whose callback made it, or NoAttempt
    looping,        \* attempts whose "closed" callback is about to try again
    pc,             \* peer connection: "none", "open" or "closed"
    remote,         \* the offer whose answer is the remote description
    route,          \* paho: the attempt whose handler has the answer topic
    deaf,           \* attempts whose subscription paho threw away
    buffer, closed, \* answerChan: its one element or NoAttempt; is it closed
    handlers,       \* goroutines of the answer handler
    offered,        \* offers published and not yet answered
    answers,        \* answers on their way
    link,           \* pion: ICE state of each attempt
    calls,          \* pion: ICE callbacks that have not run yet
    stateMux, candidatesMux,  \* is the mutex locked
    online          \* the MQTT client is connected

processVars == <<fault, stateMux, candidatesMux>>
attemptVars == <<stage, caller, looping, pc, remote>>
answerVars  == <<route, deaf, buffer, closed, handlers, offered, answers>>
iceVars     == <<link, calls>>
vars == <<processVars, attemptVars, answerVars, iceVars, online>>

up == fault = "none"

-----------------------------------------------------------------------------
\* The command checks the connection before it publishes; that the time is up
\* is no error, and the client goes on trying.
CheckConnectivity == online \in BOOLEAN

Init ==
    /\ fault = "none"
    /\ stage = [a \in Attempts |-> "idle"]
    /\ caller = [a \in Attempts |-> NoAttempt]
    /\ looping = {NoAttempt}
    /\ pc = [a \in Attempts |-> "none"]
    /\ remote = [a \in Attempts |-> NoAttempt]
    /\ route = NoAttempt
    /\ deaf = {}
    /\ buffer = [a \in Attempts |-> NoAttempt]
    /\ closed = [a \in Attempts |-> FALSE]
    /\ handlers = {}
    /\ offered = {}
    /\ answers = {}
    /\ link = [a \in Attempts |-> "new"]
    /\ calls = [a \in Attempts |-> {}]
    /\ stateMux = FALSE
    /\ candidatesMux = FALSE
    /\ CheckConnectivity

-----------------------------------------------------------------------------
(* createPeerConnection.                                                   *)

\* The first call is made by Publish; the retry loop waits for the client to
\* be connected.
Begin(a, b) ==
    /\ up
    /\ b \in looping
    /\ b = NoAttempt \/ online
    /\ stage[a] = "idle" /\ \A c \in Attempts : c < a => stage[c] # "idle"
    /\ looping' = looping \ {b}
    /\ caller' = [caller EXCEPT ![a] = b]
    /\ stage' = [stage EXCEPT ![a] = "called"]
    /\ UNCHANGED <<processVars, pc, remote, answerVars, iceVars, online>>

\* The new handler takes the topic over from any older one.  Without a
\* connection, and ResumeSubs, paho throws the request away.
Subscribe(a) ==
    \/ online /\ route' = a /\ UNCHANGED deaf
    \/ ~online /\ deaf' = deaf \cup {a} /\ UNCHANGED route

\* Likewise; it takes the topic from whoever has it.
Unsubscribe == route' = IF online THEN NoAttempt ELSE route

\* recvAnswer; an error is only logged.
RecvAnswer(a) ==
    /\ up
    /\ stage[a] = "called"
    /\ Subscribe(a)
    /\ stage' = [stage EXCEPT ![a] = "subscribed"]
    /\ UNCHANGED <<processVars, caller, looping, pc, remote, buffer, closed,
                   handlers, offered, answers, iceVars, online>>

\* Peer connection, track, local description and offer.
SendOffer(a) ==
    /\ up
    /\ stage[a] = "subscribed"
    /\ pc' = [pc EXCEPT ![a] = "open"]
    /\ offered' = offered \cup {a}
    /\ stage' = [stage EXCEPT ![a] = "waiting"]
    /\ UNCHANGED <<processVars, caller, looping, remote, route, deaf, buffer,
                   closed, handlers, answers, iceVars, online>>

\* Slip: the retry loop ends with its first error.
ReturnErrorGivesUp(a, how) ==
    /\ stage' = [stage EXCEPT ![a] = how]
    /\ fault' = IF caller[a] = NoAttempt THEN "publish failed" ELSE fault
    /\ UNCHANGED looping

\* The call returns an error: Publish returns it and the command ends, the
\* retry loop logs it and tries again.
ReturnError(a, how) ==
    /\ stage' = [stage EXCEPT ![a] = how]
    /\ IF caller[a] = NoAttempt
       THEN fault' = "publish failed" /\ UNCHANGED looping
       ELSE looping' = looping \cup {caller[a]} /\ UNCHANGED fault

\* One of the calls before the offer is sent fails; the peer connection may
\* have been created by then, and nothing closes it.
SetupFails(a) ==
    /\ up
    /\ stage[a] = "subscribed"
    /\ \E s \in {"none", "open"} : pc' = [pc EXCEPT ![a] = s]
    /\ ReturnError(a, "errored")
    /\ UNCHANGED <<stateMux, candidatesMux, caller, remote, answerVars,
                   iceVars, online>>

\* SetRemoteDescription starts the ICE agent, or its error is only logged.
SetRemoteDescription(a, answer) ==
    \/ /\ remote' = [remote EXCEPT ![a] = answer]
       /\ link' = [link EXCEPT ![a] = "checking"]
    \/ UNCHANGED <<remote, link>>

\* The select: an answer; nil from a closed channel, which is dereferenced; or
\* the timer.
TakeAnswer(a) ==
    /\ up
    /\ stage[a] = "waiting"
    /\ buffer[a] # NoAttempt
    /\ SetRemoteDescription(a, buffer[a])
    /\ buffer' = [buffer EXCEPT ![a] = NoAttempt]
    /\ stage' = [stage EXCEPT ![a] = "described"]
    /\ UNCHANGED <<processVars, caller, looping, pc, route, deaf, closed,
                   handlers, offered, answers, calls, online>>

TakeNil(a) ==
    /\ up
    /\ stage[a] = "waiting"
    /\ buffer[a] = NoAttempt /\ closed[a]
    /\ fault' = "nil answer"
    /\ UNCHANGED <<stateMux, candidatesMux, attemptVars, answerVars, iceVars,
                   online>>

ClosePeerConnection(a) == pc' = [pc EXCEPT ![a] = "closed"]

\* Slip: the attempt that timed out is left open.
TimeOutLeaks(a) ==
    /\ up
    /\ stage[a] = "waiting"
    /\ ReturnError(a, "timedOut")
    /\ UNCHANGED <<stateMux, candidatesMux, caller, pc, remote, answerVars,
                   iceVars, online>>

TimeOut(a) ==
    /\ up
    /\ stage[a] = "waiting"
    /\ ClosePeerConnection(a)
    /\ ReturnError(a, "timedOut")
    /\ UNCHANGED <<stateMux, candidatesMux, caller, remote, answerVars,
                   iceVars, online>>

\* An error of closePeerConnection, after a time-out or in the "failed" branch,
\* is a panic.
ClosePanics(a) ==
    /\ up
    /\ stage[a] = "waiting" \/ "failed" \in calls[a]
    /\ fault' = "closing failed"
    /\ UNCHANGED <<stateMux, candidatesMux, attemptVars, answerVars, iceVars,
                   online>>

\* The pending candidates are sent under candidatesMux.
LockCandidates(a) ==
    /\ up
    /\ stage[a] = "described"
    /\ ~candidatesMux
    /\ candidatesMux' = TRUE
    /\ stage' = [stage EXCEPT ![a] = "flushing"]
    /\ UNCHANGED <<fault, stateMux, caller, looping, pc, remote, answerVars,
                   iceVars, online>>

\* Unlocking a mutex that is not locked is fatal.
UnlockCandidates ==
    /\ candidatesMux' = FALSE
    /\ fault' = IF candidatesMux THEN fault ELSE "unlock of unlocked mutex"

\* The deferred unlock; the call returns nil, and with it the retry loop.
Return(a) ==
    /\ up
    /\ stage[a] = "flushing"
    /\ UnlockCandidates
    /\ stage' = [stage EXCEPT ![a] = "signaled"]
    /\ UNCHANGED <<stateMux, caller, looping, pc, remote, answerVars, iceVars,
                   online>>

\* One of the pending candidates cannot be sent: the deferred unlock, and the
\* call returns an error, but its peer connection stays open and its ICE agent
\* goes on.  (Had somebody unlocked the mutex meanwhile, the unlock would end
\* the process as in Return.)
FlushFails(a) ==
    /\ up
    /\ stage[a] = "flushing"
    /\ candidatesMux /\ candidatesMux' = FALSE
    /\ ReturnError(a, "unsent")
    /\ UNCHANGED <<stateMux, caller, pc, remote, answerVars, iceVars, online>>

-----------------------------------------------------------------------------
(* The handler recvAnswer subscribes with, one goroutine per message.        *)

\* DecodeSDP returns an error for what is no protobuf, and panics on what holds
\* no JSON.
DecodeFails == fault' \in {"none", "undecodable answer"}

\* The closure of the attempt h.to handles h.msg: first the send, then the
\* deferred Unsubscribe and close.
HandleAnswer(h) ==
    /\ up
    /\ h \in handlers /\ h.at = "send"
    /\ \/ /\ h.msg \in Garbled
          /\ DecodeFails
          /\ UNCHANGED buffer
       \/ /\ h.msg \notin Garbled /\ closed[h.to]
          /\ fault' = "send on closed channel"
          /\ UNCHANGED buffer
       \/ /\ h.msg \notin Garbled /\ ~closed[h.to]
          /\ buffer[h.to] = NoAttempt
          /\ buffer' = [buffer EXCEPT ![h.to] = h.msg]
          /\ UNCHANGED fault
    /\ handlers' = (handlers \ {h}) \cup {[h EXCEPT !.at = "defer"]}
    /\ UNCHANGED <<stateMux, candidatesMux, attemptVars, route, deaf, closed,
                   offered, answers, iceVars, online>>

HandleDeferred(h) ==
    /\ up
    /\ h \in handlers /\ h.at = "defer"
    /\ Unsubscribe
    /\ closed' = [closed EXCEPT ![h.to] = TRUE]
    /\ fault' = IF closed[h.to] THEN "close of closed channel" ELSE fault
    /\ handlers' = handlers \ {h}
    /\ UNCHANGED <<stateMux, candidatesMux, attemptVars, deaf, buffer, offered,
                   answers, iceVars, online>>

-----------------------------------------------------------------------------
(* ICE callbacks.                                                          *)

\* Slip: the failed branch tries again too, besides the closed one.
OnFailedRetries(a) ==
    /\ up
    /\ "failed" \in calls[a]
    /\ ClosePeerConnection(a)
    /\ link' = [link EXCEPT ![a] = "closed"]
    /\ calls' = [calls EXCEPT ![a] = (@ \ {"failed"}) \cup {"closed"}]
    /\ looping' = looping \cup {a}
    /\ UNCHANGED <<processVars, stage, caller, remote, answerVars, online>>

\* The agent of a closed peer connection reports "closed".
OnFailed(a) ==
    /\ up
    /\ "failed" \in calls[a]
    /\ ClosePeerConnection(a)
    /\ link' = [link EXCEPT ![a] = "closed"]
    /\ calls' = [calls EXCEPT ![a] = (@ \ {"failed"}) \cup {"closed"}]
    /\ UNCHANGED <<processVars, stage, caller, looping, remote, answerVars,
                   online>>

OnClosed(a) ==
    /\ up
    /\ "closed" \in calls[a]
    /\ calls' = [calls EXCEPT ![a] = @ \ {"closed"}]
    /\ looping' = looping \cup {a}
    /\ UNCHANGED <<processVars, stage, caller, pc, remote, answerVars, link,
                   online>>

\* The branch locks one mutex and unlocks the other.
OnDisconnected(a) ==
    /\ up
    /\ "disconnected" \in calls[a]
    /\ ~stateMux
    /\ stateMux' = TRUE
    /\ UnlockCandidates
    /\ calls' = [calls EXCEPT ![a] = @ \ {"disconnected"}]
    /\ UNCHANGED <<attemptVars, answerVars, link, online>>

-----------------------------------------------------------------------------
(* External: the broker, the cloud, the ICE agent.                          *)

\* The cloud answers an offer once, at any time or never.
CloudAnswers(a) ==
    /\ up
    /\ a \in offered
    /\ offered' = offered \ {a}
    /\ answers' = answers \cup {a}
    /\ UNCHANGED <<processVars, attemptVars, route, deaf, buffer, closed,
                   handlers, iceVars, online>>

\* Slip: the message goes to a handler, subscribed or not.
DeliverAlways(m) ==
    /\ up /\ online
    /\ m \in answers
    /\ answers' = answers \ {m}
    /\ handlers' = handlers \cup {[to |-> route, msg |-> m, at |-> "send"]}
    /\ UNCHANGED <<processVars, attemptVars, route, deaf, buffer, closed,
                   offered, iceVars, online>>

\* A message goes to the handler that has the topic; without one it is gone.
Deliver(m) ==
    /\ up /\ online
    /\ m \in answers
    /\ answers' = answers \ {m}
    /\ handlers' = IF route = NoAttempt THEN handlers
                   ELSE handlers \cup {[to |-> route, msg |-> m, at |-> "send"]}
    /\ UNCHANGED <<processVars, attemptVars, route, deaf, buffer, closed,
                   offered, iceVars, online>>

\* The connection to the broker comes and goes.
Connection ==
    /\ up
    /\ online' = ~online
    /\ UNCHANGED <<processVars, attemptVars, answerVars, iceVars>>

\* Only the answer to its own offer lets an attempt connect.
AgentConnects(a) ==
    /\ up
    /\ pc[a] = "open"
    /\ link[a] \in {"checking", "disconnected"}
    /\ remote[a] = a
    /\ link' = [link EXCEPT ![a] = "connected"]
    /\ UNCHANGED <<processVars, attemptVars, answerVars, calls, online>>

AgentReports(a, from, to) ==
    /\ up
    /\ pc[a] = "open"
    /\ link[a] \in from
    /\ link' = [link EXCEPT ![a] = to]
    /\ calls' = [calls EXCEPT ![a] = @ \cup {to}]

AgentLoses(a) ==
    \/ /\ AgentReports(a, {"connected"}, "disconnected")
       /\ UNCHANGED <<processVars, attemptVars, answerVars, online>>
    \/ /\ AgentReports(a, {"checking", "connected", "disconnected"}, "failed")
       /\ UNCHANGED <<processVars, attemptVars, answerVars, online>>

\* The cloud says goodbye and pion closes the peer connection.
RemoteCloses(a) ==
    /\ AgentReports(a, {"connected", "disconnected"}, "closed")
    /\ pc' = [pc EXCEPT ![a] = "closed"]
    /\ UNCHANGED <<processVars, stage, caller, looping, remote, answerVars,
                   online>>

-----------------------------------------------------------------------------
Attempt(a) ==
    \/ RecvAnswer(a) \/ SendOffer(a) \/ SetupFails(a)
    \/ TakeAnswer(a) \/ TakeNil(a) \/ TimeOut(a)
    \/ LockCandidates(a) \/ Return(a) \/ FlushFails(a)
TryAgain(a) == \E b \in looping : Begin(a, b)
Callback(a) == OnFailed(a) \/ OnClosed(a) \/ OnDisconnected(a)
Agent(a)    == AgentConnects(a) \/ AgentLoses(a) \/ RemoteCloses(a)

Next ==
    \/ \E a \in Attempts : \/ TryAgain(a) \/ Attempt(a) \/ Callback(a)
                           \/ ClosePanics(a) \/ Agent(a) \/ CloudAnswers(a)
    \/ \E h \in handlers : HandleAnswer(h) \/ HandleDeferred(h)
    \/ \E m \in answers : Deliver(m)
    \/ Connection

Spec == Init /\ [][Next]_vars

\* Goroutines and timers run; the client is connected again and again, and the
\* retry loop, which never sleeps, gets to see it.
Fairness ==
    /\ \A a \in Attempts : /\ SF_vars(TryAgain(a))
                           /\ WF_vars(Attempt(a))
                           /\ WF_vars(OnFailed(a))
                           /\ WF_vars(OnClosed(a))
                           /\ WF_vars(OnDisconnected(a))
    /\ WF_vars(Connection)

FairSpec == Spec /\ Fairness

-----------------------------------------------------------------------------
(* Correctness.                                                            *)

TypeOK ==
    /\ fault \in {"none", "publish failed", "nil answer",
                  "unlock of unlocked mutex", "send on closed channel",
                  "close of closed channel", "undecodable answer",
                  "closing failed"}
    /\ stage \in [Attempts -> {"idle", "called", "subscribed", "waiting",
                               "described", "flushing", "signaled",
                               "timedOut", "errored", "unsent"}]
    /\ caller \in [Attempts -> Attempts \cup {NoAttempt}]
    /\ looping \subseteq Attempts \cup {NoAttempt}
    /\ pc \in [Attempts -> {"none", "open", "closed"}]
    /\ remote \in [Attempts -> Attempts \cup {NoAttempt}]
    /\ route \in Attempts \cup {NoAttempt}
    /\ deaf \subseteq Attempts
    /\ buffer \in [Attempts -> Attempts \cup {NoAttempt}]
    /\ closed \in [Attempts -> BOOLEAN]
    /\ handlers \subseteq [to : Attempts, msg : Attempts,
                           at : {"send", "defer"}]
    /\ offered \subseteq Attempts
    /\ answers \subseteq Attempts
    /\ link \in [Attempts -> {"new", "checking", "connected", "disconnected",
                              "failed", "closed"}]
    /\ calls \in [Attempts -> SUBSET {"disconnected", "failed", "closed"}]
    /\ stateMux \in BOOLEAN /\ candidatesMux \in BOOLEAN
    /\ online \in BOOLEAN

\* Attempts that wait for an answer, or are about to; whose setup failed; whose
\* flush failed.
Waiting == {a \in Attempts : stage[a] \in {"called", "subscribed", "waiting"}}
Errored == {a \in Attempts : stage[a] = "errored"}
Unsent  == {a \in Attempts : stage[a] = "unsent"}

\* There is one answer topic, and one attempt at a time that waits on it or is
\* about to be made, by Publish or a retry loop.  Only a flush that fails
\* adds one: its caller tries again at once, and so does its own "closed"
\* callback when its link, which it leaves running, is lost (createPeerConnection,
\* handleICEConnectionStateChange).
WaitersBounded ==
    Cardinality(Waiting) + Cardinality(looping) <= 1 + Cardinality(Unsent)

\* One track, one peer connection: a new attempt begins when the peer connection
\* of the one before is closed.  Besides those that a setup error leaves open,
\* for good, there are no more than flushes have failed.
OpenPeersBounded ==
    Cardinality({a \in Attempts \ Errored : pc[a] = "open"})
        <= 1 + Cardinality(Unsent)

\* As long as no attempt returned an error, no subscription thrown away and no
\* garbled answer delivered, every answer reaches the attempt that asked for it,
\* and the answer channel is neither closed nor used twice: two messages are
\* never inside the one-time handler (recvAnswer, signal.go:36-68).
AnswersMatch ==
    (/\ \A a \in Attempts : stage[a] \notin {"timedOut", "errored", "unsent"}
     /\ deaf = {}
     /\ \A a \in Garbled : \/ stage[a] \in {"idle", "called", "subscribed"}
                           \/ a \in offered \cup answers) =>
            /\ \A a \in Attempts : remote[a] \in {a, NoAttempt}
            /\ fault \notin {"nil answer", "send on closed channel",
                             "close of closed channel", "undecodable answer"}

\* Until the process ends, a link that failed leads to a new attempt, and an
\* attempt that has begun is signaled or followed by another: also one that
\* was begun without a connection to the broker, whose answer cannot come
\* (CheckConnectivity, createPeerConnection, handleICEConnectionStateChange).
Resumes(a) ==
    \/ ~up
    \/ \E b \in Attempts : b > a /\ stage[b] # "idle"
    \/ a = MaxAttempts /\ looping # {}

FailuresRetried ==
    \A a \in Attempts :
        /\ link[a] = "failed" ~> Resumes(a)
        /\ stage[a] # "idle" ~> stage[a] = "signaled" \/ Resumes(a)
=============================================================================
