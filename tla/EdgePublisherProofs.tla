-------------------------- MODULE EdgePublisherProofs --------------------------
(***************************************************************************)
(* Theorems about the attempts of the edge, for any number of them and any  *)
(* garbled answers: types, how many attempts can overlap, and that an answer *)
(* reaches the attempt that asked for it.                                   *)
(***************************************************************************)
EXTENDS EdgePublisher, FiniteSetTheorems, TLAPS

-----------------------------------------------------------------------------
(* Type correctness.                                                       *)

LEMMA TypeInitially == Init => TypeOK
<1> SUFFICES ASSUME Init PROVE TypeOK
    OBVIOUS
<1>1. /\ stage \in [Attempts -> {"idle", "called", "subscribed", "waiting",
                                "described", "flushing", "signaled",
                                "timedOut", "errored", "unsent"}]
      /\ pc \in [Attempts -> {"none", "open", "closed"}]
      /\ link \in [Attempts -> {"new", "checking", "connected", "disconnected",
                               "failed", "closed"}]
      /\ calls \in [Attempts -> SUBSET {"disconnected", "failed", "closed"}]
      BY DEF Init
<1>2. /\ caller \in [Attempts -> Attempts \cup {NoAttempt}]
      /\ remote \in [Attempts -> Attempts \cup {NoAttempt}]
      /\ buffer \in [Attempts -> Attempts \cup {NoAttempt}]
      BY DEF Init
<1>3. closed \in [Attempts -> BOOLEAN]
      BY Zenon DEF Init
<1>4. stateMux \in BOOLEAN /\ candidatesMux \in BOOLEAN /\ online \in BOOLEAN
      BY Zenon DEF Init, CheckConnectivity
<1>5. QED BY <1>1, <1>2, <1>3, <1>4 DEF Init, TypeOK

\* How a call that returns an error changes the fault and the retry loops.
LEMMA ReturnErrorTypes ==
    ASSUME TypeOK, NEW a \in Attempts,
           NEW how \in {"timedOut", "errored", "unsent"}, ReturnError(a, how)
    PROVE  /\ fault' \in {"none", "publish failed", "nil answer",
                          "unlock of unlocked mutex", "send on closed channel",
                          "close of closed channel", "undecodable answer",
                          "closing failed"}
           /\ looping' \subseteq Attempts \cup {NoAttempt}
           /\ stage' \in [Attempts -> {"idle", "called", "subscribed", "waiting",
                                       "described", "flushing", "signaled",
                                       "timedOut", "errored", "unsent"}]
BY ZenonT(40) DEF TypeOK, ReturnError

LEMMA AttemptTypes ==
    ASSUME TypeOK, NEW a \in Attempts, Attempt(a)
    PROVE  TypeOK'
<1> USE DEF TypeOK, processVars, answerVars, iceVars, attemptVars
<1>1. CASE RecvAnswer(a)
      BY <1>1 DEF RecvAnswer, Subscribe
<1>2. CASE SendOffer(a)
      BY <1>2 DEF SendOffer
<1>3. CASE SetupFails(a)
      BY <1>3, ReturnErrorTypes, ZenonT(40) DEF SetupFails
<1>4. CASE TakeAnswer(a)
  <2>1. /\ remote' \in [Attempts -> Attempts \cup {NoAttempt}]
        /\ link' \in [Attempts -> {"new", "checking", "connected",
                                   "disconnected", "failed", "closed"}]
    <3>1. buffer[a] \in Attempts \cup {NoAttempt}
          OBVIOUS
    <3>2. CASE /\ remote' = [remote EXCEPT ![a] = buffer[a]]
               /\ link' = [link EXCEPT ![a] = "checking"]
          BY <3>1, <3>2
    <3>3. CASE UNCHANGED <<remote, link>>
          BY <3>3
    <3>4. QED BY <1>4, <3>2, <3>3 DEF TakeAnswer, SetRemoteDescription
  <2>2. QED BY <1>4, <2>1 DEF TakeAnswer
<1>5. CASE TakeNil(a)
      BY <1>5 DEF TakeNil
<1>6. CASE TimeOut(a)
      BY <1>6, ReturnErrorTypes DEF TimeOut, ClosePeerConnection
<1>7. CASE LockCandidates(a)
      BY <1>7 DEF LockCandidates
<1>8. CASE Return(a)
      BY <1>8 DEF Return, UnlockCandidates
<1>9. CASE FlushFails(a)
      BY <1>9, ReturnErrorTypes DEF FlushFails
<1>10. QED BY <1>1, <1>2, <1>3, <1>4, <1>5, <1>6, <1>7, <1>8, <1>9 DEF Attempt

LEMMA CallbackTypes ==
    ASSUME TypeOK, NEW a \in Attempts,
           Callback(a) \/ Agent(a) \/ ClosePanics(a)
    PROVE  TypeOK'
<1> USE DEF TypeOK, processVars, answerVars, iceVars, attemptVars
<1>1. CASE OnFailed(a)
      BY <1>1 DEF OnFailed, ClosePeerConnection
<1>2. CASE OnClosed(a)
      BY <1>2 DEF OnClosed
<1>3. CASE OnDisconnected(a)
      BY <1>3 DEF OnDisconnected, UnlockCandidates
<1>4. CASE AgentConnects(a)
      BY <1>4 DEF AgentConnects
<1>5. CASE AgentLoses(a)
  <2>1. \E to \in {"disconnected", "failed"} :
            /\ link' = [link EXCEPT ![a] = to]
            /\ calls' = [calls EXCEPT ![a] = @ \cup {to}]
        BY <1>5 DEF AgentLoses, AgentReports
  <2>2. UNCHANGED <<processVars, attemptVars, answerVars, online>>
        BY <1>5 DEF AgentLoses
  <2>3. PICK to \in {"disconnected", "failed"} :
            /\ link' = [link EXCEPT ![a] = to]
            /\ calls' = [calls EXCEPT ![a] = @ \cup {to}]
        BY <2>1
  <2>4. link' \in [Attempts -> {"new", "checking", "connected", "disconnected",
                               "failed", "closed"}]
        BY <2>3
  <2>5. calls' \in [Attempts -> SUBSET {"disconnected", "failed", "closed"}]
        BY <2>3
  <2>6. QED BY <2>2, <2>4, <2>5
<1>6. CASE RemoteCloses(a)
      BY <1>6 DEF RemoteCloses, AgentReports
<1>7. CASE ClosePanics(a)
      BY <1>7 DEF ClosePanics
<1>8. QED BY <1>1, <1>2, <1>3, <1>4, <1>5, <1>6, <1>7 DEF Callback, Agent

\* The answer handler after its send.
LEMMA HandlerTypes ==
    ASSUME NEW h \in [to : Attempts, msg : Attempts, at : {"send", "defer"}]
    PROVE  [h EXCEPT !.at = "defer"]
               \in [to : Attempts, msg : Attempts, at : {"send", "defer"}]
OBVIOUS

LEMMA MessageTypes ==
    ASSUME TypeOK,
           \/ \E h \in handlers : HandleAnswer(h) \/ HandleDeferred(h)
           \/ \E m \in answers : Deliver(m)
           \/ \E a \in Attempts : CloudAnswers(a)
    PROVE  TypeOK'
<1> USE DEF TypeOK, processVars, iceVars, attemptVars
<1>1. ASSUME NEW h \in handlers, HandleAnswer(h) PROVE TypeOK'
  <2>1. h.to \in Attempts /\ h.msg \in Attempts
        OBVIOUS
  <2>2. handlers' \subseteq [to : Attempts, msg : Attempts,
                             at : {"send", "defer"}]
    <3>1. [h EXCEPT !.at = "defer"] \in [to : Attempts, msg : Attempts,
                                         at : {"send", "defer"}]
          BY HandlerTypes
    <3>2. QED BY <1>1, <3>1 DEF HandleAnswer
  <2>3. fault' \in {"none", "send on closed channel", "undecodable answer"}
        BY <1>1 DEF HandleAnswer, DecodeFails, up
  <2>4. buffer' \in [Attempts -> Attempts \cup {NoAttempt}]
    <3>1. \/ buffer' = buffer
          \/ buffer' = [buffer EXCEPT ![h.to] = h.msg]
          BY <1>1 DEF HandleAnswer
    <3>2. buffer \in [Attempts -> Attempts \cup {NoAttempt}]
          OBVIOUS
    <3>3. QED BY ONLY <2>1, <3>1, <3>2
  <2>5. QED BY <1>1, <2>2, <2>3, <2>4 DEF HandleAnswer
<1>2. ASSUME NEW h \in handlers, HandleDeferred(h) PROVE TypeOK'
      BY <1>2 DEF HandleDeferred, Unsubscribe
<1>3. ASSUME NEW m \in answers, Deliver(m) PROVE TypeOK'
  <2>1. handlers' \subseteq [to : Attempts, msg : Attempts,
                             at : {"send", "defer"}]
    <3>1. CASE route = NoAttempt
          BY <1>3, <3>1 DEF Deliver
    <3>2. CASE route # NoAttempt
      <4>1. handlers' = handlers \cup {[to |-> route, msg |-> m, at |-> "send"]}
            BY <1>3, <3>2 DEF Deliver
      <4>2. [to |-> route, msg |-> m, at |-> "send"]
                \in [to : Attempts, msg : Attempts, at : {"send", "defer"}]
            BY <3>2
      <4>3. QED BY <4>1, <4>2
    <3>3. QED BY <3>1, <3>2
  <2>2. /\ answers' \subseteq Attempts
        /\ UNCHANGED <<processVars, attemptVars, route, deaf, buffer, closed,
                       offered, iceVars, online>>
        BY <1>3 DEF Deliver
  <2>3. QED BY <2>1, <2>2
<1>4. ASSUME NEW a \in Attempts, CloudAnswers(a) PROVE TypeOK'
      BY <1>4 DEF CloudAnswers
<1>5. QED BY <1>1, <1>2, <1>3, <1>4

LEMMA TypeStep == TypeOK /\ [Next]_vars => TypeOK'
<1> SUFFICES ASSUME TypeOK, [Next]_vars PROVE TypeOK'
    OBVIOUS
<1>1. ASSUME NEW a \in Attempts, TryAgain(a) PROVE TypeOK'
  <2>1. PICK b \in looping : Begin(a, b)
        BY <1>1 DEF TryAgain
  <2>2. b \in Attempts \cup {NoAttempt}
        BY DEF TypeOK
  <2>3. QED BY <2>1, <2>2 DEF Begin, TypeOK, processVars, answerVars, iceVars
<1>2. ASSUME NEW a \in Attempts, Attempt(a) PROVE TypeOK'
      BY <1>2, AttemptTypes
<1>3. ASSUME NEW a \in Attempts, Callback(a) \/ Agent(a) \/ ClosePanics(a)
      PROVE  TypeOK'
      BY <1>3, CallbackTypes
<1>4. ASSUME \/ \E h \in handlers : HandleAnswer(h) \/ HandleDeferred(h)
             \/ \E m \in answers : Deliver(m)
             \/ \E a \in Attempts : CloudAnswers(a)
      PROVE  TypeOK'
      BY <1>4, MessageTypes
<1>5. CASE Connection
  <2>1. online' \in BOOLEAN
        BY <1>5 DEF Connection
  <2>2. QED BY <1>5, <2>1 DEF Connection, TypeOK, processVars, attemptVars,
                answerVars, iceVars
<1>6. CASE UNCHANGED vars
      BY <1>6 DEF TypeOK, vars, processVars, attemptVars, answerVars, iceVars
<1>7. QED BY <1>1, <1>2, <1>3, <1>4, <1>5, <1>6 DEF Next

\* Every reachable state has the types the code declares.
THEOREM TypeCorrect == Spec => []TypeOK
BY TypeInitially, TypeStep, PTL DEF Spec

-----------------------------------------------------------------------------
(* Turns.  An attempt has one while it is calling; while its link is not      *)
(* closed; when its "closed" callback is about to run; and when that callback *)
(* is about to try again.  A turn moves from one to the next, and only a      *)
(* flush that fails makes one.                                              *)

Described == {"described", "flushing", "signaled", "unsent"}

Holds(kind, a) ==
    \/ /\ kind = "calling" /\ a \in Attempts
       /\ stage[a] \in {"called", "subscribed", "waiting"}
    \/ /\ kind = "live" /\ a \in Attempts
       /\ stage[a] \in Described /\ link[a] # "closed"
    \/ /\ kind = "ended" /\ a \in Attempts
       /\ "closed" \in calls[a]
    \/ /\ kind = "again" /\ a \in looping

Kinds == {"calling", "live", "ended", "again"}
Callers == Attempts \cup {NoAttempt}
Turns == {t \in Kinds \X Callers : Holds(t[1], t[2])}

TurnsBounded == Cardinality(Turns) <= 1 + Cardinality(Unsent)

\* A link starts with the answer, a failed one stays so until its callback
\* closes the peer connection, and an open peer connection has a turn unless
\* its setup failed.
LinkStage == \A a \in Attempts : link[a] # "new" => stage[a] \in Described
FailedLink == \A a \in Attempts : "failed" \in calls[a] => link[a] = "failed"
OpenStage ==
    \A a \in Attempts :
        pc[a] = "open" => /\ stage[a] \in {"waiting", "errored"} \cup Described
                          /\ link[a] # "closed"

TurnInv == TypeOK /\ LinkStage /\ FailedLink /\ OpenStage /\ TurnsBounded

\* All that is counted is finite.
LEMMA FiniteAttempts ==
    /\ IsFiniteSet(Attempts) /\ IsFiniteSet(Turns) /\ IsFiniteSet(Turns')
    /\ IsFiniteSet(Unsent) /\ IsFiniteSet(Unsent')
    /\ Cardinality(Turns) \in Nat
    /\ Cardinality(Unsent) \in Nat /\ Cardinality(Unsent') \in Nat
<1>1. IsFiniteSet(Attempts)
  <2>1. 1 \in Int /\ MaxAttempts \in Int
        BY EdgePublisherAssumption
  <2>2. QED BY <2>1, FS_Interval DEF Attempts
<1>2. IsFiniteSet(Kinds)
  <2>1. IsFiniteSet({"calling"}) /\ IsFiniteSet({"live"})
        /\ IsFiniteSet({"ended"}) /\ IsFiniteSet({"again"})
        BY FS_Singleton
  <2>2. IsFiniteSet({"calling"} \cup {"live"})
        /\ IsFiniteSet({"ended"} \cup {"again"})
        BY <2>1, FS_Union
  <2>3. IsFiniteSet(({"calling"} \cup {"live"}) \cup ({"ended"} \cup {"again"}))
        BY <2>2, FS_Union
  <2>4. Kinds = ({"calling"} \cup {"live"}) \cup ({"ended"} \cup {"again"})
        BY DEF Kinds
  <2>5. QED BY <2>3, <2>4
<1>3. IsFiniteSet(Callers)
      BY <1>1, FS_AddElement DEF Callers
<1>4. IsFiniteSet(Kinds \X Callers)
      BY <1>2, <1>3, FS_Product
<1>5. Turns \in SUBSET (Kinds \X Callers) /\ Turns' \in SUBSET (Kinds \X Callers)
      BY DEF Turns
<1>6. Unsent \in SUBSET Attempts /\ Unsent' \in SUBSET Attempts
      BY DEF Unsent
<1>7. /\ IsFiniteSet(Turns) /\ IsFiniteSet(Turns')
      /\ IsFiniteSet(Unsent) /\ IsFiniteSet(Unsent')
      BY <1>1, <1>4, <1>5, <1>6, FS_Subset
<1>8. QED BY <1>1, <1>7, FS_CardinalityType

LEMMA TurnInitially == Init => TurnInv
<1> SUFFICES ASSUME Init PROVE TurnInv
    OBVIOUS
<1>1. TypeOK
      BY TypeInitially
<1>2. LinkStage /\ FailedLink /\ OpenStage
      BY DEF Init, LinkStage, FailedLink, OpenStage
<1>3. TurnsBounded
  <2>1. Turns = {<<"again", NoAttempt>>}
        BY DEF Init, Turns, Holds, Described, Kinds, Callers
  <2>2. Cardinality(Turns) = 1
        BY <2>1, FS_Singleton
  <2>3. Cardinality(Unsent) \in Nat
        BY FiniteAttempts
  <2>4. QED BY <2>2, <2>3 DEF TurnsBounded
<1>4. QED BY <1>1, <1>2, <1>3 DEF TurnInv

-----------------------------------------------------------------------------
(* The turns stay, one of them moves, or one is made.                       *)

LEMMA TurnStays ==
    ASSUME TurnsBounded, Unsent \subseteq Unsent',
           \A k \in Kinds, a \in Callers : Holds(k, a)' => Holds(k, a)
    PROVE  TurnsBounded'
<1>1. Turns' \subseteq Turns
      BY DEF Turns
<1>2. Cardinality(Turns') <= Cardinality(Turns) /\ Cardinality(Turns') \in Nat
      BY <1>1, FiniteAttempts, FS_Subset, FS_CardinalityType
<1>3. Cardinality(Unsent) <= Cardinality(Unsent')
      BY FiniteAttempts, FS_Subset
<1>4. QED BY <1>2, <1>3, FiniteAttempts DEF TurnsBounded

LEMMA TurnMoves ==
    ASSUME TurnsBounded, Unsent \subseteq Unsent',
           NEW from \in Kinds, NEW x \in Callers, Holds(from, x),
           NEW to, NEW y,
           \A k \in Kinds, a \in Callers :
               Holds(k, a)' => \/ k = to /\ a = y
                               \/ Holds(k, a) /\ ~(k = from /\ a = x)
    PROVE  TurnsBounded'
<1> DEFINE t == <<from, x>>
           u == <<to, y>>
<1>1. t \in Turns
      BY DEF Turns
<1>2. Turns' \subseteq (Turns \ {t}) \cup {u}
      BY DEF Turns
<1> HIDE DEF t, u
<1>3. /\ IsFiniteSet(Turns \ {t})
      /\ Cardinality(Turns \ {t}) = Cardinality(Turns) - 1
      BY <1>1, FiniteAttempts, FS_RemoveElement
<1>4. /\ IsFiniteSet((Turns \ {t}) \cup {u})
      /\ Cardinality((Turns \ {t}) \cup {u}) <= Cardinality(Turns)
  <2>1. IsFiniteSet((Turns \ {t}) \cup {u})
        BY <1>3, FS_AddElement
  <2>2. Cardinality((Turns \ {t}) \cup {u})
            = IF u \in Turns \ {t} THEN Cardinality(Turns \ {t})
              ELSE Cardinality(Turns \ {t}) + 1
        BY <1>3, FS_AddElement
  <2>3. QED BY <1>3, <2>1, <2>2, FiniteAttempts
<1>5. /\ Cardinality(Turns') <= Cardinality((Turns \ {t}) \cup {u})
      /\ Cardinality(Turns') \in Nat /\ Cardinality((Turns \ {t}) \cup {u}) \in Nat
      BY <1>2, <1>4, FS_Subset, FS_CardinalityType
<1>6. Cardinality(Unsent) <= Cardinality(Unsent')
      BY FiniteAttempts, FS_Subset
<1>7. QED BY <1>4, <1>5, <1>6, FiniteAttempts DEF TurnsBounded

LEMMA TurnMade ==
    ASSUME TurnsBounded, NEW b \in Attempts \ Unsent,
           Unsent' = Unsent \cup {b}, NEW to, NEW y,
           \A k \in Kinds, a \in Callers :
               Holds(k, a)' => Holds(k, a) \/ (k = to /\ a = y)
    PROVE  TurnsBounded'
<1> DEFINE u == <<to, y>>
<1>1. Turns' \subseteq Turns \cup {u}
      BY DEF Turns
<1> HIDE DEF u
<1>2. /\ IsFiniteSet(Turns \cup {u})
      /\ Cardinality(Turns \cup {u}) <= Cardinality(Turns) + 1
  <2>1. /\ IsFiniteSet(Turns \cup {u})
        /\ Cardinality(Turns \cup {u})
              = IF u \in Turns THEN Cardinality(Turns) ELSE Cardinality(Turns) + 1
        BY FiniteAttempts, FS_AddElement
  <2>2. QED BY <2>1, FiniteAttempts
<1>3. /\ Cardinality(Turns') <= Cardinality(Turns \cup {u})
      /\ Cardinality(Turns') \in Nat /\ Cardinality(Turns \cup {u}) \in Nat
      BY <1>1, <1>2, FS_Subset, FS_CardinalityType
<1>4. Cardinality(Unsent') = Cardinality(Unsent) + 1
      BY FiniteAttempts, FS_AddElement
<1>5. QED BY <1>2, <1>3, <1>4, FiniteAttempts DEF TurnsBounded

\* What a step that leaves the stages, the links and the callbacks alone does.
LEMMA LinksKept ==
    ASSUME TurnInv, UNCHANGED <<stage, pc, looping, link, calls>>
    PROVE  (LinkStage /\ FailedLink /\ OpenStage /\ TurnsBounded)'
<1>1. \A k \in Kinds, a \in Callers : Holds(k, a)' => Holds(k, a)
      BY DEF Holds
<1>2. TurnsBounded'
  <2>1. Unsent \subseteq Unsent'
        BY DEF Unsent
  <2>2. QED BY <1>1, <2>1, TurnStays DEF TurnInv
<1>3. QED BY <1>2 DEF TurnInv, LinkStage, FailedLink, OpenStage

LEMMA BeginTurn ==
    ASSUME TurnInv, Unsent \subseteq Unsent',
           NEW a \in Attempts, NEW b \in looping, Begin(a, b)
    PROVE  (LinkStage /\ FailedLink /\ OpenStage /\ TurnsBounded)'
<1> USE DEF TurnInv, TypeOK, Begin, iceVars
<1>1. b \in Callers
      BY DEF Callers
<1>2. link[a] = "new" /\ pc[a] # "open"
      BY DEF LinkStage, OpenStage, Described
<1>3. LinkStage' /\ FailedLink' /\ OpenStage'
      BY <1>2 DEF LinkStage, FailedLink, OpenStage, Described
<1>4. TurnsBounded'
  <2>1. Holds("again", b) /\ "again" \in Kinds /\ TurnsBounded
        BY DEF Holds, Kinds
  <2>2. \A k \in Kinds, c \in Callers :
            Holds(k, c)' => \/ k = "calling" /\ c = a
                            \/ Holds(k, c) /\ ~(k = "again" /\ c = b)
        BY DEF Holds, Described
  <2> HIDE DEF TurnInv, TypeOK, Begin, iceVars
  <2>3. QED BY <1>1, <2>1, <2>2, TurnMoves
<1>5. QED BY <1>3, <1>4

\* An attempt that returns an error gives the turn back to its caller.
LEMMA ErrorTurn ==
    ASSUME TurnInv, Unsent \subseteq Unsent',
           NEW a \in Attempts, NEW how \in {"timedOut", "errored"},
           stage[a] \in {"subscribed", "waiting"},
           ReturnError(a, how), UNCHANGED <<link, calls>>
    PROVE  LinkStage' /\ FailedLink' /\ TurnsBounded'
<1> USE DEF TurnInv, TypeOK
<1>1. /\ stage' = [stage EXCEPT ![a] = how]
      /\ looping' \subseteq looping \cup {caller[a]}
      BY DEF ReturnError
<1>2. link[a] = "new"
      BY DEF LinkStage, Described
<1>3. LinkStage' /\ FailedLink'
      BY <1>1, <1>2 DEF LinkStage, FailedLink, Described
<1>4. TurnsBounded'
  <2>1. /\ Holds("calling", a) /\ a \in Callers
        /\ "calling" \in Kinds /\ TurnsBounded
        BY DEF Holds, Callers, Kinds
  <2>2. \A k \in Kinds, c \in Callers :
            Holds(k, c)' => \/ k = "again" /\ c = caller[a]
                            \/ Holds(k, c) /\ ~(k = "calling" /\ c = a)
        BY <1>1 DEF Holds, Described
  <2> HIDE DEF TurnInv, TypeOK
  <2>3. QED BY <2>1, <2>2, TurnMoves
<1>5. QED BY <1>3, <1>4

LEMMA AttemptTurn ==
    ASSUME TurnInv, Unsent \subseteq Unsent', NEW a \in Attempts, Attempt(a)
    PROVE  (LinkStage /\ FailedLink /\ OpenStage /\ TurnsBounded)'
<1> USE DEF TurnInv, TypeOK, iceVars
<1>1. CASE RecvAnswer(a)
  <2>1. LinkStage' /\ FailedLink' /\ OpenStage'
        BY <1>1 DEF RecvAnswer, LinkStage, FailedLink, OpenStage, Described
  <2>2. \A k \in Kinds, c \in Callers : Holds(k, c)' => Holds(k, c)
        BY <1>1 DEF RecvAnswer, Holds, Described
  <2>3. QED BY <2>1, <2>2, TurnStays
<1>2. CASE SendOffer(a)
  <2>1. link[a] = "new"
        BY <1>2 DEF SendOffer, LinkStage, Described
  <2>2. LinkStage' /\ FailedLink' /\ OpenStage'
        BY <1>2, <2>1 DEF SendOffer, LinkStage, FailedLink, OpenStage, Described
  <2>3. \A k \in Kinds, c \in Callers : Holds(k, c)' => Holds(k, c)
        BY <1>2 DEF SendOffer, Holds, Described
  <2>4. QED BY <2>2, <2>3, TurnStays
<1>3. CASE SetupFails(a)
  <2>1. LinkStage' /\ FailedLink' /\ TurnsBounded'
        BY <1>3, ErrorTurn DEF SetupFails
  <2>2. link[a] = "new"
        BY <1>3 DEF SetupFails, LinkStage, Described
  <2>3. OpenStage'
        BY <1>3, <2>2 DEF SetupFails, ReturnError, OpenStage
  <2>4. QED BY <2>1, <2>3
<1>4. CASE TakeAnswer(a)
  <2>1. /\ stage[a] = "waiting" /\ stage' = [stage EXCEPT ![a] = "described"]
        /\ \/ link' = [link EXCEPT ![a] = "checking"]
           \/ link' = link
        /\ UNCHANGED <<pc, looping, calls>>
        BY <1>4 DEF TakeAnswer, SetRemoteDescription
  <2>2. link[a] = "new"
        BY <2>1 DEF LinkStage, Described
  <2>3. LinkStage' /\ FailedLink' /\ OpenStage'
        BY <2>1, <2>2 DEF LinkStage, FailedLink, OpenStage, Described
  <2>4. /\ Holds("calling", a) /\ a \in Callers
        /\ "calling" \in Kinds /\ TurnsBounded
        BY <2>1 DEF Holds, Callers, Kinds
  <2>5. \A k \in Kinds, c \in Callers :
            Holds(k, c)' => \/ k = "live" /\ c = a
                            \/ Holds(k, c) /\ ~(k = "calling" /\ c = a)
        BY <2>1 DEF Holds, Described
  <2> HIDE DEF TurnInv, TypeOK, iceVars
  <2>6. QED BY <2>3, <2>4, <2>5, TurnMoves
<1>5. CASE TakeNil(a)
      BY <1>5, LinksKept DEF TakeNil, attemptVars
<1>6. CASE TimeOut(a)
  <2>1. LinkStage' /\ FailedLink' /\ TurnsBounded'
        BY <1>6, ErrorTurn DEF TimeOut
  <2>2. OpenStage'
        BY <1>6 DEF TimeOut, ReturnError, ClosePeerConnection, OpenStage
  <2>3. QED BY <2>1, <2>2
<1>7. ASSUME stage[a] \in Described, NEW s \in Described,
             stage' = [stage EXCEPT ![a] = s],
             UNCHANGED <<pc, looping, link, calls>>
      PROVE  (LinkStage /\ FailedLink /\ OpenStage /\ TurnsBounded)'
  <2>1. LinkStage' /\ FailedLink' /\ OpenStage'
        BY <1>7 DEF LinkStage, FailedLink, OpenStage, Described
  <2>2. \A k \in Kinds, c \in Callers : Holds(k, c)' => Holds(k, c)
        BY <1>7 DEF Holds, Described
  <2>3. QED BY <2>1, <2>2, TurnStays
<1>8. CASE LockCandidates(a)
      BY <1>7, <1>8 DEF LockCandidates, Described
<1>9. CASE Return(a)
      BY <1>7, <1>9 DEF Return, Described
<1>10. CASE FlushFails(a)
  <2>1. /\ stage[a] = "flushing" /\ stage' = [stage EXCEPT ![a] = "unsent"]
        /\ looping' \subseteq looping \cup {caller[a]}
        /\ UNCHANGED <<pc, link, calls>>
        BY <1>10 DEF FlushFails, ReturnError
  <2>2. LinkStage' /\ FailedLink' /\ OpenStage'
        BY <2>1 DEF LinkStage, FailedLink, OpenStage, Described
  <2>3. stage'[a] = "unsent" /\ \A c \in Attempts \ {a} : stage'[c] = stage[c]
        BY <2>1
  <2>4. TurnsBounded
        OBVIOUS
  <2> HIDE DEF TurnInv, TypeOK, iceVars
  <2>5. a \in Attempts \ Unsent /\ Unsent' = Unsent \cup {a}
        BY <2>1, <2>3 DEF Unsent
  <2>6. \A k \in Kinds, c \in Callers :
            Holds(k, c)' => Holds(k, c) \/ (k = "again" /\ c = caller[a])
    <3>1. Holds("live", a)' => Holds("live", a)
          BY <2>1 DEF Holds, Described
    <3>2. \A k \in Kinds : ~(k = "calling" /\ Holds(k, a)')
          BY <2>3 DEF Holds
    <3>3. QED BY <2>1, <2>3, <3>1, <3>2 DEF Holds
  <2>7. QED BY <2>2, <2>4, <2>5, <2>6, TurnMade
<1>11. QED BY <1>1, <1>2, <1>3, <1>4, <1>5, <1>6, <1>8, <1>9, <1>10 DEF Attempt

LEMMA CallbackTurn ==
    ASSUME TurnInv, Unsent \subseteq Unsent', NEW a \in Attempts, Callback(a)
    PROVE  (LinkStage /\ FailedLink /\ OpenStage /\ TurnsBounded)'
<1> USE DEF TurnInv, TypeOK
<1>1. CASE OnFailed(a)
  <2>1. /\ "failed" \in calls[a]
        /\ link' = [link EXCEPT ![a] = "closed"]
        /\ pc' = [pc EXCEPT ![a] = "closed"]
        /\ calls' = [calls EXCEPT ![a] = (@ \ {"failed"}) \cup {"closed"}]
        /\ UNCHANGED <<stage, looping>>
        BY <1>1 DEF OnFailed, ClosePeerConnection
  <2>2. link[a] = "failed" /\ stage[a] \in Described
        BY <2>1 DEF FailedLink, LinkStage
  <2>3. LinkStage' /\ FailedLink' /\ OpenStage'
        BY <2>1, <2>2 DEF LinkStage, FailedLink, OpenStage
  <2>4. /\ Holds("live", a) /\ a \in Callers
        /\ "live" \in Kinds /\ TurnsBounded
        BY <2>2 DEF Holds, Callers, Kinds
  <2>5. \A k \in Kinds, c \in Callers :
            Holds(k, c)' => \/ k = "ended" /\ c = a
                            \/ Holds(k, c) /\ ~(k = "live" /\ c = a)
        BY <2>1 DEF Holds
  <2> HIDE DEF TurnInv, TypeOK
  <2>6. QED BY <2>3, <2>4, <2>5, TurnMoves
<1>2. CASE OnClosed(a)
  <2>1. /\ "closed" \in calls[a]
        /\ calls' = [calls EXCEPT ![a] = @ \ {"closed"}]
        /\ looping' = looping \cup {a}
        /\ UNCHANGED <<stage, pc, link>>
        BY <1>2 DEF OnClosed
  <2>2. LinkStage' /\ FailedLink' /\ OpenStage'
        BY <2>1 DEF LinkStage, FailedLink, OpenStage
  <2>3. /\ Holds("ended", a) /\ a \in Callers
        /\ "ended" \in Kinds /\ TurnsBounded
        BY <2>1 DEF Holds, Callers, Kinds
  <2>4. \A k \in Kinds, c \in Callers :
            Holds(k, c)' => \/ k = "again" /\ c = a
                            \/ Holds(k, c) /\ ~(k = "ended" /\ c = a)
        BY <2>1 DEF Holds
  <2> HIDE DEF TurnInv, TypeOK
  <2>5. QED BY <2>2, <2>3, <2>4, TurnMoves
<1>3. CASE OnDisconnected(a)
  <2>1. /\ calls' = [calls EXCEPT ![a] = @ \ {"disconnected"}]
        /\ UNCHANGED <<stage, pc, link, looping>>
        BY <1>3 DEF OnDisconnected, attemptVars
  <2>2. LinkStage' /\ FailedLink' /\ OpenStage'
        BY <2>1 DEF LinkStage, FailedLink, OpenStage
  <2>3. \A k \in Kinds, c \in Callers : Holds(k, c)' => Holds(k, c)
        BY <2>1 DEF Holds
  <2>4. QED BY <2>2, <2>3, TurnStays
<1>4. QED BY <1>1, <1>2, <1>3 DEF Callback

LEMMA AgentTurn ==
    ASSUME TurnInv, Unsent \subseteq Unsent', NEW a \in Attempts, Agent(a)
    PROVE  (LinkStage /\ FailedLink /\ OpenStage /\ TurnsBounded)'
<1> USE DEF TurnInv, TypeOK
<1>1. ASSUME NEW to \in {"connected", "disconnected", "failed"},
             link[a] \in {"checking", "connected", "disconnected"},
             link' = [link EXCEPT ![a] = to],
             \/ to = "connected" /\ calls' = calls
             \/ calls' = [calls EXCEPT ![a] = @ \cup {to}] /\ to # "connected",
             UNCHANGED <<stage, pc, looping>>
      PROVE  (LinkStage /\ FailedLink /\ OpenStage /\ TurnsBounded)'
  <2>1. \A b \in Attempts : link'[b] = IF b = a THEN to ELSE link[b]
        BY <1>1
  <2>2. /\ \A b \in Attempts \ {a} : calls'[b] = calls[b]
        /\ \/ to = "connected" /\ calls'[a] = calls[a]
           \/ to # "connected" /\ calls'[a] = calls[a] \cup {to}
        BY <1>1
  <2>3. LinkStage' /\ OpenStage'
        BY <1>1 DEF LinkStage, OpenStage
  <2>4. FailedLink'
    <3>1. "failed" \notin calls[a]
          BY <1>1 DEF FailedLink
    <3>2. "failed" \in calls'[a] => link'[a] = "failed"
          BY <2>1, <2>2, <3>1
    <3>3. \A b \in Attempts \ {a} : "failed" \in calls'[b] => link'[b] = "failed"
          BY <2>1, <2>2 DEF FailedLink
    <3>4. QED BY <3>2, <3>3 DEF FailedLink
  <2>5. \A k \in Kinds, c \in Callers : Holds(k, c)' => Holds(k, c)
    <3> to # "closed"
          OBVIOUS
    <3>1. "closed" \in calls'[a] => "closed" \in calls[a]
          BY <2>2
    <3>2. \A b \in Attempts : "closed" \in calls'[b] => "closed" \in calls[b]
          BY <2>2, <3>1
    <3>3. \A b \in Attempts : link'[b] # "closed" => link[b] # "closed"
          BY <1>1, <2>1
    <3>4. QED BY <1>1, <3>2, <3>3 DEF Holds
  <2>6. QED BY <2>3, <2>4, <2>5, TurnStays
<1>2. CASE AgentConnects(a)
      BY <1>1, <1>2 DEF AgentConnects, attemptVars
<1>3. CASE AgentLoses(a)
  <2>1. PICK to \in {"disconnected", "failed"} :
            /\ link[a] \in {"checking", "connected", "disconnected"}
            /\ link' = [link EXCEPT ![a] = to]
            /\ calls' = [calls EXCEPT ![a] = @ \cup {to}]
            /\ UNCHANGED <<stage, pc, looping>>
        BY <1>3 DEF AgentLoses, AgentReports, attemptVars
  <2>2. to \in {"connected", "disconnected", "failed"} /\ to # "connected"
        OBVIOUS
  <2> HIDE DEF TurnInv, TypeOK
  <2>3. QED BY <1>1, <2>1, <2>2
<1>4. CASE RemoteCloses(a)
  <2>1. /\ link[a] \in {"connected", "disconnected"}
        /\ link' = [link EXCEPT ![a] = "closed"]
        /\ pc' = [pc EXCEPT ![a] = "closed"]
        /\ calls' = [calls EXCEPT ![a] = @ \cup {"closed"}]
        /\ UNCHANGED <<stage, looping>>
        BY <1>4 DEF RemoteCloses, AgentReports
  <2>2. stage[a] \in Described
        BY <2>1 DEF LinkStage
  <2>3. LinkStage' /\ OpenStage'
        BY <2>1, <2>2 DEF LinkStage, OpenStage
  <2>4. FailedLink'
        BY <2>1 DEF FailedLink
  <2>5. /\ Holds("live", a) /\ a \in Callers
        /\ "live" \in Kinds /\ TurnsBounded
        BY <2>1, <2>2 DEF Holds, Callers, Kinds
  <2>6. \A k \in Kinds, c \in Callers :
            Holds(k, c)' => \/ k = "ended" /\ c = a
                            \/ Holds(k, c) /\ ~(k = "live" /\ c = a)
        BY <2>1 DEF Holds
  <2> HIDE DEF TurnInv, TypeOK
  <2>7. QED BY <2>3, <2>4, <2>5, <2>6, TurnMoves
<1>5. QED BY <1>2, <1>3, <1>4 DEF Agent

\* A flush that has failed stays failed.
LEMMA UnsentStays ==
    ASSUME TypeOK, [Next]_vars
    PROVE  Unsent \subseteq Unsent'
<1>1. ASSUME NEW b \in Attempts, NEW s, stage' = [stage EXCEPT ![b] = s],
             stage[b] # "unsent"
      PROVE  Unsent \subseteq Unsent'
      BY <1>1 DEF Unsent, TypeOK
<1>2. ASSUME NEW a \in Attempts, Attempt(a) \/ TryAgain(a)
      PROVE  \/ UNCHANGED stage
             \/ \E s : stage' = [stage EXCEPT ![a] = s] /\ stage[a] # "unsent"
      BY <1>2 DEF Attempt, TryAgain, Begin, RecvAnswer, SendOffer, SetupFails,
                  TakeAnswer, TakeNil, TimeOut, LockCandidates, Return,
                  FlushFails, ReturnError, attemptVars
<1>3. \/ UNCHANGED stage
      \/ \E a \in Attempts : Attempt(a) \/ TryAgain(a)
      BY DEF Next, Callback, OnFailed, OnClosed, OnDisconnected, ClosePanics,
             Agent, AgentConnects, AgentLoses, RemoteCloses, CloudAnswers,
             HandleAnswer, HandleDeferred, Deliver, Connection, vars, attemptVars
<1>4. CASE UNCHANGED stage
      BY <1>4 DEF Unsent
<1>5. QED BY <1>1, <1>2, <1>3, <1>4

LEMMA TurnStep == TurnInv /\ [Next]_vars => TurnInv'
<1> SUFFICES ASSUME TurnInv, [Next]_vars PROVE TurnInv'
    OBVIOUS
<1>1. TypeOK'
      BY TypeStep DEF TurnInv
<1>2. Unsent \subseteq Unsent'
      BY UnsentStays DEF TurnInv
<1> DEFINE Rest == LinkStage /\ FailedLink /\ OpenStage /\ TurnsBounded
<1>3. Rest'
  <2>1. ASSUME NEW a \in Attempts, TryAgain(a) PROVE Rest'
        BY <1>2, <2>1, BeginTurn DEF TryAgain
  <2>2. ASSUME NEW a \in Attempts, Attempt(a) PROVE Rest'
        BY <1>2, <2>2, AttemptTurn
  <2>3. ASSUME NEW a \in Attempts, Callback(a) PROVE Rest'
        BY <1>2, <2>3, CallbackTurn
  <2>4. ASSUME NEW a \in Attempts, Agent(a) PROVE Rest'
        BY <1>2, <2>4, AgentTurn
  <2>5. ASSUME NEW a \in Attempts, CloudAnswers(a) \/ ClosePanics(a) PROVE Rest'
        BY <2>5, LinksKept DEF CloudAnswers, ClosePanics, attemptVars, iceVars
  <2>6. ASSUME NEW h \in handlers, HandleAnswer(h) \/ HandleDeferred(h)
        PROVE  Rest'
        BY <2>6, LinksKept DEF HandleAnswer, HandleDeferred, attemptVars, iceVars
  <2>7. ASSUME NEW m \in answers, Deliver(m) PROVE Rest'
        BY <2>7, LinksKept DEF Deliver, attemptVars, iceVars
  <2>8. CASE Connection \/ UNCHANGED vars
        BY <2>8, LinksKept DEF Connection, vars, attemptVars, iceVars
  <2>9. QED BY <2>1, <2>2, <2>3, <2>4, <2>5, <2>6, <2>7, <2>8 DEF Next
<1>4. QED BY <1>1, <1>3 DEF TurnInv

-----------------------------------------------------------------------------
(* What the turns bound.                                                   *)

\* The turns of one kind are as many as those who have them.
LEMMA TurnsOfKind ==
    ASSUME NEW k, NEW S, IsFiniteSet(S)
    PROVE  /\ IsFiniteSet({k} \X S) /\ Cardinality({k} \X S) = Cardinality(S)
           /\ Cardinality(S) \in Nat
<1>1. IsFiniteSet({k}) /\ Cardinality({k}) = 1
      BY FS_Singleton
<1>2. /\ IsFiniteSet({k} \X S)
      /\ Cardinality({k} \X S) = Cardinality({k}) * Cardinality(S)
      BY <1>1, FS_Product
<1>3. Cardinality(S) \in Nat
      BY FS_CardinalityType
<1>4. QED BY <1>1, <1>2, <1>3

\* Two kinds of turns are no more than there are turns.
LEMMA TurnsOfTwoKinds ==
    ASSUME NEW k, NEW l, k # l, NEW S, NEW T, IsFiniteSet(S), IsFiniteSet(T),
           ({k} \X S) \cup ({l} \X T) \subseteq Turns
    PROVE  Cardinality(S) + Cardinality(T) <= Cardinality(Turns)
<1> DEFINE A == {k} \X S
           B == {l} \X T
<1>1. /\ IsFiniteSet(A) /\ Cardinality(A) = Cardinality(S)
      /\ IsFiniteSet(B) /\ Cardinality(B) = Cardinality(T)
      /\ Cardinality(S) \in Nat /\ Cardinality(T) \in Nat
      BY TurnsOfKind
<1>2. A \cap B = {} /\ A \cup B \in SUBSET Turns
      OBVIOUS
<1> HIDE DEF A, B
<1>3. Cardinality(A \cup B) = Cardinality(A) + Cardinality(B) - 0
  <2>1. Cardinality(A \cup B)
          = Cardinality(A) + Cardinality(B) - Cardinality(A \cap B)
        BY <1>1, FS_Union
  <2>2. QED BY <1>2, <2>1, FS_EmptySet
<1>4. Cardinality(A \cup B) <= Cardinality(Turns)
      BY <1>2, FiniteAttempts, FS_Subset
<1>5. QED BY <1>1, <1>3, <1>4

LEMMA TurnSuffices == TurnInv => WaitersBounded /\ OpenPeersBounded
<1> SUFFICES ASSUME TurnInv PROVE WaitersBounded /\ OpenPeersBounded
    OBVIOUS
<1>1. WaitersBounded
  <2>1. IsFiniteSet(Waiting) /\ IsFiniteSet(looping)
    <3>1. Waiting \in SUBSET Attempts /\ looping \in SUBSET Callers
          BY DEF TurnInv, TypeOK, Waiting, Callers
    <3>2. IsFiniteSet(Callers)
          BY FiniteAttempts, FS_AddElement DEF Callers
    <3>3. QED BY <3>1, <3>2, FiniteAttempts, FS_Subset
  <2>2. ({"calling"} \X Waiting) \cup ({"again"} \X looping) \subseteq Turns
        BY DEF TurnInv, TypeOK, Turns, Holds, Waiting, Kinds, Callers
  <2>3. Cardinality(Waiting) + Cardinality(looping) <= Cardinality(Turns)
        BY <2>1, <2>2, TurnsOfTwoKinds
  <2>4. Cardinality(Waiting) \in Nat /\ Cardinality(looping) \in Nat
        BY <2>1, FS_CardinalityType
  <2>5. QED BY <2>3, <2>4, FiniteAttempts DEF TurnInv, TurnsBounded,
            WaitersBounded
<1>2. OpenPeersBounded
  <2> DEFINE O == {a \in Attempts \ Errored : pc[a] = "open"}
             C == O \cap Waiting
             L == O \ Waiting
  <2>1. O \in SUBSET Attempts
        OBVIOUS
  <2>2. ({"calling"} \X C) \cup ({"live"} \X L) \subseteq Turns
    <3>1. ASSUME NEW a \in C PROVE <<"calling", a>> \in Turns
          BY <3>1 DEF Turns, Holds, Waiting, Kinds, Callers
    <3>2. ASSUME NEW a \in L PROVE <<"live", a>> \in Turns
      <4>1. stage[a] \in Described /\ link[a] # "closed" /\ a \in Attempts
            BY <3>2 DEF TurnInv, OpenStage, Errored, Waiting
      <4>2. QED BY <4>1 DEF Turns, Holds, Kinds, Callers
    <3>3. QED BY <3>1, <3>2
  <2> HIDE DEF O
  <2>3. IsFiniteSet(O) /\ IsFiniteSet(C) /\ IsFiniteSet(L)
        BY <2>1, FiniteAttempts, FS_Subset, FS_Intersection, FS_Difference
  <2>4. Cardinality(L) = Cardinality(O) - Cardinality(C)
        BY <2>3, FS_Difference
  <2>5. Cardinality(C) + Cardinality(L) <= Cardinality(Turns)
        BY <2>2, <2>3, TurnsOfTwoKinds
  <2>6. Cardinality(O) \in Nat /\ Cardinality(C) \in Nat
        BY <2>3, FS_CardinalityType
  <2>7. Cardinality(O) <= Cardinality(Turns)
        BY <2>4, <2>5, <2>6, FiniteAttempts
  <2>8. Cardinality(O) <= 1 + Cardinality(Unsent)
        BY <2>6, <2>7, FiniteAttempts DEF TurnInv, TurnsBounded
  <2>9. QED BY <2>8 DEF OpenPeersBounded, O
<1>3. QED BY <1>1, <1>2

\* However often the link is lost, an attempt is given up or an answer comes
\* late: the attempts of the edge that wait on the one answer topic, with those
\* about to, are no more than one and one for each flush that failed.
THEOREM WaitersAreBounded == Spec => []WaitersBounded
<1>1. TurnInv => WaitersBounded
      BY TurnSuffices
<1>2. QED BY TurnInitially, TurnStep, <1>1, PTL DEF Spec

\* The same bound holds for its open peer connections, those apart that a setup
\* error leaves behind.
THEOREM OpenPeersAreBounded == Spec => []OpenPeersBounded
<1>1. TurnInv => OpenPeersBounded
      BY TurnSuffices
<1>2. QED BY TurnInitially, TurnStep, <1>1, PTL DEF Spec

-----------------------------------------------------------------------------
(* An answer goes to the attempt that asked for it.  While nothing has gone   *)
(* wrong an attempt has one answer, and it is in one place: still with the    *)
(* cloud, on its way, in a handler, or in the channel of that attempt.        *)

Early == {"idle", "called", "subscribed"}
Panics == {"nil answer", "send on closed channel", "close of closed channel",
           "undecodable answer"}

\* The hypothesis of AnswersMatch.
Calm ==
    /\ \A a \in Attempts : stage[a] \notin {"timedOut", "errored", "unsent"}
    /\ deaf = {}
    /\ \A a \in Garbled : stage[a] \in Early \/ a \in offered \cup answers

NothingYet ==
    \A a \in Attempts : stage[a] \in Early =>
        /\ a \notin offered \cup answers
        /\ buffer[a] = NoAttempt /\ ~closed[a]

Asked ==
    \A a \in offered \cup answers :
        /\ stage[a] = "waiting" /\ buffer[a] = NoAttempt /\ ~closed[a]
        /\ a \notin offered \cap answers

\* A handler: its message has arrived and its attempt waits until it has sent.
Carries(h) ==
    /\ h.msg = h.to /\ h.msg \notin offered \cup answers \cup Garbled
    /\ ~closed[h.to] /\ stage[h.to] \notin Early
    /\ h.at = "send" => buffer[h.to] = NoAttempt /\ stage[h.to] = "waiting"
    /\ h.at = "defer" /\ stage[h.to] = "waiting" => buffer[h.to] = h.to

OneHandler ==
    \A h \in handlers : Carries(h) /\ \A k \in handlers : k.to = h.to => k = h

OwnAnswer ==
    \A a \in Attempts :
        /\ buffer[a] \in {a, NoAttempt} /\ remote[a] \in {a, NoAttempt}
        /\ closed[a] /\ stage[a] = "waiting" => buffer[a] = a
        /\ stage[a] \in {"subscribed", "waiting"} => route \in {a, NoAttempt}

Matching == NothingYet /\ Asked /\ OneHandler /\ OwnAnswer /\ fault \notin Panics
AnswerInv == Calm => Matching

\* While no flush has failed one attempt waits at a time.
OneAttemptWaits == \A a, b \in Waiting : a = b

LEMMA OneWaits == TypeOK /\ WaitersBounded /\ Unsent = {} => OneAttemptWaits
<1> SUFFICES ASSUME TypeOK, WaitersBounded, Unsent = {},
                    NEW a \in Waiting, NEW b \in Waiting, a # b
             PROVE  FALSE
    BY DEF OneAttemptWaits
<1>1. IsFiniteSet(Waiting) /\ IsFiniteSet(looping)
  <2>1. Waiting \in SUBSET Attempts /\ looping \in SUBSET Callers
        BY DEF TypeOK, Waiting, Callers
  <2>2. IsFiniteSet(Callers)
        BY FiniteAttempts, FS_AddElement DEF Callers
  <2>3. QED BY <2>1, <2>2, FiniteAttempts, FS_Subset
<1>2. Cardinality(Waiting) <= 1
  <2>1. Cardinality(Unsent) = 0
        BY FS_EmptySet
  <2>2. Cardinality(Waiting) \in Nat /\ Cardinality(looping) \in Nat
        BY <1>1, FS_CardinalityType
  <2>3. QED BY <2>1, <2>2 DEF WaitersBounded
<1>3. IsFiniteSet({a}) /\ Cardinality({a}) = 1
      BY FS_Singleton
<1>4. Cardinality({a} \cup {b}) = 2
      BY <1>3, FS_AddElement
<1>5. Cardinality({a} \cup {b}) <= Cardinality(Waiting)
      BY <1>1, FS_Subset
<1>6. QED BY <1>2, <1>4, <1>5, <1>1, FS_CardinalityType

LEMMA NoAttemptIsNone == NoAttempt \notin Attempts
<1>1. MaxAttempts \in Nat
      BY EdgePublisherAssumption
<1>2. QED BY <1>1 DEF NoAttempt, Attempts

\* Steps that leave the answers alone: an attempt that moves is neither about
\* to be answered nor becomes so.
LEMMA AnswersAlone ==
    ASSUME TypeOK, Matching,
           UNCHANGED <<offered, answers, buffer, closed, handlers, remote, route>>,
           fault' \notin Panics,
           \A c \in Attempts :
               \/ stage'[c] = stage[c]
               \/ /\ stage[c] \in Early <=> stage'[c] \in Early
                  /\ stage[c] # "waiting"
                  /\ stage'[c] \notin {"subscribed", "waiting"}
    PROVE  Matching'
<1>0. /\ \A h \in handlers : h.to \in Attempts
      /\ offered \cup answers \subseteq Attempts
      BY DEF TypeOK
<1>1. NothingYet'
      BY DEF Matching, NothingYet
<1>2. Asked'
      BY <1>0 DEF Matching, Asked
<1>3. \A h \in handlers : Carries(h)'
      BY <1>0 DEF Matching, OneHandler, Carries
<1>4. OneHandler'
      BY <1>3 DEF Matching, OneHandler
<1>5. OwnAnswer'
      BY DEF Matching, OwnAnswer
<1>6. QED BY <1>1, <1>2, <1>4, <1>5 DEF Matching

LEMMA BeginAnswers ==
    ASSUME TypeOK, Matching, NEW a \in Attempts, NEW b \in looping, Begin(a, b)
    PROVE  Matching'
<1>1. /\ stage[a] = "idle" /\ stage' = [stage EXCEPT ![a] = "called"]
      /\ UNCHANGED <<offered, answers, buffer, closed, handlers, remote, route, fault>>
      BY DEF Begin, answerVars, processVars
<1>2. \A c \in Attempts :
          \/ stage'[c] = stage[c]
          \/ /\ stage[c] \in Early <=> stage'[c] \in Early
             /\ stage[c] # "waiting"
             /\ stage'[c] \notin {"subscribed", "waiting"}
      BY <1>1 DEF TypeOK, Early
<1>3. QED BY <1>1, <1>2, AnswersAlone DEF Matching

LEMMA RecvAnswers ==
    ASSUME TypeOK, Matching, OneAttemptWaits, deaf' = {},
           NEW a \in Attempts, RecvAnswer(a)
    PROVE  Matching'
<1>1. /\ stage[a] = "called" /\ stage' = [stage EXCEPT ![a] = "subscribed"]
      /\ route' = a
      /\ UNCHANGED <<offered, answers, buffer, closed, handlers, remote, fault>>
      BY DEF RecvAnswer, Subscribe, processVars
<1>2. /\ stage'[a] = "subscribed"
      /\ \A c \in Attempts \ {a} : /\ stage'[c] = stage[c]
                                   /\ stage[c] \notin {"subscribed", "waiting"}
      BY <1>1 DEF TypeOK, OneAttemptWaits, Waiting
<1>3. /\ \A h \in handlers : h.to \in Attempts
      /\ offered \cup answers \subseteq Attempts
      BY DEF TypeOK
<1>4. NothingYet'
      BY <1>1, <1>2 DEF Matching, NothingYet, Early
<1>5. Asked'
      BY <1>1, <1>2, <1>3 DEF Matching, Asked
<1>6. \A h \in handlers : Carries(h)'
      BY <1>1, <1>2, <1>3 DEF Matching, OneHandler, Carries, Early
<1>7. OneHandler'
      BY <1>1, <1>6 DEF Matching, OneHandler
<1>8. OwnAnswer'
      BY <1>1, <1>2 DEF Matching, OwnAnswer
<1>9. QED BY <1>1, <1>4, <1>5, <1>7, <1>8 DEF Matching

LEMMA OfferAnswers ==
    ASSUME TypeOK, Matching, NEW a \in Attempts, SendOffer(a)
    PROVE  Matching'
<1>1. /\ stage[a] = "subscribed" /\ stage' = [stage EXCEPT ![a] = "waiting"]
      /\ offered' = offered \cup {a}
      /\ UNCHANGED <<answers, buffer, closed, handlers, remote, route, fault>>
      BY DEF SendOffer, processVars
<1>2. /\ stage'[a] = "waiting"
      /\ \A c \in Attempts \ {a} : stage'[c] = stage[c]
      BY <1>1 DEF TypeOK
<1>3. /\ \A h \in handlers : h.to \in Attempts /\ h.to # a /\ h.msg = h.to
      /\ offered \cup answers \subseteq Attempts
      /\ a \notin offered \cup answers /\ buffer[a] = NoAttempt /\ ~closed[a]
      BY <1>1 DEF TypeOK, Matching, OneHandler, Carries, NothingYet, Early
<1>4. NothingYet'
      BY <1>1, <1>2 DEF Matching, NothingYet, Early
<1>5. Asked'
      BY <1>1, <1>2, <1>3 DEF Matching, Asked
<1>6. \A h \in handlers : Carries(h)'
      BY <1>1, <1>2, <1>3 DEF Matching, OneHandler, Carries
<1>7. OneHandler'
      BY <1>1, <1>6 DEF Matching, OneHandler
<1>8. OwnAnswer'
      BY <1>1, <1>2, <1>3 DEF Matching, OwnAnswer
<1>9. QED BY <1>1, <1>4, <1>5, <1>7, <1>8 DEF Matching

LEMMA TakenAnswers ==
    ASSUME TypeOK, Matching, NEW a \in Attempts, TakeAnswer(a)
    PROVE  Matching'
<1>1. /\ stage[a] = "waiting" /\ stage' = [stage EXCEPT ![a] = "described"]
      /\ buffer[a] # NoAttempt /\ buffer' = [buffer EXCEPT ![a] = NoAttempt]
      /\ remote' = [remote EXCEPT ![a] = buffer[a]] \/ remote' = remote
      /\ UNCHANGED <<offered, answers, closed, handlers, route, fault>>
      BY DEF TakeAnswer, SetRemoteDescription, processVars
<1>2. /\ stage'[a] = "described" /\ buffer'[a] = NoAttempt
      /\ \A c \in Attempts \ {a} : stage'[c] = stage[c] /\ buffer'[c] = buffer[c]
      BY <1>1 DEF TypeOK
<1>3. buffer[a] = a /\ a \notin offered \cup answers
      BY <1>1 DEF Matching, OwnAnswer, Asked
<1>4. \A c \in Attempts : remote'[c] \in {c, NoAttempt}
      BY <1>1, <1>3 DEF TypeOK, Matching, OwnAnswer
<1>5. /\ \A h \in handlers : h.to \in Attempts
      /\ offered \cup answers \subseteq Attempts
      BY DEF TypeOK
<1>6. NothingYet'
      BY <1>1, <1>2 DEF Matching, NothingYet, Early
<1>7. Asked'
      BY <1>1, <1>2, <1>3, <1>5 DEF Matching, Asked
<1>8. \A h \in handlers : Carries(h)'
      BY <1>1, <1>2, <1>3, <1>5 DEF Matching, OneHandler, Carries, Early
<1>9. OneHandler'
      BY <1>1, <1>8 DEF Matching, OneHandler
<1>10. OwnAnswer'
       BY <1>1, <1>2, <1>4 DEF Matching, OwnAnswer
<1>11. QED BY <1>1, <1>6, <1>7, <1>9, <1>10 DEF Matching

\* A channel is closed after its answer was sent, so nothing takes nil from it.
LEMMA NeverNil ==
    ASSUME TypeOK, Matching, NEW a \in Attempts, TakeNil(a)
    PROVE  FALSE
<1>1. buffer[a] = a /\ buffer[a] = NoAttempt
      BY DEF TakeNil, Matching, OwnAnswer
<1>2. QED BY <1>1, NoAttemptIsNone

LEMMA HandlerSends ==
    ASSUME TypeOK, Matching, NEW h \in handlers, HandleAnswer(h)
    PROVE  Matching'
<1> DEFINE a == h.to
           g == [h EXCEPT !.at = "defer"]
<1>0. /\ a \in Attempts /\ h \in [to : Attempts, msg : Attempts, at : {"send", "defer"}]
      /\ Carries(h) /\ \A k \in handlers : k.to = a => k = h
      /\ offered \cup answers \subseteq Attempts
      /\ \A k \in handlers : k.to \in Attempts
      BY DEF TypeOK, Matching, OneHandler
<1>1. /\ h.at = "send" /\ h.msg = a /\ stage[a] = "waiting" /\ a \notin Garbled
      /\ ~closed[a] /\ a \notin offered \cup answers
      BY <1>0 DEF HandleAnswer, Carries
<1>2. /\ buffer' = [buffer EXCEPT ![a] = a]
      /\ handlers' = (handlers \ {h}) \cup {g}
      /\ UNCHANGED <<stage, offered, answers, closed, remote, route, fault>>
      BY <1>1 DEF HandleAnswer, attemptVars
<1>3. g.to = a /\ g.msg = a /\ g.at = "defer"
      BY <1>0, <1>1
<1> HIDE DEF a, g
<1>4. /\ buffer'[a] = a
      /\ \A c \in Attempts \ {a} : buffer'[c] = buffer[c]
      BY <1>0, <1>2 DEF TypeOK
<1>5. NothingYet'
      BY <1>1, <1>2, <1>4 DEF Matching, NothingYet, Early
<1>6. Asked'
      BY <1>0, <1>1, <1>2, <1>4 DEF Matching, Asked
<1>7. \A k \in handlers' : k = g \/ (k \in handlers /\ k.to # a)
      BY <1>0, <1>2
<1>8. \A k \in handlers' : Carries(k)'
  <2>1. Carries(g)'
        BY <1>1, <1>2, <1>3, <1>4 DEF Carries, Early
  <2>2. ASSUME NEW k \in handlers, k.to # a PROVE Carries(k)'
        BY <1>0, <1>2, <1>4, <2>2 DEF Matching, OneHandler, Carries
  <2>3. QED BY <1>7, <2>1, <2>2
<1>9. OneHandler'
      BY <1>3, <1>7, <1>8 DEF Matching, OneHandler
<1>10. OwnAnswer'
       BY <1>0, <1>2, <1>4 DEF Matching, OwnAnswer
<1>11. QED BY <1>2, <1>5, <1>6, <1>9, <1>10 DEF Matching

LEMMA HandlerCloses ==
    ASSUME TypeOK, Matching, NEW h \in handlers, HandleDeferred(h)
    PROVE  Matching'
<1> DEFINE a == h.to
<1>0. /\ a \in Attempts
      /\ Carries(h) /\ \A k \in handlers : k.to = a => k = h
      /\ offered \cup answers \subseteq Attempts
      /\ \A k \in handlers : k.to \in Attempts
      BY DEF TypeOK, Matching, OneHandler
<1>1. /\ h.at = "defer" /\ a \notin offered \cup answers /\ stage[a] \notin Early
      /\ ~closed[a] /\ (stage[a] = "waiting" => buffer[a] = a)
      BY <1>0 DEF HandleDeferred, Carries
<1>2. /\ closed' = [closed EXCEPT ![a] = TRUE]
      /\ handlers' = handlers \ {h} /\ fault' = fault
      /\ route' \in {route, NoAttempt}
      /\ UNCHANGED <<stage, offered, answers, buffer, remote>>
      BY <1>1 DEF HandleDeferred, Unsubscribe, attemptVars
<1> HIDE DEF a
<1>3. /\ closed'[a]
      /\ \A c \in Attempts \ {a} : closed'[c] = closed[c]
      BY <1>0, <1>2 DEF TypeOK
<1>4. NothingYet'
      BY <1>1, <1>2, <1>3 DEF Matching, NothingYet
<1>5. Asked'
      BY <1>0, <1>1, <1>2, <1>3 DEF Matching, Asked
<1>6. \A k \in handlers' : k \in handlers /\ k.to # a
      BY <1>0, <1>2
<1>7. ASSUME NEW k \in handlers, k.to # a PROVE Carries(k)'
      BY <1>0, <1>2, <1>3, <1>7 DEF Matching, OneHandler, Carries
<1>8. OneHandler'
      BY <1>6, <1>7 DEF Matching, OneHandler
<1>9. OwnAnswer'
      BY <1>1, <1>2, <1>3 DEF Matching, OwnAnswer
<1>10. QED BY <1>2, <1>4, <1>5, <1>8, <1>9 DEF Matching

LEMMA CloudSends ==
    ASSUME TypeOK, Matching, NEW a \in Attempts, CloudAnswers(a)
    PROVE  Matching'
<1>1. /\ a \in offered /\ offered' = offered \ {a} /\ answers' = answers \cup {a}
      /\ UNCHANGED <<stage, buffer, closed, handlers, remote, route, fault>>
      BY DEF CloudAnswers, processVars, attemptVars
<1>2. offered' \cup answers' = offered \cup answers
      BY <1>1
<1>3. NothingYet'
      BY <1>1, <1>2 DEF Matching, NothingYet
<1>4. Asked'
      BY <1>1, <1>2 DEF Matching, Asked
<1>5. \A h \in handlers : Carries(h)'
      BY <1>1, <1>2 DEF Matching, OneHandler, Carries
<1>6. OneHandler'
      BY <1>1, <1>5 DEF Matching, OneHandler
<1>7. OwnAnswer'
      BY <1>1 DEF Matching, OwnAnswer
<1>8. QED BY <1>1, <1>3, <1>4, <1>6, <1>7 DEF Matching

LEMMA DeliveredAnswers ==
    ASSUME TypeOK, Matching, Calm', NEW m \in answers, Deliver(m)
    PROVE  Matching'
<1> DEFINE g == [to |-> m, msg |-> m, at |-> "send"]
<1>0. /\ m \in Attempts /\ stage[m] = "waiting" /\ m \notin offered
      /\ buffer[m] = NoAttempt /\ ~closed[m]
      /\ route \in {m, NoAttempt}
      /\ offered \cup answers \subseteq Attempts
      BY DEF TypeOK, Matching, Asked, OwnAnswer
<1>1. /\ answers' = answers \ {m}
      /\ handlers' \in {handlers, handlers \cup {g}}
      /\ UNCHANGED <<stage, offered, buffer, closed, remote, route, fault>>
      BY <1>0 DEF Deliver, processVars, attemptVars
<1>2. m \notin Garbled
      BY <1>0, <1>1 DEF Calm, Early
<1>3. g.to = m /\ g.msg = m /\ g.at = "send"
      OBVIOUS
<1> HIDE DEF g
<1>4. \A h \in handlers : h.to # m
      BY DEF Matching, OneHandler, Carries
<1>5. \A h \in handlers' : h \in handlers \/ h = g
      BY <1>0, <1>1
<1>6. NothingYet'
      BY <1>1 DEF Matching, NothingYet
<1>7. Asked'
      BY <1>1 DEF Matching, Asked
<1>8. \A h \in handlers : Carries(h)'
      BY <1>1 DEF Matching, OneHandler, Carries
<1>9. Carries(g)'
      BY <1>0, <1>1, <1>2, <1>3 DEF Carries, Early
<1>10. OneHandler'
       BY <1>3, <1>4, <1>5, <1>8, <1>9 DEF Matching, OneHandler
<1>11. OwnAnswer'
       BY <1>1 DEF Matching, OwnAnswer
<1>12. QED BY <1>1, <1>6, <1>7, <1>10, <1>11 DEF Matching

LEMMA AttemptAnswers ==
    ASSUME TypeOK, Matching, OneAttemptWaits, Calm',
           NEW a \in Attempts, Attempt(a)
    PROVE  Matching'
<1>1. ASSUME NEW how \in {"timedOut", "errored", "unsent"}, ReturnError(a, how)
      PROVE  FALSE
  <2>1. stage'[a] = how
        BY <1>1 DEF ReturnError, TypeOK
  <2>2. QED BY <2>1 DEF Calm
<1>2. ASSUME stage[a] \in {"described", "flushing"},
             NEW s \in {"flushing", "signaled"}, stage' = [stage EXCEPT ![a] = s],
             UNCHANGED <<answerVars, remote>>, fault' \notin Panics
      PROVE  Matching'
  <2>1. \A c \in Attempts :
            \/ stage'[c] = stage[c]
            \/ /\ stage[c] \in Early <=> stage'[c] \in Early
               /\ stage[c] # "waiting"
               /\ stage'[c] \notin {"subscribed", "waiting"}
        BY <1>2 DEF TypeOK, Early
  <2>2. QED BY <1>2, <2>1, AnswersAlone DEF answerVars
<1>3. CASE RecvAnswer(a)
      BY <1>3, RecvAnswers DEF Calm
<1>4. CASE SendOffer(a)
      BY <1>4, OfferAnswers
<1>5. CASE SetupFails(a) \/ TimeOut(a) \/ FlushFails(a)
      BY <1>1, <1>5 DEF SetupFails, TimeOut, FlushFails
<1>6. CASE TakeAnswer(a)
      BY <1>6, TakenAnswers
<1>7. CASE TakeNil(a)
      BY <1>7, NeverNil
<1>8. CASE LockCandidates(a)
      BY <1>2, <1>8 DEF LockCandidates, Matching
<1>9. CASE Return(a)
  <2>1. fault' \notin Panics
        BY <1>9 DEF Return, UnlockCandidates, Matching, Panics
  <2>2. QED BY <1>2, <1>9, <2>1 DEF Return
<1>10. QED BY <1>3, <1>4, <1>5, <1>6, <1>7, <1>8, <1>9 DEF Attempt

LEMMA MatchingStep ==
    ASSUME TypeOK, Matching, OneAttemptWaits, Calm', [Next]_vars
    PROVE  Matching'
<1>1. ASSUME UNCHANGED <<stage, remote, answerVars>>, fault' \notin Panics
      PROVE  Matching'
      BY <1>1, AnswersAlone DEF answerVars
<1>2. ASSUME NEW a \in Attempts, TryAgain(a) PROVE Matching'
      BY <1>2, BeginAnswers DEF TryAgain
<1>3. ASSUME NEW a \in Attempts, Attempt(a) PROVE Matching'
      BY <1>3, AttemptAnswers
<1>4. ASSUME NEW a \in Attempts, Callback(a) PROVE Matching'
  <2>1. UNCHANGED <<stage, remote, answerVars>>
        BY <1>4 DEF Callback, OnFailed, OnClosed, OnDisconnected, attemptVars
  <2>2. fault' \in {fault, "unlock of unlocked mutex"}
        BY <1>4 DEF Callback, OnFailed, OnClosed, OnDisconnected,
                    UnlockCandidates, processVars
  <2>3. fault' \notin Panics
        BY <2>2 DEF Matching, Panics
  <2>4. QED BY <1>1, <2>1, <2>3
<1>5. CASE \/ \E a \in Attempts : Agent(a)
           \/ Connection
           \/ UNCHANGED vars
  <2>1. UNCHANGED <<stage, remote, answerVars, fault>>
        BY <1>5 DEF Agent, AgentConnects, AgentLoses, RemoteCloses, Connection,
                    vars, attemptVars, processVars
  <2>2. QED BY <1>1, <2>1 DEF Matching
<1>6. ASSUME NEW a \in Attempts, CloudAnswers(a) PROVE Matching'
      BY <1>6, CloudSends
<1>7. ASSUME NEW h \in handlers, HandleAnswer(h) \/ HandleDeferred(h)
      PROVE  Matching'
      BY <1>7, HandlerSends, HandlerCloses
<1>8. ASSUME NEW m \in answers, Deliver(m) PROVE Matching'
      BY <1>8, DeliveredAnswers
<1>9. ASSUME NEW a \in Attempts, ClosePanics(a) PROVE Matching'
  <2>1. UNCHANGED <<stage, remote, answerVars>> /\ fault' = "closing failed"
        BY <1>9 DEF ClosePanics, attemptVars
  <2>2. QED BY <1>1, <2>1 DEF Panics
<1>10. QED BY <1>2, <1>3, <1>4, <1>5, <1>6, <1>7, <1>8, <1>9 DEF Next

\* What has gone wrong stays wrong.
LEMMA CalmBefore ==
    ASSUME TypeOK, [Next]_vars, Calm'
    PROVE  Calm
<1>1. \A a \in Attempts :
          /\ stage[a] \in {"timedOut", "errored", "unsent"} => stage'[a] = stage[a]
          /\ stage'[a] \in Early => stage[a] \in Early
  <2>1. CASE UNCHANGED stage
        BY <2>1
  <2>2. ASSUME NEW b \in Attempts, NEW s, stage' = [stage EXCEPT ![b] = s],
               stage[b] \notin {"timedOut", "errored", "unsent"},
               s \in Early => stage[b] \in Early
        PROVE  \A a \in Attempts :
                   /\ stage[a] \in {"timedOut", "errored", "unsent"} => stage'[a] = stage[a]
                   /\ stage'[a] \in Early => stage[a] \in Early
        BY <2>2 DEF TypeOK
  <2>3. ASSUME NEW b \in Attempts, Attempt(b) \/ TryAgain(b)
        PROVE  \/ UNCHANGED stage
               \/ \E s : /\ stage' = [stage EXCEPT ![b] = s]
                         /\ stage[b] \notin {"timedOut", "errored", "unsent"}
                         /\ s \in Early => stage[b] \in Early
        BY <2>3 DEF Attempt, TryAgain, Begin, RecvAnswer, SendOffer, SetupFails,
                    TakeAnswer, TakeNil, TimeOut, LockCandidates, Return,
                    FlushFails, ReturnError, attemptVars, Early
  <2>4. \/ UNCHANGED stage
        \/ \E b \in Attempts : Attempt(b) \/ TryAgain(b)
        BY DEF Next, Callback, OnFailed, OnClosed, OnDisconnected, ClosePanics,
               Agent, AgentConnects, AgentLoses, RemoteCloses, CloudAnswers,
               HandleAnswer, HandleDeferred, Deliver, Connection, vars, attemptVars
  <2>5. QED BY <2>1, <2>2, <2>3, <2>4
<1>2. deaf' = {} => deaf = {}
      BY DEF Next, Attempt, TryAgain, Begin, RecvAnswer, Subscribe, SendOffer,
             SetupFails, TakeAnswer, TakeNil, TimeOut, LockCandidates, Return,
             FlushFails, Callback, OnFailed, OnClosed, OnDisconnected, ClosePanics,
             Agent, AgentConnects, AgentLoses, RemoteCloses, CloudAnswers,
             HandleAnswer, HandleDeferred, Deliver, Connection, vars, answerVars
<1>3. \A a \in Attempts : a \in offered' \cup answers' =>
          stage[a] \in Early \/ a \in offered \cup answers
      BY DEF Next, Attempt, TryAgain, Begin, RecvAnswer, SendOffer,
             SetupFails, TakeAnswer, TakeNil, TimeOut, LockCandidates, Return,
             FlushFails, Callback, OnFailed, OnClosed, OnDisconnected, ClosePanics,
             Agent, AgentConnects, AgentLoses, RemoteCloses, CloudAnswers,
             HandleAnswer, HandleDeferred, Deliver, Connection, vars, answerVars,
             Early
<1>4. Garbled \subseteq Attempts
      BY EdgePublisherAssumption
<1>5. \A a \in Attempts : stage[a] \notin {"timedOut", "errored", "unsent"}
      BY <1>1 DEF Calm
<1>6. QED BY <1>1, <1>2, <1>3, <1>4, <1>5 DEF Calm

\* For any attempts and any order of answers, ICE callbacks and handlers: as long
\* as no attempt returns an error, no subscription thrown away and no garbled answer
\* delivered, an attempt gets its own answer or none, and neither its channel is
\* used or closed twice nor a nil taken from it (signal.go:36-68,
\* publisher.go:143-160).
THEOREM AnswersGoToTheirOffer == Spec => []AnswersMatch
<1>1. Init => AnswerInv
      BY DEF Init, AnswerInv, Matching, NothingYet, Asked, OneHandler, OwnAnswer,
             Panics
<1>2. TypeOK /\ WaitersBounded /\ AnswerInv /\ [Next]_vars => AnswerInv'
  <2>1. Calm => Unsent = {}
        BY DEF Calm, Unsent
  <2>2. QED BY <2>1, OneWaits, CalmBefore, MatchingStep DEF AnswerInv
<1>3. AnswerInv => AnswersMatch
      BY DEF AnswerInv, Matching, OwnAnswer, AnswersMatch, Calm, Early, Panics
<1>4. QED BY <1>1, <1>2, <1>3, TypeCorrect, WaitersAreBounded, PTL DEF Spec
=============================================================================
