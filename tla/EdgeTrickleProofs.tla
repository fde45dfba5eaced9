--------------------------- MODULE EdgeTrickleProofs ---------------------------
(***************************************************************************)
(* Theorems about the candidates of the edge, for any number of attempts    *)
(* and any candidates of either side.                                      *)
(***************************************************************************)
EXTENDS EdgeTrickle, FiniteSetTheorems, TLAPS

-----------------------------------------------------------------------------
(* Type correctness.                                                       *)

CallbackSet == {NoCallback} \cup [at : {"ask", "append", "send"}, of : Candidates]
Faults == {"none", "publish failed", "send on closed channel",
           "close of closed channel"}
Stages == {"subscribed", "waiting", "described", "sending", "signaled", "gaveUp"}

\* A callback that is under way has a candidate, and keeps it when it goes on.
LEMMA UnderWay ==
    ASSUME NEW k \in CallbackSet, k.at # "none"
    PROVE  /\ k # NoCallback
           /\ k \in [at : {"ask", "append", "send"}, of : Candidates]
           /\ k.of \in Candidates
BY DEF CallbackSet, NoCallback

LEMMA GoesOn ==
    ASSUME NEW k \in CallbackSet, k.at = "ask",
           NEW s \in {"append", "send"}
    PROVE  /\ [k EXCEPT !.at = s] \in CallbackSet
           /\ [k EXCEPT !.at = s] # NoCallback
           /\ [k EXCEPT !.at = s].at = s
           /\ [k EXCEPT !.at = s].of = k.of
<1>1. k \in [at : {"ask", "append", "send"}, of : Candidates]
      BY DEF CallbackSet, NoCallback
<1>2. [k EXCEPT !.at = s] \in [at : {"ask", "append", "send"}, of : Candidates]
      BY <1>1
<1>3. [k EXCEPT !.at = s].at = s /\ [k EXCEPT !.at = s].of = k.of
      BY <1>1
<1>4. [k EXCEPT !.at = s] # NoCallback
      BY <1>3 DEF NoCallback
<1>5. QED BY <1>2, <1>3, <1>4 DEF CallbackSet

\* What Ask writes.
LEMMA AskCallback ==
    ASSUME callback \in [Attempts -> CallbackSet], NEW a \in Attempts, Ask(a)
    PROVE  /\ callback' \in [Attempts -> CallbackSet]
           /\ callback'[a].of = callback[a].of
           /\ callback'[a].at = IF a \in described THEN "send" ELSE "append"
           /\ callback'[a] # NoCallback /\ callback[a] # NoCallback
           /\ \A b \in Attempts \ {a} : callback'[b] = callback[b]
<1> DEFINE s == IF a \in described THEN "send" ELSE "append"
           k == callback[a]
<1>1. callback' = [callback EXCEPT ![a] = [k EXCEPT !.at = s]]
      BY DEF Ask
<1>2. k \in CallbackSet /\ k.at = "ask" /\ s \in {"append", "send"}
      BY DEF Ask
<1>3. k # NoCallback
      BY <1>2 DEF NoCallback
<1>4. /\ [k EXCEPT !.at = s] \in CallbackSet
      /\ [k EXCEPT !.at = s] # NoCallback
      /\ [k EXCEPT !.at = s].at = s
      /\ [k EXCEPT !.at = s].of = k.of
  <2> HIDE DEF s, k
  <2>1. QED BY <1>2, GoesOn
<1>5. callback'[a] = [k EXCEPT !.at = s]
      BY <1>1
<1>6. /\ callback' \in [Attempts -> CallbackSet]
      /\ \A b \in Attempts \ {a} : callback'[b] = callback[b]
  <2> HIDE DEF s, k
  <2>1. QED BY <1>1, <1>4
<1>7. QED BY <1>3, <1>4, <1>5, <1>6

\* A candidate that one handler passes to its channel.
LEMMA OneMore ==
    ASSUME NEW f \in [Attempts -> Seq(Remote)], NEW a \in Attempts,
           \A b \in Attempts : Len(f[b]) <= CandidateCap,
           Len(f[a]) < CandidateCap, NEW m \in Remote
    PROVE  LET g == [f EXCEPT ![a] = Append(@, m)]
           IN  /\ g \in [Attempts -> Seq(Remote)]
               /\ \A b \in Attempts : Len(g[b]) <= CandidateCap
<1> DEFINE g == [f EXCEPT ![a] = Append(@, m)]
<1>1. Append(f[a], m) \in Seq(Remote) /\ Len(Append(f[a], m)) <= CandidateCap
      BY DEF CandidateCap
<1>2. g \in [Attempts -> Seq(Remote)] /\ g[a] = Append(f[a], m)
      /\ \A b \in Attempts \ {a} : g[b] = f[b]
      BY <1>1
<1>3. QED BY <1>1, <1>2

LEMMA OneLess ==
    ASSUME NEW f \in [Attempts -> Seq(Remote)], NEW a \in Attempts,
           \A b \in Attempts : Len(f[b]) <= CandidateCap, f[a] # <<>>
    PROVE  LET g == [f EXCEPT ![a] = Tail(@)]
           IN  /\ g \in [Attempts -> Seq(Remote)]
               /\ \A b \in Attempts : Len(g[b]) <= CandidateCap
               /\ Head(f[a]) \in Remote
<1> DEFINE g == [f EXCEPT ![a] = Tail(@)]
<1>1. /\ Tail(f[a]) \in Seq(Remote) /\ Len(Tail(f[a])) <= CandidateCap
      /\ Head(f[a]) \in Remote
      BY DEF CandidateCap
<1>2. g \in [Attempts -> Seq(Remote)] /\ g[a] = Tail(f[a])
      /\ \A b \in Attempts \ {a} : g[b] = f[b]
      BY <1>1
<1>3. QED BY <1>1, <1>2

LEMMA TypeInitially == Init => TypeOK
<1> SUFFICES ASSUME Init PROVE TypeOK
    OBVIOUS
<1>1. attempt \in Attempts /\ route \in Attempts
      BY EdgeTrickleAssumption DEF Init, Attempts
<1>2. /\ callback \in [Attempts -> CallbackSet]
      /\ closed \in [Attempts -> BOOLEAN]
      /\ taker \in [Attempts -> {"idle", "selecting", "done", "timedOut"}]
      /\ added \in [Attempts -> SUBSET Remote]
      BY DEF Init, CallbackSet
<1>3. /\ channel \in [Attempts -> Seq(Remote)]
      /\ \A a \in Attempts : Len(channel[a]) <= CandidateCap
      BY DEF Init, CandidateCap
<1>4. pendingCandidates \in Seq(Candidates) /\ left \in Seq(Candidates)
      /\ sent \in Seq(Candidates)
      BY DEF Init
<1>5. QED BY <1>1, <1>2, <1>3, <1>4 DEF Init, TypeOK, CallbackSet

\* The variables of the attempt and of the sending, action by action.
LEMMA SendTypes ==
    ASSUME TypeOK, Next
    PROVE  /\ gathered' \subseteq Candidates /\ lost' \subseteq Candidates
           /\ pendingCandidates' \in Seq(Candidates) /\ left' \in Seq(Candidates)
           /\ sent' \in Seq(Candidates)
           /\ candidatesMux' \in BOOLEAN
           /\ callback' \in [Attempts -> CallbackSet]
<1> DEFINE Goal == /\ gathered' \subseteq Candidates /\ lost' \subseteq Candidates
                   /\ pendingCandidates' \in Seq(Candidates)
                   /\ left' \in Seq(Candidates) /\ sent' \in Seq(Candidates)
                   /\ candidatesMux' \in BOOLEAN
                   /\ callback' \in [Attempts -> CallbackSet]
<1>0. /\ gathered \subseteq Candidates /\ lost \subseteq Candidates
      /\ pendingCandidates \in Seq(Candidates) /\ left \in Seq(Candidates)
      /\ sent \in Seq(Candidates)
      /\ candidatesMux \in BOOLEAN
      /\ callback \in [Attempts -> CallbackSet]
      BY DEF TypeOK, CallbackSet
<1>1. CASE UNCHANGED sendVars
      BY <1>0, <1>1 DEF sendVars
<1>2. CASE LockCandidates
      BY <1>0, <1>2 DEF LockCandidates
<1>3. CASE SendPending
  <2>1. Append(sent, Head(left)) \in Seq(Candidates) /\ Tail(left) \in Seq(Candidates)
        BY <1>0, <1>3 DEF SendPending
  <2>2. QED BY <1>0, <1>3, <2>1 DEF SendPending
<1>4. CASE Return
      BY <1>0, <1>4 DEF Return, EmptyPending
<1>5. CASE SendPendingFails
  <2>1. ToSet(left) \subseteq Candidates
        BY <1>0 DEF ToSet
  <2>2. pendingCandidates' = <<>> /\ left' = <<>> /\ candidatesMux' = FALSE
        BY <1>5 DEF SendPendingFails, EmptyPending
  <2>3. /\ UNCHANGED <<gathered, callback, sent>>
        /\ lost' = lost \cup ToSet(left)
        BY <1>5 DEF SendPendingFails
  <2>4. lost' \subseteq Candidates
        BY <1>0, <2>1, <2>3
  <2>5. /\ gathered' \subseteq Candidates
        /\ sent' \in Seq(Candidates)
        /\ callback' \in [Attempts -> CallbackSet]
        BY <1>0, <2>3
  <2>6. pendingCandidates' \in Seq(Candidates) /\ left' \in Seq(Candidates)
        BY <2>2
  <2>7. candidatesMux' \in BOOLEAN
        BY <2>2
  <2>8. QED BY <2>4, <2>5, <2>6, <2>7
<1>6. ASSUME NEW c \in Candidates, Gather(c) PROVE Goal
  <2>1. [at |-> "ask", of |-> c] \in CallbackSet
        BY DEF CallbackSet
  <2>2. callback' \in [Attempts -> CallbackSet]
        BY <1>0, <1>6, <2>1 DEF Gather
  <2>3. QED BY <1>0, <1>6, <2>2 DEF Gather
<1>7. ASSUME NEW a \in Attempts, Ask(a) PROVE Goal
  <2>1. callback' \in [Attempts -> CallbackSet]
        BY <1>0, <1>7, AskCallback
  <2>2. QED BY <1>0, <1>7, <2>1 DEF Ask
<1>8. ASSUME NEW a \in Attempts, AppendPending(a) PROVE Goal
  <2>1. callback[a].of \in Candidates
        BY <1>0, <1>8, UnderWay DEF AppendPending
  <2>2. Append(pendingCandidates, callback[a].of) \in Seq(Candidates)
        BY <1>0, <2>1
  <2>3. callback' \in [Attempts -> CallbackSet]
        BY <1>0, <1>8 DEF AppendPending, CallbackSet
  <2>4. QED BY <1>0, <1>8, <2>2, <2>3 DEF AppendPending
<1>9. ASSUME NEW a \in Attempts, SendAtOnce(a) PROVE Goal
  <2>1. callback[a].of \in Candidates
        BY <1>0, <1>9, UnderWay DEF SendAtOnce
  <2>2. Append(sent, callback[a].of) \in Seq(Candidates)
        BY <1>0, <2>1
  <2>3. callback' \in [Attempts -> CallbackSet]
        BY <1>0, <1>9 DEF SendAtOnce, CallbackSet
  <2>4. /\ sent' \in {sent, Append(sent, callback[a].of)}
        /\ lost' \in {lost, lost \cup {callback[a].of}}
        BY <1>9 DEF SendAtOnce
  <2>5. sent' \in Seq(Candidates) /\ lost' \subseteq Candidates
        BY <1>0, <2>1, <2>2, <2>4
  <2>6. QED BY <1>0, <1>9, <2>3, <2>5 DEF SendAtOnce
<1>10. CASE Begin \/ SendOffer \/ TakeAnswer \/ TimeOut
       BY <1>1, <1>10 DEF Begin, SendOffer, TakeAnswer, TimeOut
<1>11. CASE \/ \E a \in Attempts : TakeCandidate(a) \/ TakerTimesOut(a)
            \/ \E m \in messages : Deliver(m)
            \/ \E h \in handlers : HandleGarbage(h) \/ HandleCandidate(h)
       BY <1>1, <1>11
       DEF TakeCandidate, TakerTimesOut, Deliver, HandleGarbage, HandleCandidate
<1>12. QED BY <1>2, <1>3, <1>4, <1>5, <1>6, <1>7, <1>8, <1>9, <1>10, <1>11
           DEF Next, Main, Callback

LEMMA MainTypes ==
    ASSUME TypeOK, Next
    PROVE  /\ fault' \in Faults /\ stage' \in Stages
           /\ attempt' \in Attempts /\ route' \in Attempts
           /\ described' \subseteq Attempts /\ leftOpen' \subseteq Attempts
<1> DEFINE Goal == /\ fault' \in Faults /\ stage' \in Stages
                   /\ attempt' \in Attempts /\ route' \in Attempts
                   /\ described' \subseteq Attempts /\ leftOpen' \subseteq Attempts
<1>0. /\ fault \in Faults /\ stage \in Stages
      /\ attempt \in Attempts /\ route \in Attempts
      /\ described \subseteq Attempts /\ leftOpen \subseteq Attempts
      BY DEF TypeOK, Faults, Stages
<1> USE DEF Faults, Stages
<1>1. CASE UNCHANGED <<mainVars, route>>
      BY <1>0, <1>1 DEF mainVars
<1>2. CASE Begin
  <2>1. attempt < MaxAttempts
        BY <1>2 DEF Begin
  <2>2. attempt + 1 \in Attempts
    <3>1. MaxAttempts \in Nat /\ attempt \in Attempts
          BY <1>0, EdgeTrickleAssumption
    <3>2. QED BY <2>1, <3>1 DEF Attempts
  <2>3. QED BY <1>0, <1>2, <2>2 DEF Begin
<1>3. CASE SendOffer
      BY <1>0, <1>3 DEF SendOffer, recvVars
<1>4. CASE TakeAnswer
      BY <1>0, <1>4 DEF TakeAnswer
<1>5. CASE TimeOut
      BY <1>0, <1>5 DEF TimeOut, GiveUp, recvVars
<1>6. CASE LockCandidates
      BY <1>0, <1>6 DEF LockCandidates, recvVars
<1>7. CASE Return
      BY <1>0, <1>7 DEF Return, recvVars
<1>8. CASE SendPendingFails
      BY <1>0, <1>8 DEF SendPendingFails, GiveUp, recvVars
<1>9. ASSUME NEW h \in handlers, HandleGarbage(h) PROVE Goal
      BY <1>0, <1>9 DEF HandleGarbage
<1>10. ASSUME NEW h \in handlers, HandleCandidate(h) PROVE Goal
       BY <1>0, <1>10 DEF HandleCandidate
<1>11. CASE \/ SendPending
            \/ \E c \in Candidates : Gather(c)
            \/ \E a \in Attempts : \/ Callback(a)
                                   \/ TakeCandidate(a) \/ TakerTimesOut(a)
            \/ \E m \in messages : Deliver(m)
       BY <1>1, <1>11
       DEF SendPending, Gather, Callback, Ask, AppendPending, SendAtOnce,
           TakeCandidate, TakerTimesOut, Deliver, recvVars
<1>12. QED BY <1>2, <1>3, <1>4, <1>5, <1>6, <1>7, <1>8, <1>9, <1>10, <1>11
           DEF Next, Main

LEMMA RecvTypes ==
    ASSUME TypeOK, Next
    PROVE  /\ messages' \subseteq Remote \cup Garbage
           /\ handlers' \subseteq [to : Attempts, msg : Remote \cup Garbage]
           /\ channel' \in [Attempts -> Seq(Remote)]
           /\ \A a \in Attempts : Len(channel'[a]) <= CandidateCap
           /\ closed' \in [Attempts -> BOOLEAN]
           /\ taker' \in [Attempts -> {"idle", "selecting", "done", "timedOut"}]
           /\ added' \in [Attempts -> SUBSET Remote]
<1> DEFINE TakerSet == [Attempts -> {"idle", "selecting", "done", "timedOut"}]
           ChannelOK(f) == /\ f \in [Attempts -> Seq(Remote)]
                           /\ \A a \in Attempts : Len(f[a]) <= CandidateCap
           Goal == /\ messages' \subseteq Remote \cup Garbage
                   /\ handlers' \subseteq [to : Attempts, msg : Remote \cup Garbage]
                   /\ ChannelOK(channel')
                   /\ closed' \in [Attempts -> BOOLEAN]
                   /\ taker' \in TakerSet
                   /\ added' \in [Attempts -> SUBSET Remote]
<1>0. /\ messages \subseteq Remote \cup Garbage
      /\ handlers \subseteq [to : Attempts, msg : Remote \cup Garbage]
      /\ ChannelOK(channel)
      /\ closed \in [Attempts -> BOOLEAN]
      /\ taker \in TakerSet
      /\ added \in [Attempts -> SUBSET Remote]
      /\ route \in Attempts /\ attempt \in Attempts
      BY DEF TypeOK
<1>1. CASE UNCHANGED <<messages, handlers, channel, closed, taker, added>>
      BY <1>0, <1>1
<1>2. CASE TakeAnswer
  <2>1. taker' \in TakerSet
        BY <1>0, <1>2 DEF TakeAnswer
  <2>2. QED BY <1>0, <1>2, <2>1 DEF TakeAnswer
<1>3. ASSUME NEW m \in messages, Deliver(m) PROVE Goal
  <2>1. [to |-> route, msg |-> m] \in [to : Attempts, msg : Remote \cup Garbage]
        BY <1>0
  <2>2. /\ messages' \subseteq Remote \cup Garbage
        /\ handlers' \subseteq [to : Attempts, msg : Remote \cup Garbage]
        BY <1>0, <1>3, <2>1 DEF Deliver
  <2>3. QED BY <1>0, <1>3, <2>2 DEF Deliver
<1>4. ASSUME NEW h \in handlers, HandleGarbage(h) PROVE Goal
  <2>1. closed' \in [Attempts -> BOOLEAN]
        BY <1>0, <1>4 DEF HandleGarbage
  <2>2. QED BY <1>0, <1>4, <2>1 DEF HandleGarbage
<1>5. ASSUME NEW h \in handlers, HandleCandidate(h) PROVE Goal
  <2>1. h.to \in Attempts /\ h.msg \in Remote
        BY <1>0, <1>5 DEF HandleCandidate
  <2>2. CASE UNCHANGED channel
        BY <1>0, <1>5, <2>2 DEF HandleCandidate
  <2>3. CASE ~closed[h.to] /\ Len(channel[h.to]) < CandidateCap
             /\ channel' = [channel EXCEPT ![h.to] = Append(@, h.msg)]
    <3>1. ChannelOK(channel')
          BY <1>0, <2>1, <2>3, OneMore
    <3>2. QED BY <1>0, <1>5, <3>1 DEF HandleCandidate
  <2>4. QED BY <1>5, <2>2, <2>3 DEF HandleCandidate
<1>6. ASSUME NEW a \in Attempts, TakeCandidate(a) PROVE Goal
  <2>1. taker' \in TakerSet
        BY <1>0, <1>6 DEF TakeCandidate
  <2>2. CASE UNCHANGED <<added, channel>>
        BY <1>0, <1>6, <2>1, <2>2 DEF TakeCandidate
  <2>3. CASE /\ channel[a] # <<>>
             /\ added' = [added EXCEPT ![a] = @ \cup {Head(channel[a])}]
             /\ channel' = [channel EXCEPT ![a] = Tail(@)]
    <3>1. ChannelOK(channel') /\ Head(channel[a]) \in Remote
          BY <1>0, <2>3, OneLess
    <3>2. added' \in [Attempts -> SUBSET Remote]
          BY <1>0, <2>3, <3>1
    <3>3. QED BY <1>0, <1>6, <2>1, <3>1, <3>2 DEF TakeCandidate
  <2>4. QED BY <1>6, <2>2, <2>3 DEF TakeCandidate
<1>7. ASSUME NEW a \in Attempts, TakerTimesOut(a) PROVE Goal
  <2>1. taker' \in TakerSet
        BY <1>0, <1>7 DEF TakerTimesOut
  <2>2. QED BY <1>0, <1>7, <2>1 DEF TakerTimesOut
<1>8. CASE \/ Begin \/ SendOffer \/ TimeOut
           \/ LockCandidates \/ SendPending \/ Return \/ SendPendingFails
           \/ \E c \in Candidates : Gather(c)
           \/ \E a \in Attempts : Callback(a)
      BY <1>1, <1>8
      DEF Begin, SendOffer, TimeOut, LockCandidates, SendPending, Return,
          SendPendingFails, Gather, Callback, Ask, AppendPending, SendAtOnce,
          recvVars
<1>9. QED BY <1>2, <1>3, <1>4, <1>5, <1>6, <1>7, <1>8 DEF Next, Main

LEMMA TypeStep == TypeOK /\ [Next]_vars => TypeOK'
<1>1. ASSUME TypeOK, Next PROVE TypeOK'
      BY <1>1, MainTypes, SendTypes, RecvTypes
      DEF TypeOK, Faults, Stages, CallbackSet
<1>2. ASSUME TypeOK, UNCHANGED vars PROVE TypeOK'
      BY <1>2 DEF TypeOK, vars, mainVars, sendVars, recvVars
<1>3. QED BY <1>1, <1>2

\* Every variable keeps its type: in particular a channel of candidates never
\* holds more than its two places (signal.go:97).
THEOREM TypeCorrect == Spec => []TypeOK
<1>1. QED BY TypeInitially, TypeStep, PTL DEF Spec

-----------------------------------------------------------------------------
(* Sequences without duplicates.                                           *)

LEMMA EmptySequence == ToSet(<<>>) = {} /\ IsInjective(<<>>)
BY DEF ToSet, IsInjective

LEMMA AppendedOne ==
    ASSUME NEW S, NEW q \in Seq(S), NEW e \in S
    PROVE  /\ ToSet(Append(q, e)) = ToSet(q) \cup {e}
           /\ IsInjective(q) /\ e \notin ToSet(q) => IsInjective(Append(q, e))
<1> DEFINE r == Append(q, e)
<1>1. /\ DOMAIN r = DOMAIN q \cup {Len(q) + 1}
      /\ \A i \in DOMAIN q : r[i] = q[i]
      /\ r[Len(q) + 1] = e
      /\ Len(q) + 1 \notin DOMAIN q
      OBVIOUS
<1> HIDE DEF r
<1>2. ToSet(r) = ToSet(q) \cup {e}
      BY <1>1 DEF ToSet
<1>3. ASSUME IsInjective(q), e \notin ToSet(q),
             NEW a \in DOMAIN r, NEW b \in DOMAIN r, r[a] = r[b]
      PROVE  a = b
  <2>1. \A i \in DOMAIN q : q[i] # e
        BY <1>3 DEF ToSet
  <2>2. CASE a \in DOMAIN q /\ b \in DOMAIN q
        BY <1>1, <1>3, <2>2 DEF IsInjective
  <2>3. CASE a = Len(q) + 1 \/ b = Len(q) + 1
        BY <1>1, <1>3, <2>1, <2>3
  <2>4. QED BY <1>1, <2>2, <2>3
<1>4. QED BY <1>2, <1>3 DEF IsInjective, r

LEMMA FirstTaken ==
    ASSUME NEW S, NEW q \in Seq(S), q # <<>>
    PROVE  /\ Head(q) \in S /\ Tail(q) \in Seq(S)
           /\ ToSet(q) = {Head(q)} \cup ToSet(Tail(q))
           /\ IsInjective(q) => /\ IsInjective(Tail(q))
                                /\ Head(q) \notin ToSet(Tail(q))
<1> DEFINE t == Tail(q)
<1>1. /\ t \in Seq(S) /\ Head(q) \in S /\ Head(q) = q[1] /\ 1 \in DOMAIN q
      /\ \A i \in DOMAIN t : i + 1 \in DOMAIN q /\ t[i] = q[i + 1] /\ i \in Nat \ {0}
      /\ \A i \in DOMAIN q : i = 1 \/ (i - 1 \in DOMAIN t /\ q[i] = t[i - 1])
      OBVIOUS
<1> HIDE DEF t
<1>2. ToSet(q) = {Head(q)} \cup ToSet(t)
  <2>1. \A x \in ToSet(q) : x \in {Head(q)} \cup ToSet(t)
        BY <1>1 DEF ToSet
  <2>2. \A x \in ToSet(t) : x \in ToSet(q)
        BY <1>1 DEF ToSet
  <2>3. Head(q) \in ToSet(q)
        BY <1>1 DEF ToSet
  <2>4. QED BY <2>1, <2>2, <2>3
<1>3. ASSUME IsInjective(q) PROVE IsInjective(t)
  <2> SUFFICES ASSUME NEW a \in DOMAIN t, NEW b \in DOMAIN t, t[a] = t[b]
               PROVE  a = b
      BY DEF IsInjective
  <2>1. a + 1 = b + 1
        BY <1>1, <1>3 DEF IsInjective
  <2>2. QED BY <1>1, <2>1
<1>4. ASSUME IsInjective(q) PROVE Head(q) \notin ToSet(t)
  <2> SUFFICES ASSUME NEW a \in DOMAIN t, t[a] = q[1] PROVE FALSE
      BY <1>1 DEF ToSet
  <2>1. a + 1 = 1
        BY <1>1, <1>4 DEF IsInjective
  <2>2. QED BY <1>1, <2>1
<1>5. QED BY <1>1, <1>2, <1>3, <1>4 DEF t

LEMMA OneAfterTheOther ==
    ASSUME NEW S, NEW p \in Seq(S), NEW q \in Seq(S)
    PROVE  /\ ToSet(p \o q) = ToSet(p) \cup ToSet(q)
           /\ IsInjective(p) /\ IsInjective(q) /\ ToSet(p) \cap ToSet(q) = {}
                => IsInjective(p \o q)
<1> DEFINE r == p \o q
<1>1. /\ Len(p) \in Nat /\ Len(q) \in Nat /\ Len(r) = Len(p) + Len(q)
      /\ DOMAIN r = 1..Len(p) + Len(q)
      /\ DOMAIN p = 1..Len(p) /\ DOMAIN q = 1..Len(q)
      OBVIOUS
<1>2. /\ \A i \in DOMAIN p : i \in DOMAIN r /\ r[i] = p[i]
      /\ \A i \in DOMAIN q : i + Len(p) \in DOMAIN r /\ r[i + Len(p)] = q[i]
      /\ \A i \in DOMAIN r : i \notin DOMAIN p =>
            i - Len(p) \in DOMAIN q /\ r[i] = q[i - Len(p)]
      OBVIOUS
<1> HIDE DEF r
<1>3. ToSet(r) = ToSet(p) \cup ToSet(q)
  <2>1. \A x \in ToSet(r) : x \in ToSet(p) \cup ToSet(q)
        BY <1>2 DEF ToSet
  <2>2. \A x \in ToSet(p) : x \in ToSet(r)
        BY <1>2 DEF ToSet
  <2>3. \A x \in ToSet(q) : x \in ToSet(r)
        BY <1>2 DEF ToSet
  <2>4. QED BY <2>1, <2>2, <2>3
<1>4. ASSUME IsInjective(p), IsInjective(q), ToSet(p) \cap ToSet(q) = {},
             NEW a \in DOMAIN r, NEW b \in DOMAIN r, r[a] = r[b]
      PROVE  a = b
  <2>0. \A i \in DOMAIN p, j \in DOMAIN q : p[i] # q[j]
        BY <1>4 DEF ToSet
  <2>1. CASE a \in DOMAIN p /\ b \in DOMAIN p
        BY <1>2, <1>4, <2>1 DEF IsInjective
  <2>2. CASE a \in DOMAIN p /\ b \notin DOMAIN p
        BY <1>2, <1>4, <2>0, <2>2
  <2>3. CASE a \notin DOMAIN p /\ b \in DOMAIN p
        BY <1>2, <1>4, <2>0, <2>3
  <2>4. CASE a \notin DOMAIN p /\ b \notin DOMAIN p
    <3>1. /\ a - Len(p) \in DOMAIN q /\ b - Len(p) \in DOMAIN q
          /\ q[a - Len(p)] = q[b - Len(p)]
          BY <1>2, <1>4, <2>4
    <3>2. a - Len(p) = b - Len(p)
          BY <1>4, <3>1 DEF IsInjective
    <3>3. QED BY <1>1, <3>2
  <2>5. QED BY <2>1, <2>2, <2>3, <2>4
<1>5. QED BY <1>3, <1>4 DEF IsInjective, r

-----------------------------------------------------------------------------
(* Where a gathered candidate is.                                          *)

\* Each candidate is with the callback of its own attempt, waiting in
\* pendingCandidates, sent or lost, and never in two of these places; the
\* mutex is held exactly while the pending ones are sent.
OwnCallbacks == \A a \in Attempts : callback[a] # NoCallback => callback[a].of[1] = a

Distinct == /\ IsInjective(sent) /\ IsInjective(Waiting)
            /\ ToSet(sent) \cap ToSet(Waiting) = {}
            /\ lost \cap (ToSet(sent) \cup ToSet(Waiting)) = {}
            /\ InCallback \cap (ToSet(sent) \cup ToSet(Waiting) \cup lost) = {}

Accounting ==
    /\ candidatesMux <=> stage = "sending"
    /\ OwnCallbacks
    /\ Distinct
    /\ gathered = InCallback \cup ToSet(sent) \cup ToSet(Waiting) \cup lost

LEMMA AccountingImplies == TypeOK /\ Accounting => GatheredAccounted
<1> SUFFICES ASSUME TypeOK, Accounting PROVE GatheredAccounted
    OBVIOUS
<1>1. sent \in Seq(Candidates) /\ Waiting \in Seq(Candidates)
      BY DEF TypeOK, Waiting
<1>2. /\ ToSet(sent \o Waiting) = ToSet(sent) \cup ToSet(Waiting)
      /\ IsInjective(sent \o Waiting)
      BY <1>1, OneAfterTheOther DEF Accounting, Distinct
<1>3. QED BY <1>2 DEF GatheredAccounted, Accounting, Distinct

\* A new callback, one that goes on, and one that returns.
LEMMA CallbackBegins ==
    ASSUME TypeOK, OwnCallbacks, NEW c \in Candidates, Gather(c)
    PROVE  OwnCallbacks' /\ InCallback' = InCallback \cup {c}
<1>1. /\ c[1] \in Attempts
      /\ callback \in [Attempts -> CallbackSet]
      /\ callback[c[1]] = NoCallback
      /\ callback' = [callback EXCEPT ![c[1]] = [at |-> "ask", of |-> c]]
      BY EdgeTrickleAssumption DEF Gather, TypeOK, CallbackSet
<1>2. /\ callback'[c[1]] = [at |-> "ask", of |-> c]
      /\ \A b \in Attempts \ {c[1]} : callback'[b] = callback[b]
      BY <1>1
<1>3. callback'[c[1]].of = c /\ callback'[c[1]] # NoCallback
  <2>1. callback'[c[1]].of = c /\ callback'[c[1]].at = "ask"
        BY <1>2
  <2>2. QED BY <2>1 DEF NoCallback
<1>4. OwnCallbacks'
      BY <1>1, <1>2, <1>3 DEF OwnCallbacks
<1>5. InCallback' = InCallback \cup {c}
      BY <1>1, <1>2, <1>3 DEF InCallback
<1>6. QED BY <1>4, <1>5

LEMMA CallbackGoesOn ==
    ASSUME TypeOK, OwnCallbacks, NEW a \in Attempts, Ask(a)
    PROVE  OwnCallbacks' /\ InCallback' = InCallback
<1>1. /\ callback'[a].of = callback[a].of
      /\ callback'[a] # NoCallback /\ callback[a] # NoCallback
      /\ \A b \in Attempts \ {a} : callback'[b] = callback[b]
      BY AskCallback DEF TypeOK, CallbackSet
<1>2. OwnCallbacks'
      BY <1>1 DEF OwnCallbacks
<1>3. InCallback' = InCallback
      BY <1>1 DEF InCallback
<1>4. QED BY <1>2, <1>3

LEMMA CallbackReturns ==
    ASSUME TypeOK, OwnCallbacks, NEW a \in Attempts,
           callback[a].at # "none", callback' = [callback EXCEPT ![a] = NoCallback]
    PROVE  /\ OwnCallbacks'
           /\ callback[a].of \in InCallback /\ callback[a].of \in Candidates
           /\ InCallback' = InCallback \ {callback[a].of}
<1>1. /\ callback \in [Attempts -> CallbackSet]
      /\ callback'[a] = NoCallback
      /\ \A b \in Attempts \ {a} : callback'[b] = callback[b]
      BY DEF TypeOK, CallbackSet
<1>2. callback[a] # NoCallback /\ callback[a].of \in Candidates
      BY <1>1, UnderWay
<1>3. OwnCallbacks'
      BY <1>1 DEF OwnCallbacks
<1>4. callback[a].of \in InCallback
      BY <1>2 DEF InCallback
<1>5. \A b \in Attempts \ {a} :
          callback[b] # NoCallback => callback[b].of # callback[a].of
      BY <1>2 DEF OwnCallbacks
<1>6. InCallback' = InCallback \ {callback[a].of}
  <2>1. \A x \in InCallback' : x \in InCallback \ {callback[a].of}
        BY <1>1, <1>5 DEF InCallback
  <2>2. \A x \in InCallback \ {callback[a].of} : x \in InCallback'
        BY <1>1 DEF InCallback
  <2>3. QED BY <2>1, <2>2
<1>7. QED BY <1>2, <1>3, <1>4, <1>6

\* A candidate that was accounted for goes to another place.
LEMMA AccountingStep == TypeOK /\ Accounting /\ [Next]_vars => Accounting'
<1> SUFFICES ASSUME TypeOK, Accounting, [Next]_vars PROVE Accounting'
    OBVIOUS
<1>0. /\ OwnCallbacks /\ Distinct /\ (candidatesMux <=> stage = "sending")
      /\ gathered = InCallback \cup ToSet(sent) \cup ToSet(Waiting) \cup lost
      /\ sent \in Seq(Candidates) /\ left \in Seq(Candidates)
      /\ pendingCandidates \in Seq(Candidates) /\ Waiting \in Seq(Candidates)
      BY DEF Accounting, TypeOK, Waiting
\* Steps that leave the candidates where they are.
<1>1. ASSUME UNCHANGED <<gathered, callback, sent, lost, candidatesMux>>,
             Waiting' = Waiting, stage' = "sending" <=> stage = "sending"
      PROVE  Accounting'
  <2>1. OwnCallbacks' /\ InCallback' = InCallback
        BY <1>0, <1>1 DEF OwnCallbacks, InCallback
  <2>2. Distinct'
        BY <1>0, <1>1, <2>1 DEF Distinct
  <2>3. candidatesMux' <=> stage' = "sending"
        BY <1>0, <1>1
  <2>4. gathered' = InCallback' \cup ToSet(sent') \cup ToSet(Waiting') \cup lost'
        BY <1>0, <1>1, <2>1
  <2>5. QED BY <2>1, <2>2, <2>3, <2>4 DEF Accounting
<1>2. CASE \/ Begin \/ SendOffer \/ TakeAnswer \/ TimeOut
           \/ \E a \in Attempts : TakeCandidate(a) \/ TakerTimesOut(a)
           \/ \E m \in messages : Deliver(m)
           \/ \E h \in handlers : HandleGarbage(h) \/ HandleCandidate(h)
           \/ UNCHANGED vars
  <2>1. /\ UNCHANGED sendVars
        /\ stage' = "sending" <=> stage = "sending"
        BY <1>2 DEF Begin, SendOffer, TakeAnswer, TimeOut, GiveUp, TakeCandidate,
                    TakerTimesOut, Deliver, HandleGarbage, HandleCandidate,
                    vars, mainVars
  <2>2. Waiting' = Waiting
        BY <2>1 DEF Waiting, sendVars
  <2>3. QED BY <1>1, <2>1, <2>2 DEF sendVars
<1>3. CASE LockCandidates
  <2>1. /\ UNCHANGED <<gathered, callback, sent, lost>>
        /\ stage = "described" /\ stage' = "sending" /\ candidatesMux'
        /\ left' = pendingCandidates
        BY <1>3 DEF LockCandidates
  <2>2. Waiting' = Waiting
        BY <2>1 DEF Waiting
  <2>3. OwnCallbacks' /\ InCallback' = InCallback
        BY <1>0, <2>1 DEF OwnCallbacks, InCallback
  <2>4. Distinct'
        BY <1>0, <2>1, <2>2, <2>3 DEF Distinct
  <2>5. QED BY <1>0, <2>1, <2>2, <2>3, <2>4 DEF Accounting
<1>4. CASE SendPending
  <2>1. /\ UNCHANGED <<gathered, callback, lost, candidatesMux, stage>>
        /\ stage = "sending" /\ left # <<>>
        /\ sent' = Append(sent, Head(left)) /\ left' = Tail(left)
        BY <1>4 DEF SendPending, mainVars
  <2>2. Waiting = left /\ Waiting' = left'
        BY <2>1 DEF Waiting
  <2>3. OwnCallbacks' /\ InCallback' = InCallback
        BY <1>0, <2>1 DEF OwnCallbacks, InCallback
  <2>4. /\ ToSet(left) = {Head(left)} \cup ToSet(left')
        /\ IsInjective(left') /\ Head(left) \notin ToSet(left')
        /\ Head(left) \in Candidates
        BY <1>0, <2>1, <2>2, FirstTaken DEF Distinct
  <2>5. /\ ToSet(sent') = ToSet(sent) \cup {Head(left)}
        /\ IsInjective(sent')
    <3>1. IsInjective(sent) /\ Head(left) \notin ToSet(sent)
          BY <1>0, <2>2, <2>4 DEF Distinct
    <3>2. QED BY <1>0, <2>1, <2>4, <3>1, AppendedOne
  <2>6. Distinct'
        BY <1>0, <2>1, <2>2, <2>3, <2>4, <2>5 DEF Distinct
  <2>7. gathered' = InCallback' \cup ToSet(sent') \cup ToSet(Waiting') \cup lost'
        BY <1>0, <2>1, <2>2, <2>3, <2>4, <2>5
  <2>8. QED BY <1>0, <2>1, <2>3, <2>6, <2>7 DEF Accounting
<1>5. CASE Return
  <2>1. /\ UNCHANGED <<gathered, callback, sent, lost>>
        /\ stage = "sending" /\ stage' = "signaled" /\ left = <<>>
        /\ pendingCandidates' = <<>> /\ candidatesMux' = FALSE
        BY <1>5 DEF Return, EmptyPending
  <2>2. Waiting' = Waiting
        BY <2>1 DEF Waiting
  <2>3. OwnCallbacks' /\ InCallback' = InCallback
        BY <1>0, <2>1 DEF OwnCallbacks, InCallback
  <2>4. Distinct'
        BY <1>0, <2>1, <2>2, <2>3 DEF Distinct
  <2>5. QED BY <1>0, <2>1, <2>2, <2>3, <2>4 DEF Accounting
<1>6. CASE SendPendingFails
  <2>1. /\ UNCHANGED <<gathered, callback, sent>>
        /\ lost' = lost \cup ToSet(left)
        /\ stage = "sending" /\ stage' = "gaveUp"
        /\ pendingCandidates' = <<>> /\ candidatesMux' = FALSE
        BY <1>6 DEF SendPendingFails, EmptyPending, GiveUp
  <2>2. Waiting = left /\ Waiting' = <<>>
        BY <2>1 DEF Waiting
  <2>3. OwnCallbacks' /\ InCallback' = InCallback
        BY <1>0, <2>1 DEF OwnCallbacks, InCallback
  <2>4. Distinct'
        BY <1>0, <2>1, <2>2, <2>3, EmptySequence DEF Distinct
  <2>5. gathered' = InCallback' \cup ToSet(sent') \cup ToSet(Waiting') \cup lost'
        BY <1>0, <2>1, <2>2, <2>3, EmptySequence
  <2>6. QED BY <1>0, <2>1, <2>3, <2>4, <2>5 DEF Accounting
<1>7. ASSUME NEW c \in Candidates, Gather(c) PROVE Accounting'
  <2>1. /\ UNCHANGED <<sent, lost, candidatesMux, stage, left, pendingCandidates>>
        /\ c \notin gathered /\ gathered' = gathered \cup {c}
        BY <1>7 DEF Gather, mainVars
  <2>2. OwnCallbacks' /\ InCallback' = InCallback \cup {c}
        BY <1>0, <1>7, CallbackBegins
  <2>3. Waiting' = Waiting
        BY <2>1 DEF Waiting
  <2>4. Distinct'
        BY <1>0, <2>1, <2>2, <2>3 DEF Distinct
  <2>5. gathered' = InCallback' \cup ToSet(sent') \cup ToSet(Waiting') \cup lost'
        BY <1>0, <2>1, <2>2, <2>3
  <2>6. QED BY <1>0, <2>1, <2>2, <2>4, <2>5 DEF Accounting
<1>8. ASSUME NEW a \in Attempts, Ask(a) PROVE Accounting'
  <2>1. UNCHANGED <<gathered, sent, lost, candidatesMux, stage, left, pendingCandidates>>
        BY <1>8 DEF Ask, mainVars
  <2>2. OwnCallbacks' /\ InCallback' = InCallback
        BY <1>0, <1>8, CallbackGoesOn
  <2>3. Waiting' = Waiting
        BY <2>1 DEF Waiting
  <2>4. Distinct'
        BY <1>0, <2>1, <2>2, <2>3 DEF Distinct
  <2>5. QED BY <1>0, <2>1, <2>2, <2>3, <2>4 DEF Accounting
<1>9. ASSUME NEW a \in Attempts, AppendPending(a) PROVE Accounting'
  <2> DEFINE c == callback[a].of
  <2>1. /\ UNCHANGED <<gathered, sent, lost, candidatesMux, stage, left>>
        /\ ~candidatesMux /\ callback[a].at # "none"
        /\ callback' = [callback EXCEPT ![a] = NoCallback]
        /\ pendingCandidates' = Append(pendingCandidates, c)
        BY <1>9 DEF AppendPending, mainVars
  <2>2. /\ OwnCallbacks' /\ InCallback' = InCallback \ {c}
        /\ c \in InCallback /\ c \in Candidates
        BY <1>0, <2>1, CallbackReturns
  <2> HIDE DEF c
  <2>3. Waiting = pendingCandidates /\ Waiting' = Append(Waiting, c)
        BY <1>0, <2>1 DEF Waiting
  <2>4. /\ ToSet(Waiting') = ToSet(Waiting) \cup {c}
        /\ IsInjective(Waiting')
    <3>1. IsInjective(Waiting) /\ c \notin ToSet(Waiting)
          BY <1>0, <2>2 DEF Distinct
    <3>2. QED BY <1>0, <2>2, <2>3, <3>1, AppendedOne
  <2>5. Distinct'
        BY <1>0, <2>1, <2>2, <2>4 DEF Distinct
  <2>6. gathered' = InCallback' \cup ToSet(sent') \cup ToSet(Waiting') \cup lost'
        BY <1>0, <2>1, <2>2, <2>4
  <2>7. QED BY <1>0, <2>1, <2>2, <2>5, <2>6 DEF Accounting
<1>10. ASSUME NEW a \in Attempts, SendAtOnce(a) PROVE Accounting'
  <2> DEFINE c == callback[a].of
  <2>1. /\ UNCHANGED <<gathered, candidatesMux, stage, left, pendingCandidates>>
        /\ callback[a].at # "none"
        /\ callback' = [callback EXCEPT ![a] = NoCallback]
        /\ \/ sent' = Append(sent, c) /\ UNCHANGED lost
           \/ lost' = lost \cup {c} /\ UNCHANGED sent
        BY <1>10 DEF SendAtOnce, mainVars
  <2>2. /\ OwnCallbacks' /\ InCallback' = InCallback \ {c}
        /\ c \in InCallback /\ c \in Candidates
        BY <1>0, <2>1, CallbackReturns
  <2> HIDE DEF c
  <2>3. Waiting' = Waiting
        BY <2>1 DEF Waiting
  <2>4. CASE sent' = Append(sent, c) /\ UNCHANGED lost
    <3>1. /\ ToSet(sent') = ToSet(sent) \cup {c}
          /\ IsInjective(sent')
      <4>1. IsInjective(sent) /\ c \notin ToSet(sent)
            BY <1>0, <2>2 DEF Distinct
      <4>2. QED BY <1>0, <2>2, <2>4, <4>1, AppendedOne
    <3>2. Distinct'
          BY <1>0, <2>2, <2>3, <2>4, <3>1 DEF Distinct
    <3>3. gathered' = InCallback' \cup ToSet(sent') \cup ToSet(Waiting') \cup lost'
          BY <1>0, <2>1, <2>2, <2>3, <2>4, <3>1
    <3>4. QED BY <1>0, <2>1, <2>2, <3>2, <3>3 DEF Accounting
  <2>5. CASE lost' = lost \cup {c} /\ UNCHANGED sent
    <3>1. Distinct'
          BY <1>0, <2>2, <2>3, <2>5 DEF Distinct
    <3>2. gathered' = InCallback' \cup ToSet(sent') \cup ToSet(Waiting') \cup lost'
          BY <1>0, <2>1, <2>2, <2>3, <2>5
    <3>3. QED BY <1>0, <2>1, <2>2, <3>1, <3>2 DEF Accounting
  <2>6. QED BY <2>1, <2>4, <2>5
<1>11. QED BY <1>2, <1>3, <1>4, <1>5, <1>6, <1>7, <1>8, <1>9, <1>10
           DEF Next, Main, Callback

LEMMA AccountingInitially == Init => Accounting
<1> SUFFICES ASSUME Init PROVE Accounting
    OBVIOUS
<1>1. /\ sent = <<>> /\ Waiting = <<>> /\ lost = {} /\ gathered = {}
      /\ candidatesMux = FALSE /\ stage = "subscribed"
      /\ \A a \in Attempts : callback[a] = NoCallback
      BY DEF Init, Waiting
<1>2. OwnCallbacks /\ InCallback = {}
      BY <1>1 DEF OwnCallbacks, InCallback
<1>3. Distinct
      BY <1>1, <1>2, EmptySequence DEF Distinct
<1>4. QED BY <1>1, <1>2, <1>3, EmptySequence DEF Accounting

LEMMA AccountingInvariance == Spec => []Accounting
<1>1. QED BY AccountingInitially, AccountingStep, TypeCorrect, PTL DEF Spec

\* What the callbacks of all attempts, the loop over the pending candidates and
\* the emptying of them do together loses no candidate and sends none twice
\* (publisher.go:105-122, 164-178).
THEOREM CandidatesAccounted == Spec => []GatheredAccounted
<1>1. QED BY AccountingImplies, AccountingInvariance, TypeCorrect, PTL

-----------------------------------------------------------------------------
(* The edge trickles safely: it implements Trickle.                        *)

\* Whoever sends a candidate has had an answer: a callback saw the remote
\* description, and the loop runs after signalCandidate was started.
AnsweredFirst ==
    /\ \A a \in Attempts : callback[a].at = "send" => a \in described
    /\ \A a \in described : taker[a] # "idle"
    /\ stage \in {"described", "sending"} => taker[attempt] # "idle"

LEMMA TakersStay ==
    ASSUME TypeOK, [Next]_vars
    PROVE  /\ \A a \in Attempts : taker[a] # "idle" => taker'[a] # "idle"
           /\ described \subseteq described'
<1>1. CASE UNCHANGED <<taker, described>>
      BY <1>1
<1>2. CASE TakeAnswer
      BY <1>2 DEF TakeAnswer, TypeOK
<1>3. ASSUME NEW a \in Attempts, TakeCandidate(a) \/ TakerTimesOut(a)
      PROVE  /\ \A b \in Attempts : taker[b] # "idle" => taker'[b] # "idle"
             /\ described \subseteq described'
  <2>1. described' = described /\ \E v \in {"done", "timedOut"} : taker' = [taker EXCEPT ![a] = v]
        BY <1>3 DEF TakeCandidate, TakerTimesOut, mainVars
  <2>2. QED BY <2>1 DEF TypeOK
<1>4. CASE \/ Begin \/ SendOffer \/ TimeOut
           \/ LockCandidates \/ SendPending \/ Return \/ SendPendingFails
           \/ \E c \in Candidates : Gather(c)
           \/ \E a \in Attempts : Callback(a)
           \/ \E m \in messages : Deliver(m)
           \/ \E h \in handlers : HandleGarbage(h) \/ HandleCandidate(h)
           \/ UNCHANGED vars
      BY <1>1, <1>4
      DEF Begin, SendOffer, TimeOut, LockCandidates, SendPending, Return,
          SendPendingFails, Gather, Callback, Ask, AppendPending, SendAtOnce,
          Deliver, HandleGarbage, HandleCandidate, vars, mainVars, recvVars
<1>5. QED BY <1>2, <1>3, <1>4 DEF Next, Main

LEMMA AnsweredFirstStep ==
    TypeOK /\ AnsweredFirst /\ [Next]_vars => AnsweredFirst'
<1> SUFFICES ASSUME TypeOK, AnsweredFirst, [Next]_vars PROVE AnsweredFirst'
    OBVIOUS
<1>0. /\ \A a \in Attempts : taker[a] # "idle" => taker'[a] # "idle"
      /\ described \subseteq described' /\ described \subseteq Attempts
      /\ attempt \in Attempts
      BY TakersStay DEF TypeOK
<1>1. \A a \in Attempts : callback'[a].at = "send" => a \in described'
  <2>1. CASE UNCHANGED callback
        BY <1>0, <2>1 DEF AnsweredFirst
  <2>2. ASSUME NEW a \in Attempts, Ask(a)
        PROVE  \A b \in Attempts : callback'[b].at = "send" => b \in described'
    <3>1. /\ callback'[a].at = IF a \in described THEN "send" ELSE "append"
          /\ \A b \in Attempts \ {a} : callback'[b] = callback[b]
          BY <2>2, AskCallback DEF TypeOK, CallbackSet
    <3>2. QED BY <1>0, <3>1 DEF AnsweredFirst
  <2>3. ASSUME NEW a \in Attempts, NEW k, k.at # "send",
               callback' = [callback EXCEPT ![a] = k]
        PROVE  \A b \in Attempts : callback'[b].at = "send" => b \in described'
    <3>1. callback'[a] = k /\ \A b \in Attempts \ {a} : callback'[b] = callback[b]
          BY <2>3 DEF TypeOK
    <3>2. QED BY <1>0, <2>3, <3>1 DEF AnsweredFirst
  <2>4. ASSUME NEW c \in Candidates, Gather(c)
        PROVE  \A b \in Attempts : callback'[b].at = "send" => b \in described'
    <3>1. [at |-> "ask", of |-> c].at # "send" /\ c[1] \in Attempts
          BY EdgeTrickleAssumption
    <3>2. callback' = [callback EXCEPT ![c[1]] = [at |-> "ask", of |-> c]]
          BY <2>4 DEF Gather
    <3>3. QED BY <1>0, <2>3, <3>1, <3>2
  <2>5. ASSUME NEW a \in Attempts, AppendPending(a) \/ SendAtOnce(a)
        PROVE  \A b \in Attempts : callback'[b].at = "send" => b \in described'
    <3>1. NoCallback.at # "send"
          BY DEF NoCallback
    <3>2. callback' = [callback EXCEPT ![a] = NoCallback]
          BY <2>5 DEF AppendPending, SendAtOnce
    <3>3. QED BY <2>3, <3>1, <3>2
  <2>6. CASE \/ Begin \/ Main
             \/ \E a \in Attempts : TakeCandidate(a) \/ TakerTimesOut(a)
             \/ \E m \in messages : Deliver(m)
             \/ \E h \in handlers : HandleGarbage(h) \/ HandleCandidate(h)
             \/ UNCHANGED vars
        BY <2>1, <2>6
        DEF Main, Begin, SendOffer, TakeAnswer, TimeOut, LockCandidates,
            SendPending, Return, SendPendingFails, TakeCandidate, TakerTimesOut,
            Deliver, HandleGarbage, HandleCandidate, vars, mainVars, sendVars
  <2>7. QED BY <2>2, <2>4, <2>5, <2>6 DEF Next, Callback
<1>2. \A a \in described' : taker'[a] # "idle"
  <2>1. CASE UNCHANGED described
        BY <1>0, <2>1 DEF AnsweredFirst
  <2>2. CASE TakeAnswer
        BY <1>0, <2>2 DEF TakeAnswer, AnsweredFirst, TypeOK
  <2>3. described' = described \/ TakeAnswer
        BY DEF Next, Main, Begin, SendOffer, TimeOut, LockCandidates,
               SendPending, Return, SendPendingFails, Gather, Callback, Ask,
               AppendPending, SendAtOnce, TakeCandidate, TakerTimesOut, Deliver,
               HandleGarbage, HandleCandidate, vars, mainVars
  <2>4. QED BY <2>1, <2>2, <2>3
<1>3. stage' \in {"described", "sending"} => taker'[attempt'] # "idle"
  <2>1. CASE TakeAnswer
        BY <1>0, <2>1 DEF TakeAnswer, TypeOK
  <2>2. CASE stage' \in {"described", "sending"}
               => stage \in {"described", "sending"} /\ attempt' = attempt
        BY <1>0, <2>2 DEF AnsweredFirst
  <2>3. \/ TakeAnswer
        \/ stage' \in {"described", "sending"}
              => stage \in {"described", "sending"} /\ attempt' = attempt
        BY DEF Next, Main, Begin, SendOffer, TimeOut, LockCandidates, GiveUp,
               SendPending, Return, SendPendingFails, Gather, Callback, Ask,
               AppendPending, SendAtOnce, TakeCandidate, TakerTimesOut, Deliver,
               HandleGarbage, HandleCandidate, vars, mainVars
  <2>4. QED BY <2>1, <2>2, <2>3
<1>4. QED BY <1>1, <1>2, <1>3 DEF AnsweredFirst

\* Sending or losing one candidate that is not settled yet.
LEMMA SettlesOne ==
    ASSUME TypeOK, Accounting, Answered, UNCHANGED <<gathered, taker>>,
           NEW c \in Candidates, c \in gathered, c \notin ToSet(sent) \cup lost,
           \/ sent' = Append(sent, c) /\ UNCHANGED lost
           \/ lost' = lost \cup {c} /\ UNCHANGED sent
    PROVE  [T!Next]_(T!vars)
<1>1. c \in T!Unsettled
      BY DEF T!Unsettled, T!ToSet, ToSet
<1>2. Answered' <=> Answered
      BY DEF Answered
<1>3. CASE sent' = Append(sent, c) /\ UNCHANGED lost
  <2>1. T!Send(c)
        BY <1>1, <1>2, <1>3 DEF T!Send, Answered
  <2>2. QED BY <2>1 DEF T!Next, T!Settle
<1>4. CASE lost' = lost \cup {c} /\ UNCHANGED sent
  <2>1. T!Drop({c}) /\ {c} \in SUBSET T!Unsettled
        BY <1>1, <1>2, <1>4 DEF T!Drop, Answered
  <2>2. QED BY <2>1 DEF T!Next, T!Settle
<1>5. QED BY <1>3, <1>4

LEMMA TrickleStep ==
    TypeOK /\ Accounting /\ AnsweredFirst /\ [Next]_vars => [T!Next]_(T!vars)
<1> SUFFICES ASSUME TypeOK, Accounting, AnsweredFirst, [Next]_vars
             PROVE  [T!Next]_(T!vars)
    OBVIOUS
<1>1. CASE UNCHANGED <<gathered, sent, lost, taker>>
      BY <1>1 DEF T!vars, Answered
<1>2. CASE UNCHANGED <<gathered, sent, lost>> /\ Answered' /\ ~Answered
  <2>1. T!Describe
        BY <1>2 DEF T!Describe, Answered
  <2>2. QED BY <2>1 DEF T!Next
<1>3. CASE UNCHANGED <<gathered, sent, lost>> /\ (Answered' <=> Answered)
      BY <1>3 DEF T!vars, Answered
<1>4. CASE SendPending
  <2>1. /\ UNCHANGED <<gathered, lost, taker>>
        /\ stage = "sending" /\ left # <<>> /\ left \in Seq(Candidates)
        /\ sent' = Append(sent, Head(left)) /\ Waiting = left
        BY <1>4 DEF SendPending, mainVars, recvVars, Waiting, TypeOK
  <2>2. Head(left) \in Candidates /\ Head(left) \in ToSet(Waiting)
        BY <2>1, FirstTaken
  <2>3. Head(left) \in gathered /\ Head(left) \notin ToSet(sent) \cup lost
        BY <2>2 DEF Accounting, Distinct
  <2>4. Answered
        BY <2>1 DEF AnsweredFirst, Answered, TypeOK
  <2>5. QED BY <2>1, <2>2, <2>3, <2>4, SettlesOne
<1>5. CASE SendPendingFails
  <2>1. /\ UNCHANGED <<gathered, sent, taker>>
        /\ stage = "sending" /\ left # <<>> /\ left \in Seq(Candidates)
        /\ lost' = lost \cup ToSet(left) /\ Waiting = left
        BY <1>5 DEF SendPendingFails, recvVars, Waiting, TypeOK
  <2>2. ToSet(left) \subseteq T!Unsettled
        BY <2>1 DEF Accounting, Distinct, T!Unsettled, T!ToSet, ToSet
  <2>3. Head(left) \in ToSet(left) /\ Head(left) \in Candidates
        BY <2>1, FirstTaken
  <2>4. Answered /\ (Answered' <=> Answered)
        BY <2>1 DEF AnsweredFirst, Answered, TypeOK
  <2>5. T!Drop(ToSet(left))
        BY <2>1, <2>2, <2>3, <2>4 DEF T!Drop, Answered
  <2>6. QED BY <2>2, <2>3, <2>5 DEF T!Next, T!Settle
<1>6. ASSUME NEW c \in Candidates, Gather(c) PROVE [T!Next]_(T!vars)
  <2>1. T!Gather(c)
        BY <1>6 DEF Gather, T!Gather, recvVars, Answered
  <2>2. QED BY <2>1 DEF T!Next
<1>7. ASSUME NEW a \in Attempts, SendAtOnce(a) PROVE [T!Next]_(T!vars)
  <2> DEFINE c == callback[a].of
  <2>1. /\ UNCHANGED <<gathered, taker>> /\ callback[a].at = "send"
        /\ callback' = [callback EXCEPT ![a] = NoCallback]
        /\ \/ sent' = Append(sent, c) /\ UNCHANGED lost
           \/ lost' = lost \cup {c} /\ UNCHANGED sent
        BY <1>7 DEF SendAtOnce, recvVars
  <2>2. c \in InCallback /\ c \in Candidates
        BY <2>1, CallbackReturns DEF Accounting
  <2>3. c \in gathered /\ c \notin ToSet(sent) \cup lost
        BY <2>2 DEF Accounting, Distinct
  <2>4. Answered
        BY <2>1 DEF AnsweredFirst, Answered
  <2> HIDE DEF c
  <2>5. QED BY <2>1, <2>2, <2>3, <2>4, SettlesOne
<1>8. CASE \/ TakeAnswer
           \/ \E a \in Attempts : TakeCandidate(a) \/ TakerTimesOut(a)
  <2>1. UNCHANGED <<gathered, sent, lost>>
        BY <1>8 DEF TakeAnswer, TakeCandidate, TakerTimesOut, sendVars
  <2>2. Answered => Answered'
        BY TakersStay DEF Answered
  <2>3. QED BY <1>2, <1>3, <2>1, <2>2
<1>9. CASE \/ Begin \/ SendOffer \/ TimeOut \/ LockCandidates \/ Return
           \/ \E a \in Attempts : Ask(a) \/ AppendPending(a)
           \/ \E m \in messages : Deliver(m)
           \/ \E h \in handlers : HandleGarbage(h) \/ HandleCandidate(h)
           \/ UNCHANGED vars
      BY <1>1, <1>9
      DEF Begin, SendOffer, TimeOut, LockCandidates, Return, Ask, AppendPending,
          Deliver, HandleGarbage, HandleCandidate, vars, mainVars, sendVars,
          recvVars
<1>10. QED BY <1>4, <1>5, <1>6, <1>7, <1>8, <1>9 DEF Next, Main, Callback

\* For any attempts, however they fail, and any interleaving of their callbacks
\* with the loop: the edge sends a candidate at most once, only after an answer,
\* or loses it, and never both (publisher.go:105-122, 143-178).
THEOREM EdgeTricklesSafely == Spec => TricklesSafely
<1>1. Init => AnsweredFirst /\ T!Init
  <2>1. Init => AnsweredFirst
        BY DEF Init, AnsweredFirst, NoCallback
  <2>2. Init => ~Answered
        BY DEF Init, Answered
  <2>3. Init => T!Init
        BY <2>2 DEF Init, T!Init
  <2>4. QED BY <2>1, <2>3
<1>2. QED BY <1>1, AnsweredFirstStep, TrickleStep, AccountingInvariance,
             TypeCorrect, PTL DEF Spec, TricklesSafely, T!Spec

-----------------------------------------------------------------------------
(* Candidates nobody will send.                                            *)

\* An attempt is described only once it has waited for its answer.
DescribedInTime ==
    \A a \in described : a <= attempt /\ (a = attempt => stage \notin {"subscribed", "waiting"})

\* When an attempt with a description is over, it has at most one candidate
\* pending, and none while a callback of it is about to append one.
AtMostOneLeft ==
    \A a \in described : Over(a) =>
        /\ \A c, d \in PendingOf(a) : c = d
        /\ callback[a].at = "append" => PendingOf(a) = {}

Stranding == DescribedInTime /\ AtMostOneLeft

LEMMA AttemptsAreNumbers == Attempts \subseteq Nat
<1>1. MaxAttempts \in Nat
      BY EdgeTrickleAssumption
<1>2. QED BY <1>1 DEF Attempts

LEMMA DescribedInTimeStep ==
    TypeOK /\ DescribedInTime /\ [Next]_vars => DescribedInTime'
<1> SUFFICES ASSUME TypeOK, DescribedInTime, [Next]_vars PROVE DescribedInTime'
    OBVIOUS
<1>0. attempt \in Nat /\ described \subseteq Nat
      BY AttemptsAreNumbers DEF TypeOK
<1>1. CASE UNCHANGED <<attempt, described>>
           /\ (stage' \in {"subscribed", "waiting"} => stage \in {"subscribed", "waiting"})
      BY <1>1 DEF DescribedInTime
<1>2. CASE Begin
  <2>1. /\ attempt' = attempt + 1 /\ UNCHANGED described
        BY <1>2 DEF Begin
  <2>2. \A a \in described : a <= attempt' /\ a # attempt'
        BY <1>0, <2>1 DEF DescribedInTime
  <2>3. QED BY <2>1, <2>2 DEF DescribedInTime
<1>3. CASE TakeAnswer
  <2>1. /\ attempt' = attempt /\ stage' = "described"
        /\ described' \subseteq described \cup {attempt}
        BY <1>3 DEF TakeAnswer
  <2>2. QED BY <1>0, <2>1 DEF DescribedInTime
<1>4. CASE \/ SendOffer \/ TimeOut
           \/ LockCandidates \/ SendPending \/ Return \/ SendPendingFails
           \/ \E c \in Candidates : Gather(c)
           \/ \E a \in Attempts : \/ Callback(a)
                                  \/ TakeCandidate(a) \/ TakerTimesOut(a)
           \/ \E m \in messages : Deliver(m)
           \/ \E h \in handlers : HandleGarbage(h) \/ HandleCandidate(h)
           \/ UNCHANGED vars
      BY <1>1, <1>4
      DEF SendOffer, TimeOut, LockCandidates, SendPending, Return, GiveUp,
          SendPendingFails, Gather, Callback, Ask, AppendPending, SendAtOnce,
          TakeCandidate, TakerTimesOut, Deliver, HandleGarbage, HandleCandidate,
          vars, mainVars
<1>5. QED BY <1>2, <1>3, <1>4 DEF Next, Main

\* Whether an attempt is over depends on how far the current one is.
LEMMA OverBefore ==
    ASSUME TypeOK, DescribedInTime, [Next]_vars, NEW a \in described', Over(a)'
    PROVE  \/ a \in described /\ Over(a)
           \/ pendingCandidates' = <<>>
<1>0. attempt \in Nat /\ described \subseteq Nat /\ described \subseteq described'
      BY TakersStay, AttemptsAreNumbers DEF TypeOK
<1>1. CASE UNCHANGED <<attempt, described>>
           /\ (stage' \in {"signaled", "gaveUp"} => stage \in {"signaled", "gaveUp"})
      BY <1>1 DEF Over
<1>2. CASE Begin
  <2>1. /\ attempt' = attempt + 1 /\ UNCHANGED described
        /\ stage \in {"signaled", "gaveUp"}
        BY <1>2 DEF Begin
  <2>2. QED BY <1>0, <2>1 DEF Over
<1>3. CASE TimeOut
  <2>1. UNCHANGED <<attempt, described>> /\ stage = "waiting"
        BY <1>3 DEF TimeOut
  <2>2. a <= attempt /\ a # attempt
        BY <2>1 DEF DescribedInTime
  <2>3. QED BY <1>0, <2>1, <2>2 DEF Over
<1>4. CASE Return \/ SendPendingFails
      BY <1>4 DEF Return, SendPendingFails, EmptyPending
<1>5. CASE TakeAnswer
  <2>1. /\ attempt' = attempt /\ stage' = "described"
        /\ described' \subseteq described \cup {attempt}
        BY <1>5 DEF TakeAnswer
  <2>2. QED BY <1>0, <2>1 DEF Over
<1>6. CASE \/ SendOffer \/ LockCandidates \/ SendPending
           \/ \E c \in Candidates : Gather(c)
           \/ \E b \in Attempts : \/ Callback(b)
                                  \/ TakeCandidate(b) \/ TakerTimesOut(b)
           \/ \E m \in messages : Deliver(m)
           \/ \E h \in handlers : HandleGarbage(h) \/ HandleCandidate(h)
           \/ UNCHANGED vars
      BY <1>1, <1>6
      DEF SendOffer, LockCandidates, SendPending,
          Gather, Callback, Ask, AppendPending, SendAtOnce,
          TakeCandidate, TakerTimesOut, Deliver, HandleGarbage, HandleCandidate,
          vars, mainVars
<1>7. QED BY <1>2, <1>3, <1>4, <1>5, <1>6 DEF Next, Main

\* What a callback of another attempt, or of one that is over, may do to the
\* candidates of an attempt.
LEMMA CallbackOf ==
    ASSUME TypeOK, [Next]_vars, NEW a \in described, callback'[a].at = "append"
    PROVE  callback[a].at = "append" /\ callback'[a] = callback[a]
<1>0. a \in Attempts
      BY DEF TypeOK
<1>1. CASE UNCHANGED callback
      BY <1>1
<1>2. ASSUME NEW b \in Attempts, Ask(b)
      PROVE  callback[a].at = "append" /\ callback'[a] = callback[a]
  <2>1. /\ callback'[b].at = IF b \in described THEN "send" ELSE "append"
        /\ \A d \in Attempts \ {b} : callback'[d] = callback[d]
        BY <1>2, AskCallback DEF TypeOK, CallbackSet
  <2>2. QED BY <1>0, <2>1
<1>3. ASSUME NEW b \in Attempts, NEW k, k.at # "append",
             callback' = [callback EXCEPT ![b] = k]
      PROVE  callback[a].at = "append" /\ callback'[a] = callback[a]
      BY <1>0, <1>3 DEF TypeOK
<1>4. ASSUME NEW c \in Candidates, Gather(c)
      PROVE  callback[a].at = "append" /\ callback'[a] = callback[a]
  <2>1. [at |-> "ask", of |-> c].at # "append" /\ c[1] \in Attempts
        BY EdgeTrickleAssumption
  <2>2. callback' = [callback EXCEPT ![c[1]] = [at |-> "ask", of |-> c]]
        BY <1>4 DEF Gather
  <2>3. QED BY <1>3, <2>1, <2>2
<1>5. ASSUME NEW b \in Attempts, AppendPending(b) \/ SendAtOnce(b)
      PROVE  callback[a].at = "append" /\ callback'[a] = callback[a]
  <2>1. NoCallback.at # "append"
        BY DEF NoCallback
  <2>2. callback' = [callback EXCEPT ![b] = NoCallback]
        BY <1>5 DEF AppendPending, SendAtOnce
  <2>3. QED BY <1>3, <2>1, <2>2
<1>6. CASE \/ Begin \/ Main
           \/ \E b \in Attempts : TakeCandidate(b) \/ TakerTimesOut(b)
           \/ \E m \in messages : Deliver(m)
           \/ \E h \in handlers : HandleGarbage(h) \/ HandleCandidate(h)
           \/ UNCHANGED vars
      BY <1>1, <1>6
      DEF Main, Begin, SendOffer, TakeAnswer, TimeOut, LockCandidates,
          SendPending, Return, SendPendingFails, TakeCandidate, TakerTimesOut,
          Deliver, HandleGarbage, HandleCandidate, vars, mainVars, sendVars
<1>7. QED BY <1>2, <1>4, <1>5, <1>6 DEF Next, Callback

LEMMA AtMostOneLeftStep ==
    TypeOK /\ OwnCallbacks /\ Stranding /\ [Next]_vars => AtMostOneLeft'
<1> SUFFICES ASSUME TypeOK, OwnCallbacks, Stranding, [Next]_vars,
                    NEW a \in described', Over(a)'
             PROVE  /\ \A c, d \in PendingOf(a)' : c = d
                    /\ callback'[a].at = "append" => PendingOf(a)' = {}
    BY DEF AtMostOneLeft
<1> DEFINE Goal == /\ \A c, d \in PendingOf(a)' : c = d
                   /\ callback'[a].at = "append" => PendingOf(a)' = {}
<1>1. CASE pendingCandidates' = <<>>
      BY <1>1, EmptySequence DEF PendingOf
<1>2. CASE a \in described /\ Over(a)
  <2>1. /\ \A c, d \in PendingOf(a) : c = d
        /\ callback[a].at = "append" => PendingOf(a) = {}
        /\ a \in Attempts
        BY <1>2 DEF Stranding, AtMostOneLeft, TypeOK
  <2>2. CASE pendingCandidates' = pendingCandidates
        BY <1>2, <2>1, <2>2, CallbackOf DEF PendingOf
  <2>3. ASSUME NEW b \in Attempts, AppendPending(b) PROVE Goal
    <3> DEFINE e == callback[b].of
    <3>1. /\ callback[b].at = "append"
          /\ callback' = [callback EXCEPT ![b] = NoCallback]
          /\ pendingCandidates' = Append(pendingCandidates, e)
          BY <2>3 DEF AppendPending
    <3>2. /\ callback[b] # NoCallback /\ e \in Candidates
          /\ callback \in [Attempts -> CallbackSet]
          BY <3>1, UnderWay DEF TypeOK, CallbackSet
    <3>3. e[1] = b
          BY <3>2 DEF OwnCallbacks
    <3> HIDE DEF e
    <3>4. ToSet(pendingCandidates') = ToSet(pendingCandidates) \cup {e}
      <4>1. pendingCandidates \in Seq(Candidates)
            BY DEF TypeOK
      <4>2. QED BY <3>1, <3>2, <4>1, AppendedOne
    <3>5. CASE b = a
      <4>1. PendingOf(a) = {} /\ PendingOf(a)' = {e}
            BY <2>1, <3>1, <3>3, <3>4, <3>5 DEF PendingOf
      <4>2. callback'[a].at # "append"
            BY <3>1, <3>2, <3>5 DEF NoCallback
      <4>3. QED BY <4>1, <4>2
    <3>6. CASE b # a
      <4>1. PendingOf(a)' = PendingOf(a)
            BY <3>3, <3>4, <3>6 DEF PendingOf
      <4>2. QED BY <1>2, <2>1, <4>1, CallbackOf
    <3>7. QED BY <3>5, <3>6
  <2>4. CASE Return \/ SendPendingFails
        BY <1>1, <2>4 DEF Return, SendPendingFails, EmptyPending
  <2>5. CASE \/ Begin \/ SendOffer \/ TakeAnswer \/ TimeOut
             \/ LockCandidates \/ SendPending
             \/ \E c \in Candidates : Gather(c)
             \/ \E b \in Attempts : \/ Ask(b) \/ SendAtOnce(b)
                                    \/ TakeCandidate(b) \/ TakerTimesOut(b)
             \/ \E m \in messages : Deliver(m)
             \/ \E h \in handlers : HandleGarbage(h) \/ HandleCandidate(h)
             \/ UNCHANGED vars
        BY <2>2, <2>5
        DEF Begin, SendOffer, TakeAnswer, TimeOut, LockCandidates, SendPending,
            Gather, Ask, SendAtOnce, TakeCandidate, TakerTimesOut,
            Deliver, HandleGarbage, HandleCandidate, vars, mainVars, sendVars
  <2>6. QED BY <2>3, <2>4, <2>5 DEF Next, Main, Callback
<1>3. QED BY <1>1, <1>2, OverBefore DEF Stranding

\* A candidate can be left in pendingCandidates when its callback asked for the
\* remote description before the answer came and appended after the loop had
\* emptied the slice, and of each attempt at most one is: the next callback
\* finds the description (publisher.go:105-116, 292).
THEOREM AtMostOneStranded == Spec => []OneStrandedAtMost
<1>1. Init => Stranding
      BY DEF Init, Stranding, DescribedInTime, AtMostOneLeft
<1>2. TypeOK /\ Accounting /\ Stranding /\ [Next]_vars => Stranding'
      BY AtMostOneLeftStep, DescribedInTimeStep DEF Stranding, Accounting
<1>3. Stranding => OneStrandedAtMost
  <2> SUFFICES ASSUME Stranding, NEW a \in described, Over(a)
               PROVE  Cardinality(PendingOf(a)) <= 1
      BY DEF OneStrandedAtMost
  <2>1. \A c, d \in PendingOf(a) : c = d
        BY DEF Stranding, AtMostOneLeft
  <2>2. CASE PendingOf(a) = {}
        BY <2>2, FS_EmptySet
  <2>3. ASSUME NEW c \in PendingOf(a) PROVE Cardinality(PendingOf(a)) <= 1
    <3>1. PendingOf(a) = {c}
          BY <2>1
    <3>2. QED BY <3>1, FS_Singleton
  <2>4. QED BY <2>2, <2>3
<1>4. QED BY <1>1, <1>2, <1>3, AccountingInvariance, TypeCorrect, PTL DEF Spec
=============================================================================
