-------------------------- MODULE PeerSignalingProofs --------------------------
(***************************************************************************)
(* Theorems about the signaling of one cloud peer, for any candidates of    *)
(* either side: candidates are added only when they can be, and the sending *)
(* of candidates implements the safety of Trickle.  With the page of its    *)
(* viewer at the other end: the page takes nothing from these promises, and *)
(* applies what the cloud sends in the order it was sent.                   *)
(***************************************************************************)
EXTENDS Page, SequenceTheorems, TLAPS

-----------------------------------------------------------------------------
(* Sequences.                                                              *)

LEMMA AppendToSet ==
    ASSUME NEW S, NEW q \in Seq(S), NEW e \in S
    PROVE  /\ Append(q, e) \in Seq(S)
           /\ ToSet(Append(q, e)) = ToSet(q) \cup {e}
<1>1. Append(q, e) \in Seq(S)
      OBVIOUS
<1>2. /\ DOMAIN Append(q, e) = DOMAIN q \cup {Len(q) + 1}
      /\ \A i \in DOMAIN q : Append(q, e)[i] = q[i]
      /\ Append(q, e)[Len(q) + 1] = e
      OBVIOUS
<1>3. QED BY <1>1, <1>2 DEF ToSet

\* A new element at the end keeps a sequence free of duplicates.
LEMMA AppendKeepsDistinct ==
    ASSUME NEW S, NEW q \in Seq(S), NEW e \in S, e \notin ToSet(q), IsInjective(q)
    PROVE  IsInjective(Append(q, e))
<1>1. /\ DOMAIN Append(q, e) = DOMAIN q \cup {Len(q) + 1}
      /\ \A i \in DOMAIN q : Append(q, e)[i] = q[i]
      /\ Append(q, e)[Len(q) + 1] = e
      /\ Len(q) + 1 \notin DOMAIN q
      OBVIOUS
<1> SUFFICES ASSUME NEW a \in DOMAIN Append(q, e), NEW b \in DOMAIN Append(q, e),
                    Append(q, e)[a] = Append(q, e)[b]
             PROVE  a = b
    BY DEF IsInjective
<1>2. CASE a \in DOMAIN q /\ b \in DOMAIN q
      BY <1>1, <1>2 DEF IsInjective
<1>3. CASE a \in DOMAIN q /\ b = Len(q) + 1
      BY <1>1, <1>3 DEF ToSet
<1>4. CASE a = Len(q) + 1 /\ b \in DOMAIN q
      BY <1>1, <1>4 DEF ToSet
<1>5. CASE a = Len(q) + 1 /\ b = Len(q) + 1
      BY <1>5
<1>6. QED BY <1>1, <1>2, <1>3, <1>4, <1>5

\* Moving the first element of one queue to the end of another one before it
\* changes nothing in what they make together.
LEMMA MoveHead ==
    ASSUME NEW S, NEW p \in Seq(S), NEW q \in Seq(S), q # <<>>
    PROVE  /\ Append(p, Head(q)) \in Seq(S) /\ Tail(q) \in Seq(S)
           /\ Append(p, Head(q)) \o Tail(q) = p \o q
<1>1. /\ Head(q) \in S /\ Tail(q) \in Seq(S)
      /\ Append(p, Head(q)) \in Seq(S)
      OBVIOUS
<1>2. QED BY <1>1

\* The same for a new element at the end of the second.
LEMMA AppendBehind ==
    ASSUME NEW S, NEW p \in Seq(S), NEW q \in Seq(S), NEW e \in S
    PROVE  p \o Append(q, e) = Append(p \o q, e)
OBVIOUS

-----------------------------------------------------------------------------
(* Type correctness.                                                       *)

LEMMA TypeInitially == Init => TypeOK
<1> SUFFICES ASSUME Init PROVE TypeOK
    OBVIOUS
<1>1. /\ signalChan \in Seq({"offer", "answer"}) /\ Len(signalChan) <= SignalCap
      /\ inbox \in Seq(Remote) /\ Len(inbox) <= CandidateCap
      BY DEF Init, SignalCap, CandidateCap
<1>2. /\ pendingCandidates \in Seq(Local)
      /\ sent \in Seq(Local)
      /\ added \in Seq(Remote)
      BY DEF Init
<1>3. /\ peer \in {"publisher", "viewer"}
      /\ step \in {"new", "offered", "listening", "described", "answered",
                   "replied", "signaled", "settled", "refused", "failed"}
      /\ described \in BOOLEAN /\ gathering \in BOOLEAN /\ reading \in BOOLEAN
      /\ gathered \subseteq Local /\ callback \subseteq gathered
      /\ dropped \subseteq Local /\ arriving \subseteq Remote
      BY DEF Init
<1>4. QED BY <1>1, <1>2, <1>3 DEF TypeOK

\* A send on SignalChan, and a receive from it, leave a queue of capacity one.
LEMMA SignalTypes ==
    ASSUME TypeOK, NEW v \in {"offer", "answer"}, Put(v) \/ Get(v)
    PROVE  /\ signalChan' \in Seq({"offer", "answer"})
           /\ Len(signalChan') <= SignalCap
<1>1. CASE Put(v)
      BY <1>1 DEF TypeOK, Put, SignalCap
<1>2. CASE Get(v)
      BY <1>2 DEF TypeOK, Get, SignalCap
<1>3. QED BY <1>1, <1>2

LEMMA TypeStep == TypeOK /\ [Next]_vars => TypeOK'
<1> SUFFICES ASSUME TypeOK, [Next]_vars PROVE TypeOK'
    OBVIOUS
<1> USE DEF TypeOK, localVars, remoteVars
<1>1. CASE PutOffer \/ TakeOffer \/ PutAnswer \/ TakeAnswer \/ AnswerFails
  <2>1. /\ signalChan' \in Seq({"offer", "answer"})
        /\ Len(signalChan') <= SignalCap
        BY <1>1, SignalTypes DEF PutOffer, TakeOffer, PutAnswer, TakeAnswer,
           AnswerFails
  <2>2. QED BY <1>1, <2>1 DEF PutOffer, TakeOffer, PutAnswer, TakeAnswer,
           AnswerFails
<1>2. CASE SetupFails \/ DescriptionFails
      BY <1>2 DEF SetupFails, DescriptionFails
<1>3. CASE SetRemoteDescription
      BY <1>3 DEF SetRemoteDescription
<1>4. CASE SetLocalDescription
      BY <1>4 DEF SetLocalDescription
<1>5. CASE SendPending
      BY <1>5 DEF SendPending
<1>6. ASSUME NEW c \in Local, Gather(c) PROVE TypeOK'
      BY <1>6 DEF Gather
<1>7. ASSUME NEW c \in Local, OnICECandidate(c) PROVE TypeOK'
  <2>1. /\ Append(sent, c) \in Seq(Local)
        /\ Append(pendingCandidates, c) \in Seq(Local)
        /\ dropped \cup {c} \subseteq Local
        OBVIOUS
  <2>2. /\ sent' \in {sent, Append(sent, c)}
        /\ dropped' \in {dropped, dropped \cup {c}}
        /\ pendingCandidates' \in {pendingCandidates, Append(pendingCandidates, c)}
        BY <1>7 DEF OnICECandidate, SendCandidate
  <2>3. sent' \in Seq(Local) /\ pendingCandidates' \in Seq(Local)
        BY <2>1, <2>2
  <2>4. dropped' \subseteq Local
        BY <2>1, <2>2
  <2>5. QED BY <1>7, <2>3, <2>4 DEF OnICECandidate
<1>8. ASSUME NEW r \in Remote, Arrive(r) PROVE TypeOK'
      BY <1>8 DEF Arrive, CandidateCap
<1>9. CASE AddICECandidate
  <2>1. /\ added' \in Seq(Remote) /\ inbox' \in Seq(Remote)
        /\ Len(inbox') <= CandidateCap
        BY <1>9 DEF AddICECandidate, CandidateCap
  <2>2. QED BY <1>9, <2>1 DEF AddICECandidate
<1>10. CASE UNCHANGED vars
       BY <1>10 DEF vars
<1>11. QED BY <1>1, <1>2, <1>3, <1>4, <1>5, <1>6, <1>7, <1>8, <1>9, <1>10
           DEF Next, Caller

\* Every reachable state is well typed, and no channel holds more than its
\* capacity.
THEOREM TypeCorrect == Spec => []TypeOK
<1>1. QED BY TypeInitially, TypeStep, PTL DEF Spec

-----------------------------------------------------------------------------
(* Remote candidates.  What AddedAfterDescribed lacks to be inductive is     *)
(* that addICECandidates runs only with a remote description.               *)

AddedInv == AddedAfterDescribed /\ (reading => described)

LEMMA AddedInitially == Init => AddedInv
<1> SUFFICES ASSUME Init PROVE AddedInv
    OBVIOUS
<1>1. added \o inbox = <<>> /\ added = <<>> /\ ~reading /\ arriving = Remote
      BY DEF Init
<1>2. ToSet(<<>>) = {} /\ IsInjective(<<>>)
      BY DEF ToSet, IsInjective
<1>3. QED BY <1>1, <1>2 DEF AddedInv, AddedAfterDescribed

LEMMA AddedStep == TypeOK /\ AddedInv /\ [Next]_vars => AddedInv'
<1> SUFFICES ASSUME TypeOK, AddedInv, [Next]_vars PROVE AddedInv'
    OBVIOUS
<1> USE DEF AddedInv, AddedAfterDescribed
<1>1. CASE UNCHANGED <<added, inbox, arriving>>
  <2>1. (reading => described)' /\ (described => described')
        BY <1>1 DEF TypeOK, Next, Caller, vars, localVars, remoteVars,
              PutOffer, SetupFails, TakeOffer, SetRemoteDescription,
              SetLocalDescription, DescriptionFails, PutAnswer, SendPending,
              TakeAnswer, AnswerFails, Gather, OnICECandidate, Arrive, AddICECandidate
  <2>2. QED BY <1>1, <2>1
<1>2. ASSUME NEW r \in Remote, Arrive(r) PROVE AddedInv'
  <2>1. /\ r \in arriving
        /\ inbox' = Append(inbox, r) /\ arriving' = arriving \ {r}
        /\ UNCHANGED <<added, described, reading>>
        BY <1>2 DEF Arrive, remoteVars
  <2>2. /\ added \in Seq(Remote) /\ inbox \in Seq(Remote)
        /\ arriving \subseteq Remote
        BY DEF TypeOK
  <2>3. (added \o inbox)' = Append(added \o inbox, r)
        BY <2>1, <2>2, AppendBehind
  <2>4. added \o inbox \in Seq(Remote) /\ r \notin ToSet(added \o inbox)
        BY <2>1, <2>2
  <2>5. IsInjective(Append(added \o inbox, r))
        BY <2>4, AppendKeepsDistinct
  <2>6. ToSet(Append(added \o inbox, r)) = Remote \ arriving'
    <3> DEFINE w == added \o inbox
    <3>1. w \in Seq(Remote) /\ ToSet(w) = Remote \ arriving
          BY <2>4
    <3> HIDE DEF w
    <3>2. ToSet(Append(w, r)) = ToSet(w) \cup {r}
          BY <3>1, AppendToSet
    <3>3. ToSet(Append(w, r)) = Remote \ arriving'
          BY <2>1, <2>2, <3>1, <3>2
    <3>4. QED BY <3>3 DEF w
  <2>7. QED BY <2>1, <2>3, <2>5, <2>6
<1>3. CASE AddICECandidate
  <2>1. /\ reading /\ inbox # <<>>
        /\ added' = Append(added, Head(inbox)) /\ inbox' = Tail(inbox)
        /\ UNCHANGED <<arriving, described, reading>>
        BY <1>3 DEF AddICECandidate
  <2>2. (added \o inbox)' = added \o inbox
        BY <2>1, MoveHead DEF TypeOK
  <2>3. QED BY <2>1, <2>2
<1>4. QED BY <1>1, <1>2, <1>3
      DEF Next, Caller, vars, localVars, remoteVars, PutOffer, SetupFails,
          TakeOffer, SetRemoteDescription, SetLocalDescription,
          DescriptionFails, PutAnswer, SendPending, TakeAnswer, AnswerFails, Gather,
          OnICECandidate

\* "Add candidate after setting remote description" (webrtc.go:208): for any
\* remote candidates and any order of their arrival, none is passed to
\* AddICECandidate before there is a remote description, and each is waiting,
\* on its way, or was added, exactly once.
THEOREM AddedOnce == Spec => []AddedAfterDescribed
<1>1. AddedInv => AddedAfterDescribed
      BY DEF AddedInv
<1>2. QED BY <1>1, TypeInitially, TypeStep, AddedInitially, AddedStep, PTL DEF Spec

-----------------------------------------------------------------------------
(* Local candidates.  A candidate is gathered only after SetLocalDescription *)
(* and so with a remote description: the callback never finds none, nothing  *)
(* is ever pending, and sending what is pending changes nothing.            *)

TrickleInv ==
    /\ step = "described" => described
    /\ gathering => described
    /\ callback # {} => described
    /\ pendingCandidates = <<>>
    /\ ToSet(sent) \cup dropped \subseteq gathered \ callback

LEMMA TrickleInitially == Init => TrickleInv /\ T!Init
<1> SUFFICES ASSUME Init PROVE TrickleInv /\ T!Init
    OBVIOUS
<1>1. ToSet(<<>>) = {}
      BY DEF ToSet
<1>2. QED BY <1>1 DEF Init, TrickleInv, T!Init

\* What one run of the callback does: it sends the candidate or drops it.
LEMMA CallbackSettles ==
    ASSUME TypeOK, TrickleInv, NEW c \in Local, OnICECandidate(c)
    PROVE  /\ T!Send(c) \/ T!Drop({c})
           /\ TrickleInv'
<1>1. /\ described /\ c \in callback /\ callback' = {}
      /\ UNCHANGED <<step, described, gathering, gathered, pendingCandidates>>
      BY DEF OnICECandidate, TrickleInv
<1>2. c \in T!Unsettled
      BY <1>1 DEF TypeOK, TrickleInv, T!Unsettled, T!ToSet, ToSet
<1>3. CASE sent' = Append(sent, c) /\ UNCHANGED dropped
  <2>1. ToSet(sent') = ToSet(sent) \cup {c}
        BY <1>3, AppendToSet DEF TypeOK
  <2>2. TrickleInv'
        BY <1>1, <1>2, <1>3, <2>1 DEF TrickleInv, T!Unsettled
  <2>3. QED BY <1>1, <1>2, <1>3, <2>2 DEF T!Send
<1>4. CASE dropped' = dropped \cup {c} /\ UNCHANGED sent
  <2>1. TrickleInv'
        BY <1>1, <1>2, <1>4 DEF TrickleInv, T!Unsettled
  <2>2. QED BY <1>1, <1>2, <1>4, <2>1 DEF T!Drop
<1>5. QED BY <1>1, <1>3, <1>4 DEF OnICECandidate, SendCandidate

LEMMA TrickleStep ==
    TypeOK /\ TrickleInv /\ [Next]_vars => TrickleInv' /\ [T!Next]_(T!vars)
<1> SUFFICES ASSUME TypeOK, TrickleInv, [Next]_vars
             PROVE  TrickleInv' /\ [T!Next]_(T!vars)
    OBVIOUS
<1>1. CASE \/ PutOffer \/ SetupFails \/ TakeOffer \/ DescriptionFails
           \/ PutAnswer \/ TakeAnswer \/ AnswerFails \/ AddICECandidate
           \/ UNCHANGED vars
           \/ \E r \in Remote : Arrive(r)
  <2>1. UNCHANGED <<described, localVars>> /\ (step' = "described" => step = "described")
        BY <1>1 DEF vars, remoteVars, PutOffer, SetupFails, TakeOffer,
              DescriptionFails, PutAnswer, TakeAnswer, AnswerFails, AddICECandidate,
              Arrive
  <2>2. QED BY <2>1 DEF TrickleInv, localVars, T!vars
<1>2. CASE SetRemoteDescription
  <2>1. described' /\ step' = "described" /\ UNCHANGED localVars
        BY <1>2 DEF SetRemoteDescription
  <2>2. TrickleInv'
        BY <2>1 DEF TrickleInv, localVars
  <2>3. described' = TRUE
        BY <1>2 DEF SetRemoteDescription
  <2>4. T!Describe \/ UNCHANGED T!vars
        BY <2>1, <2>3 DEF TypeOK, localVars, T!Describe, T!vars
  <2>5. QED BY <2>2, <2>4 DEF T!Next
<1>3. CASE SetLocalDescription
      BY <1>3 DEF SetLocalDescription, TrickleInv, T!vars
<1>4. CASE SendPending
  <2>1. sent' = sent
        BY <1>4 DEF SendPending, TrickleInv, TypeOK
  <2>2. QED BY <1>4, <2>1 DEF SendPending, TrickleInv, T!vars
<1>5. ASSUME NEW c \in Local, Gather(c) PROVE TrickleInv' /\ T!Gather(c)
  <2>1. T!Gather(c)
        BY <1>5 DEF Gather, T!Gather
  <2>2. TrickleInv'
        BY <1>5 DEF Gather, TrickleInv
  <2>3. QED BY <2>1, <2>2
<1>6. ASSUME NEW c \in Local, OnICECandidate(c) PROVE TrickleInv' /\ T!Settle(c)
  <2>1. TrickleInv' /\ (T!Send(c) \/ T!Drop({c}))
        BY <1>6, CallbackSettles
  <2>2. T!Drop({c}) => {c} \in SUBSET T!Unsettled
        BY DEF T!Drop
  <2>3. QED BY <2>1, <2>2 DEF T!Settle
<1>7. QED BY <1>1, <1>2, <1>3, <1>4, <1>5, <1>6 DEF Next, Caller, T!Next

\* For any local candidates and any interleaving of pion's callbacks with the
\* goroutine of signalPeerConnection, however it ends: a candidate is sent at
\* most once, only with a remote description, or dropped, and never both.
THEOREM ImplementsTrickle == Spec => T!Spec
<1>1. QED BY TypeInitially, TypeStep, TrickleInitially, TrickleStep, PTL
          DEF Spec, T!Spec

-----------------------------------------------------------------------------
(* With the page of its viewer beside it: what the cloud does is the same.  *)

LEMMA PageSteps == [PageNext]_pageVars => [Next]_vars
BY DEF PageNext, pageVars, Cloud, Listener, ReadAnswer, Described, Rejected,
       ReadCandidate

\* With the page beside it the cloud peer does what it does alone, so what was
\* proved of it holds here too.
THEOREM PageKeepsSignaling == PageSpec => Spec
<1>1. PageInit => Init
      BY DEF PageInit
<1>2. QED BY <1>1, PageSteps, PTL DEF PageSpec, Spec

CloudInv == TypeOK /\ TrickleInv

LEMMA CloudInvariance == PageSpec => []CloudInv
<1>1. Init => CloudInv
      BY TypeInitially, TrickleInitially DEF CloudInv
<1>2. CloudInv /\ [Next]_vars => CloudInv'
      BY TypeStep, TrickleStep DEF CloudInv
<1>3. QED BY <1>1, <1>2, PageKeepsSignaling, PTL DEF Spec

\* A step of the cloud sends one candidate or none: nothing is ever pending.
LEMMA NewlySentIs ==
    ASSUME CloudInv, Next
    PROVE  \/ sent' = sent /\ NewlySent = <<>>
           \/ \E c \in Local : sent' = Append(sent, c) /\ NewlySent = <<c>>
<1>1. sent \in Seq(Local) /\ Len(sent) \in Nat
      BY DEF CloudInv, TypeOK
<1>2. ASSUME sent' = sent PROVE NewlySent = <<>>
      BY <1>1, <1>2, SubSeqEmpty DEF NewlySent
<1>3. ASSUME NEW c \in Local, sent' = Append(sent, c) PROVE NewlySent = <<c>>
  <2>1. /\ Len(sent') = Len(sent) + 1 /\ sent' \in Seq(Local)
        /\ sent'[Len(sent) + 1] = c
        BY <1>1, <1>3
  <2>2. /\ NewlySent \in Seq(Local) /\ Len(NewlySent) = 1
        /\ NewlySent[1] = sent'[Len(sent) + 1]
        BY <1>1, <2>1, SubSeqProperties DEF NewlySent
  <2>3. QED BY <2>1, <2>2
<1>4. CASE Caller
  <2>1. CASE SendPending
    <3>1. sent' = sent \o <<>>
          BY <2>1 DEF SendPending, CloudInv, TrickleInv
    <3>2. QED BY <1>1, <1>2, <3>1
  <2>2. CASE ~SendPending
    <3>1. sent' = sent
          BY <1>4, <2>2
          DEF Caller, PutOffer, SetupFails, TakeOffer, SetRemoteDescription,
              SetLocalDescription, DescriptionFails, PutAnswer, TakeAnswer,
              AnswerFails, localVars
    <3>2. QED BY <1>2, <3>1
  <2>3. QED BY <2>1, <2>2
<1>5. ASSUME NEW c \in Local, Gather(c) \/ OnICECandidate(c)
      PROVE  \/ sent' = sent /\ NewlySent = <<>>
             \/ \E d \in Local : sent' = Append(sent, d) /\ NewlySent = <<d>>
  <2>1. sent' = sent \/ sent' = Append(sent, c)
        BY <1>5 DEF Gather, OnICECandidate, SendCandidate
  <2>2. QED BY <1>2, <1>3, <2>1
<1>6. ASSUME AddICECandidate \/ \E r \in Remote : Arrive(r) PROVE sent' = sent
      BY <1>6 DEF AddICECandidate, Arrive, localVars
<1>7. QED BY <1>2, <1>4, <1>5, <1>6 DEF Next

-----------------------------------------------------------------------------
(* The socket.  It carries candidates, with the answer among them or not.    *)

AnswerAmong(q, x, y) == q = (x \o <<Answer>>) \o y

\* With one answer in it, what is in flight is the candidates around it.
LEMMA InFlightIs ==
    ASSUME NEW x \in Seq(Local), NEW y \in Seq(Local), AnswerAmong(socket, x, y)
    PROVE  InFlight = x \o y
<1> DEFINE m == Len(x) + 1
           n == Len(x) + 1 + Len(y)
<1>1. /\ Len(x) \in Nat /\ Len(y) \in Nat
      /\ \A i \in 1..Len(x) : x[i] \in Local
      /\ \A i \in 1..Len(y) : y[i] \in Local
      OBVIOUS
<1>2. /\ Len(socket) = n /\ DOMAIN socket = 1..n
      /\ \A i \in 1..Len(x) : socket[i] = x[i]
      /\ socket[m] = Answer
      /\ \A i \in 1..Len(y) : socket[m + i] = y[i]
      BY <1>1 DEF AnswerAmong
<1>3. \A i \in DOMAIN socket : socket[i] = Answer <=> i = m
  <2> SUFFICES ASSUME NEW i \in 1..n, i # m PROVE socket[i] # Answer
      BY <1>1, <1>2
  <2>1. CASE i \in 1..Len(x)
        BY <1>1, <1>2, <2>1, PageAssumption
  <2>2. CASE i - m \in 1..Len(y)
    <3>1. socket[m + (i - m)] = y[i - m] /\ m + (i - m) = i
          BY <1>1, <1>2, <2>2
    <3>2. QED BY <1>1, <2>2, <3>1, PageAssumption
  <2>3. QED BY <1>1, <2>1, <2>2
<1>4. InFlight = RemoveAt(socket, m)
  <2>1. m \in DOMAIN socket
        BY <1>1, <1>2
  <2> HIDE DEF m
  <2>2. (CHOOSE i \in DOMAIN socket : socket[i] = Answer) = m
        BY <1>3, <2>1
  <2>3. QED BY <1>3, <2>1, <2>2 DEF InFlight
<1>5. SubSeq(socket, 1, m - 1) = x
      BY <1>1 DEF AnswerAmong
<1>6. SubSeq(socket, m + 1, Len(socket)) = y
      BY <1>1, <1>2 DEF AnswerAmong
<1>7. QED BY <1>4, <1>5, <1>6 DEF RemoveAt

\* What AppliedInOrder lacks to be inductive: where the answer is.
Unanswered ==
    /\ answer = "none" /\ step # "settled"
    /\ socket \in Seq(Local)
    /\ (applied \o candidates) \o socket = sent

AnswerComes ==
    /\ answer = "none" /\ step = "settled"
    /\ \E x, y \in Seq(Local) : /\ AnswerAmong(socket, x, y)
                                /\ (applied \o candidates) \o (x \o y) = sent

Answered ==
    /\ answer # "none" /\ step = "settled"
    /\ socket \in Seq(Local)
    /\ (applied \o candidates) \o socket = sent

LineInv ==
    /\ candidates \in Seq(Local) /\ applied \in Seq(Local)
    /\ ~answered => applied = <<>>
    /\ answered => candidates = <<>>
    /\ Unanswered \/ AnswerComes \/ Answered

LEMMA LineInitially == PageInit => LineInv
BY DEF PageInit, Init, LineInv, Unanswered, answered

LEMMA LineSuffices == (peer = "viewer" => LineInv) => AppliedInOrder
<1> SUFFICES ASSUME LineInv PROVE (applied \o candidates) \o InFlight = sent
    BY DEF LineInv, AppliedInOrder
<1>1. CASE Unanswered \/ Answered
  <2>1. \A i \in DOMAIN socket : socket[i] # Answer
    <3>1. socket \in Seq(Local)
          BY <1>1 DEF Unanswered, Answered
    <3>2. \A i \in DOMAIN socket : socket[i] \in Local
          BY <3>1
    <3>3. QED BY <3>2, PageAssumption
  <2>2. QED BY <1>1, <2>1 DEF InFlight, Unanswered, Answered
<1>2. CASE AnswerComes
      BY <1>2, InFlightIs DEF AnswerComes
<1>3. QED BY <1>1, <1>2 DEF LineInv

\* The first message of a socket with an answer among its candidates.
LEMMA HeadAndTail ==
    ASSUME NEW x \in Seq(Local), NEW y \in Seq(Local), AnswerAmong(socket, x, y)
    PROVE  /\ Head(socket) = Answer => x = <<>> /\ Tail(socket) = y
           /\ Head(socket) # Answer =>
                 /\ x # <<>> /\ Head(socket) = Head(x) /\ Head(x) \in Local
                 /\ AnswerAmong(Tail(socket), Tail(x), y)
<1>1. CASE x = <<>>
  <2>1. socket = <<Answer>> \o y
        BY <1>1 DEF AnswerAmong
  <2>2. Head(socket) = Answer /\ Tail(socket) = y
        BY <2>1
  <2>3. QED BY <1>1, <2>2
<1>2. CASE x # <<>>
  <2>1. Head(x) \in Local /\ Tail(x) \in Seq(Local)
        BY <1>2
  <2>2. Head(socket) = Head(x)
        BY <1>2 DEF AnswerAmong
  <2>3. Tail(socket) = (Tail(x) \o <<Answer>>) \o y
        BY <1>2 DEF AnswerAmong
  <2>4. QED BY <1>2, <2>1, <2>2, <2>3, PageAssumption DEF AnswerAmong
<1>3. QED BY <1>1, <1>2

LEMMA ListenerStep ==
    ASSUME LineInv, CloudInv, Listener
    PROVE  LineInv'
<1>1. /\ UNCHANGED <<sent, step>> /\ sent \in Seq(Local)
      /\ candidates \in Seq(Local) /\ applied \in Seq(Local)
      BY DEF Listener, ReadAnswer, Described, Rejected, ReadCandidate, vars,
             localVars, LineInv, CloudInv, TypeOK
<1>2. CASE ReadAnswer
  <2>1. /\ answer' = "pending" /\ socket' = Tail(socket) /\ socket # <<>>
        /\ Head(socket) = Answer /\ UNCHANGED <<candidates, applied>>
        BY <1>2 DEF ReadAnswer
  <2>2. AnswerComes
    <3>1. CASE socket \in Seq(Local)
          BY <2>1, <3>1, PageAssumption
    <3>2. QED BY <3>1 DEF LineInv, Unanswered, Answered
  <2>3. PICK x, y \in Seq(Local) : /\ AnswerAmong(socket, x, y)
                                   /\ (applied \o candidates) \o (x \o y) = sent
        BY <2>2 DEF AnswerComes
  <2>4. x = <<>> /\ socket' = y
        BY <2>1, <2>3, HeadAndTail
  <2>5. (applied \o candidates) \o y = sent
        BY <1>1, <2>3, <2>4
  <2>6. Answered'
        BY <1>1, <2>1, <2>2, <2>4, <2>5 DEF AnswerComes, Answered
  <2>7. QED BY <1>1, <2>1, <2>2, <2>6 DEF LineInv, AnswerComes, answered
<1>3. CASE Described
  <2>1. /\ answer = "pending" /\ answer' = "set" /\ socket' = socket
        /\ applied' = applied \o candidates /\ candidates' = <<>>
        BY <1>3 DEF Described
  <2>2. Answered
        BY <2>1 DEF LineInv, Unanswered, AnswerComes
  <2>3. /\ applied' \in Seq(Local)
        /\ applied' \o candidates' = applied \o candidates
        BY <1>1, <2>1
  <2>4. Answered'
        BY <1>1, <2>1, <2>2, <2>3 DEF Answered
  <2>5. QED BY <2>1, <2>3, <2>4 DEF LineInv, answered
<1>4. CASE Rejected
  <2>1. /\ answer = "pending" /\ answer' = "rejected"
        /\ UNCHANGED <<socket, candidates, applied>>
        BY <1>4 DEF Rejected
  <2>2. QED BY <1>1, <2>1
            DEF LineInv, Unanswered, AnswerComes, Answered, answered
<1>5. CASE ReadCandidate
  <2>1. /\ socket # <<>> /\ Head(socket) # Answer /\ socket' = Tail(socket)
        /\ answer' = answer
        BY <1>5 DEF ReadCandidate
  <2> DEFINE h == Head(socket)
  <2>2. h = Head(socket)
        OBVIOUS
  <2>3. /\ \/ /\ ~answered /\ candidates' = Append(candidates, h)
              /\ applied' = applied
           \/ /\ answered /\ applied' = Append(applied, h)
              /\ candidates' = candidates
        /\ answered' = answered
        BY <1>5 DEF ReadCandidate, answered
  <2> HIDE DEF h
  <2> DEFINE before == applied \o candidates
             after == applied' \o candidates'
  <2>4. before \in Seq(Local)
        BY <1>1
  <2>5. ASSUME h \in Local
        PROVE  /\ candidates' \in Seq(Local) /\ applied' \in Seq(Local)
               /\ after = Append(before, h) /\ after \in Seq(Local)
    <3>1. CASE ~answered
      <4>1. Append(candidates, h) \in Seq(Local)
            BY <1>1, <2>5
      <4>2. applied \o Append(candidates, h) = Append(applied \o candidates, h)
            BY <1>1, <2>5, AppendBehind
      <4>3. candidates' \in Seq(Local) /\ applied' \in Seq(Local)
            BY <1>1, <2>3, <3>1, <4>1
      <4>4. after = Append(before, h)
            BY <2>3, <3>1, <4>2
      <4>5. after \in Seq(Local)
            BY <4>3
      <4> HIDE DEF before, after
      <4>6. QED BY <4>3, <4>4, <4>5
    <3>2. CASE answered
      <4>1. candidates = <<>> /\ candidates' = <<>>
            BY <2>3, <3>2 DEF LineInv
      <4>2. QED BY <1>1, <2>3, <2>5, <3>2, <4>1, SMTT(30)
    <3>3. QED BY <3>1, <3>2
  <2> HIDE DEF before, after
  <2>6. ASSUME socket \in Seq(Local)
        PROVE  /\ h \in Local /\ socket' \in Seq(Local)
               /\ after \o socket' = before \o socket
    <3>1. h \in Local /\ socket' \in Seq(Local)
          BY <2>2, <2>1, <2>6
    <3>2. Append(before, Head(socket)) \o Tail(socket) = before \o socket
          BY <2>1, <2>4, <2>6, MoveHead
    <3>3. QED BY <2>2, <2>1, <2>5, <3>1, <3>2
  <2>7. CASE Unanswered
    <3>1. Unanswered' /\ h \in Local
          BY <1>1, <2>1, <2>6, <2>7 DEF Unanswered, before, after
    <3>2. QED BY <2>3, <2>5, <2>7, <3>1 DEF LineInv, Unanswered, answered
  <2>8. CASE Answered
    <3>1. Answered' /\ h \in Local
          BY <1>1, <2>1, <2>6, <2>8 DEF Answered, before, after
    <3>2. QED BY <2>3, <2>5, <3>1 DEF LineInv
  <2>9. CASE AnswerComes
    <3>1. PICK x, y \in Seq(Local) :
              /\ AnswerAmong(socket, x, y)
              /\ (applied \o candidates) \o (x \o y) = sent
          BY <2>9 DEF AnswerComes
    <3>2. /\ x # <<>> /\ h = Head(x) /\ h \in Local
          /\ AnswerAmong(socket', Tail(x), y) /\ Tail(x) \in Seq(Local)
          BY <2>2, <2>1, <3>1, HeadAndTail
    <3>3. after \o (Tail(x) \o y) = sent
      <4>1. Append(before, Head(x)) \o Tail(x) = before \o x
            BY <2>4, <3>2, MoveHead
      <4>2. after \o Tail(x) = before \o x
            BY <2>5, <3>2, <4>1
      <4>3. /\ (after \o Tail(x)) \o y = after \o (Tail(x) \o y)
            /\ (before \o x) \o y = before \o (x \o y)
        <5> DEFINE rest == Tail(x)
        <5>1. after \in Seq(Local) /\ rest \in Seq(Local)
              BY <2>5, <3>2
        <5> HIDE DEF rest
        <5>2. (after \o rest) \o y = after \o (rest \o y)
              BY <5>1, ConcatAssociative, SMTT(30)
        <5>3. (before \o x) \o y = before \o (x \o y)
              BY <2>4, ConcatAssociative, SMTT(30)
        <5>4. QED BY <5>2, <5>3 DEF rest
      <4>4. before \o (x \o y) = sent
            BY <3>1 DEF before
      <4>5. QED BY <4>2, <4>3, <4>4
    <3>4. AnswerComes'
          BY <1>1, <2>1, <2>9, <3>2, <3>3 DEF AnswerComes, AnswerAmong, after
    <3>5. QED BY <2>3, <2>5, <2>9, <3>2, <3>4 DEF LineInv, AnswerComes, answered
  <2>10. QED BY <2>7, <2>8, <2>9 DEF LineInv
<1>6. QED BY <1>2, <1>3, <1>4, <1>5 DEF Listener

\* What the cloud writes: a candidate, then perhaps the answer.
LEMMA WriteStep ==
    ASSUME LineInv, CloudInv, Cloud, peer = "viewer"
    PROVE  LineInv'
<1> DEFINE applying == applied \o candidates
<1>1. /\ UNCHANGED <<answer, candidates, applied>>
      /\ sent \in Seq(Local)
      /\ candidates \in Seq(Local) /\ applied \in Seq(Local)
      BY DEF Cloud, Write, listenerVars, LineInv, CloudInv, TypeOK
<1>2. applying \in Seq(Local)
      BY <1>1
<1>3. PICK z \in {<<>>} \cup {<<c>> : c \in Local} :
          sent' = sent \o z /\ NewlySent = z
  <2>1. CASE sent' = sent /\ NewlySent = <<>>
        BY <1>1, <2>1
  <2>2. ASSUME NEW c \in Local, sent' = Append(sent, c), NewlySent = <<c>>
        PROVE  sent' = sent \o <<c>> /\ NewlySent = <<c>>
        BY <1>1, <2>2
  <2>3. QED BY <2>1, <2>2, NewlySentIs DEF Cloud
<1>4. z \in Seq(Local)
  <2>1. CASE z = <<>>
        BY <2>1
  <2>2. ASSUME NEW c \in Local, z = <<c>> PROVE z \in Seq(Local)
        BY <2>2
  <2>3. QED BY <2>1, <2>2
<1>5. \/ step' = step
      \/ step # "settled" /\ step' # "settled"
      \/ step # "settled" /\ step' = "settled"
  <2>1. step = "settled" => step' = step
        BY DEF Cloud, Next, Caller, PutOffer, SetupFails, TakeOffer,
               SetRemoteDescription, SetLocalDescription, DescriptionFails,
               PutAnswer, SendPending, TakeAnswer, AnswerFails, Gather, OnICECandidate,
               Arrive, AddICECandidate
  <2>2. QED BY <2>1
<1>6. answered' = answered
      BY <1>1 DEF answered
<1>7. CASE step' = "settled" /\ step # "settled"
  <2>1. Unanswered
        BY <1>7 DEF LineInv, AnswerComes, Answered
  <2>2. socket' = (socket \o z) \o <<Answer>>
        BY <1>3, <1>7 DEF Cloud, Write
  <2>3. socket \o z \in Seq(Local) /\ <<>> \in Seq(Local)
        BY <1>4, <2>1 DEF Unanswered
  <2>4. AnswerAmong(socket', socket \o z, <<>>)
    <3> DEFINE w == socket \o z
    <3> HIDE DEF w
    <3>1. w \in Seq(Local) /\ socket' = w \o <<Answer>>
          BY <2>2, <2>3 DEF w
    <3>2. socket' = (w \o <<Answer>>) \o <<>>
          BY <3>1
    <3>3. QED BY <3>2 DEF AnswerAmong, w
  <2>5. applying \o ((socket \o z) \o <<>>) = sent'
    <3> HIDE DEF applying
    <3>1. applying \o socket = sent /\ socket \in Seq(Local)
          BY <2>1 DEF Unanswered, applying
    <3>2. (applying \o socket) \o z = applying \o (socket \o z)
      <4>1. socket \in Seq(Local)
            BY <3>1
      <4>2. QED BY <1>4, <1>2, <4>1, ConcatAssociative, SMTT(30)
    <3>3. (socket \o z) \o <<>> = socket \o z
      <4> DEFINE w == socket \o z
      <4>1. w \in Seq(Local)
            BY <2>3
      <4> HIDE DEF w
      <4>2. w \o <<>> = w
            BY <4>1, ConcatEmptySeq
      <4>3. QED BY <4>2 DEF w
    <3>4. QED BY <1>3, <3>1, <3>2, <3>3
  <2>6. AnswerComes'
        BY <1>1, <1>7, <2>1, <2>3, <2>4, <2>5
        DEF AnswerComes, Unanswered, AnswerAmong
  <2>7. QED BY <1>1, <1>6, <2>6 DEF LineInv
<1>8. CASE ~(step' = "settled" /\ step # "settled")
  <2>1. socket' = (socket \o z) \o <<>>
        BY <1>3, <1>8 DEF Cloud, Write
  <2>2. ASSUME Unanswered \/ Answered PROVE Unanswered' \/ Answered'
    <3>1. socket \in Seq(Local) /\ applying \o socket = sent
          BY <2>2 DEF Unanswered, Answered
    <3>2. socket' = socket \o z /\ socket' \in Seq(Local)
      <4>1. socket \o z \in Seq(Local)
            BY <1>4, <3>1
      <4>2. (socket \o z) \o <<>> = socket \o z
        <5> DEFINE w == socket \o z
        <5>1. w \in Seq(Local)
              BY <4>1
        <5> HIDE DEF w
        <5>2. w \o <<>> = w
              BY <5>1, ConcatEmptySeq
        <5>3. QED BY <5>2 DEF w
      <4>3. QED BY <2>1, <4>1, <4>2
    <3>3. applying \o socket' = sent'
      <4> HIDE DEF applying
      <4>1. (applying \o socket) \o z = applying \o (socket \o z)
        <5>1. socket \in Seq(Local)
              BY <3>1
        <5>2. QED BY <1>4, <1>2, <5>1, ConcatAssociative, SMTT(30)
      <4>2. QED BY <1>3, <3>1, <3>2, <4>1
    <3>4. QED BY <1>1, <1>5, <1>8, <2>2, <3>2, <3>3 DEF Unanswered, Answered
  <2>3. ASSUME AnswerComes PROVE AnswerComes'
    <3>1. PICK x, y \in Seq(Local) : /\ AnswerAmong(socket, x, y)
                                     /\ applying \o (x \o y) = sent
          BY <2>3 DEF AnswerComes
    <3> DEFINE head == x \o <<Answer>>
    <3>2. y \o z \in Seq(Local)
          BY <1>4
    <3>3. socket' = head \o (y \o z)
      <4>1. socket = head \o y
            BY <3>1 DEF AnswerAmong
      <4>2. /\ head \in Seq(Local \cup {Answer})
            /\ y \in Seq(Local \cup {Answer}) /\ z \in Seq(Local \cup {Answer})
            BY <1>4
      <4> HIDE DEF head
      <4>3. socket \o z \in Seq(Local \cup {Answer})
            BY <4>1, <4>2
      <4>4. (socket \o z) \o <<>> = socket \o z
        <5> DEFINE w == socket \o z
        <5>1. w \in Seq(Local \cup {Answer})
              BY <4>3
        <5> HIDE DEF w
        <5>2. w \o <<>> = w
              BY <5>1, ConcatEmptySeq
        <5>3. QED BY <5>2 DEF w
      <4>5. (head \o y) \o z = head \o (y \o z)
            BY <4>2, ConcatAssociative, SMTT(30)
      <4>6. QED BY <2>1, <4>1, <4>4, <4>5
    <3>4. applying \o (x \o (y \o z)) = sent'
      <4> HIDE DEF applying
      <4>1. (applying \o (x \o y)) \o z = applying \o (x \o (y \o z))
        <5>1. /\ applying \in Seq(Local) /\ x \in Seq(Local)
              /\ y \in Seq(Local) /\ z \in Seq(Local)
              BY <1>2, <1>4
        <5> DEFINE w == x \o y
        <5>2. w \in Seq(Local)
              BY <5>1
        <5>3. w \o z = x \o (y \o z)
              BY <5>1, ConcatAssociative, SMTT(30)
        <5> HIDE DEF w
        <5>4. (applying \o w) \o z = applying \o (w \o z)
              BY <5>1, <5>2, ConcatAssociative, SMTT(60)
        <5>5. (applying \o w) \o z = applying \o (x \o (y \o z))
              BY ONLY <5>3, <5>4, Zenon
        <5>6. QED BY ONLY <5>5, Zenon DEF w
      <4>2. sent' = (applying \o (x \o y)) \o z
            BY <1>3, <3>1
      <4>3. QED BY <4>1, <4>2, Zenon
    <3>5. QED BY <1>1, <1>5, <1>8, <2>3, <3>2, <3>3, <3>4
              DEF AnswerComes, AnswerAmong
  <2>4. QED BY <1>1, <1>6, <2>2, <2>3 DEF LineInv
<1>9. QED BY <1>7, <1>8

LEMMA LineStep ==
    (peer = "viewer" => LineInv) /\ CloudInv /\ [PageNext]_pageVars =>
        (peer = "viewer" => LineInv)'
<1> SUFFICES ASSUME peer = "viewer" => LineInv, CloudInv, [PageNext]_pageVars,
                    peer' = "viewer"
             PROVE  LineInv'
    OBVIOUS
<1>1. peer = "viewer"
  <2>1. Next => peer' = peer
        BY DEF Next, Caller, PutOffer, SetupFails, TakeOffer,
               SetRemoteDescription, SetLocalDescription, DescriptionFails,
               PutAnswer, SendPending, TakeAnswer, AnswerFails, Gather,
               OnICECandidate, Arrive, AddICECandidate
  <2>2. QED BY <2>1, PageSteps DEF vars
<1>2. ASSUME UNCHANGED pageVars PROVE LineInv'
      BY <1>1, <1>2 DEF LineInv, Unanswered, AnswerComes, Answered, answered,
               pageVars, listenerVars, vars, localVars
<1>3. QED BY <1>1, <1>2, WriteStep, ListenerStep DEF PageNext

\* For any candidates and any order in which they and the answer come about:
\* nothing is lost, doubled or overtaken between the cloud and the page, and
\* the page applies no candidate before the answer.
THEOREM CandidatesInOrder == PageSpec => []AppliedInOrder
<1>1. PageSpec => [](peer = "viewer" => LineInv)
      BY LineInitially, LineStep, CloudInvariance, PTL DEF PageSpec
<1>2. QED BY <1>1, LineSuffices, PTL
=============================================================================
