---------------------------- MODULE CharoiteProofs -----------------------------
(***************************************************************************)
(* Theorems about the whole loop, for any number of streams, edge devices,  *)
(* viewers and live streams, and any number of restarts of either process.  *)
(*                                                                         *)
(* The loop adds no step to its two halves but the restarts: what is        *)
(* invariant in Broadcast and in OnDemand is invariant here.  What ties     *)
(* them together is Informing: where the last count is.                     *)
(***************************************************************************)
EXTENDS Charoite, BroadcastProofs, SequenceTheorems

P == INSTANCE OnDemandProofs WITH up <- edgeUp

-----------------------------------------------------------------------------
(* The cloud's half.                                                       *)

CloudInv == CounterInv /\ NoticeInv

LEMMA CloudInitially == Init => CloudInv
BY CounterInitially, NoticeInitially DEF CloudInv

LEMMA CloudInvStep == CloudInv /\ [Next]_vars => CloudInv'
BY CounterInvStep, NoticeStep DEF CloudInv, CounterInv, LinkInv

\* A cloud that is started again starts where a new one does.
LEMMA CloudForgets == Forget => Init'
BY DEF Forget, Init

LEMMA CloudAfresh == Forget => CloudInv'
<1>1. Init' => CloudInv'
      BY CloudInitially, PTL
<1>2. QED BY <1>1, CloudForgets

\* A step of the loop is a step of the cloud, its restart, or none of its
\* business.
LEMMA CloudSteps == [CharoiteNext]_charoiteVars => [Next]_vars \/ Forget
<1> SUFFICES ASSUME CharoiteNext PROVE [Next]_vars \/ Forget
    BY DEF charoiteVars
<1>1. ASSUME NEW p \in Publishers, EdgeOffers(p) PROVE Next
      BY <1>1 DEF EdgeOffers, Next
<1>2. CASE EdgeOffersAgain \/ Listen \/ Device \/ EdgeRestarts
      BY <1>2 DEF EdgeOffersAgain, Listen, Device, EdgeRestarts
<1>3. CASE Cloud
      BY <1>3 DEF Cloud, Next, Update
<1>4. ASSUME NEW v \in Viewers, Notify(v) PROVE Next
      BY <1>4 DEF Notify, Next, Update
<1>5. ASSUME NEW j \in DOMAIN inbox, Hear(j) \/ LoseNotice(j)
      PROVE  UNCHANGED vars
      BY <1>5 DEF Hear, LoseNotice
<1>6. CASE CloudRestarts
      BY <1>6 DEF CloudRestarts
<1>7. QED BY <1>1, <1>2, <1>3, <1>4, <1>5, <1>6 DEF CharoiteNext

LEMMA CloudInvariance == CharoiteSpec => []CloudInv
<1>1. CharoiteInit => CloudInv
      BY CloudInitially DEF CharoiteInit
<1>2. CloudInv /\ [CharoiteNext]_charoiteVars => CloudInv'
      BY CloudSteps, CloudInvStep, CloudAfresh
<1>3. QED BY <1>1, <1>2, PTL DEF CharoiteSpec

-----------------------------------------------------------------------------
(* The device's half.                                                      *)

DeviceInv == P!StreamInv

LEMMA DeviceInitially == P!Init => DeviceInv
BY P!StreamInitially, CharoiteAssumption DEF DeviceInv

LEMMA DeviceInvStep == DeviceInv /\ [P!Next]_(P!vars) => DeviceInv'
BY P!StreamStep, CharoiteAssumption DEF DeviceInv

LEMMA DeviceForgets == EdgeRestarts => P!Init'
BY DEF EdgeRestarts, P!Init

LEMMA DeviceAfresh == EdgeRestarts => DeviceInv'
<1>1. P!Init' => DeviceInv'
      BY DeviceInitially, PTL
<1>2. QED BY <1>1, DeviceForgets

LEMMA DeviceSteps ==
    [CharoiteNext]_charoiteVars => [P!Next]_(P!vars) \/ EdgeRestarts
<1> SUFFICES ASSUME CharoiteNext PROVE [P!Next]_(P!vars) \/ EdgeRestarts
    BY DEF charoiteVars, deviceVars, P!vars, P!edgeVars, P!streamVars,
           P!noticeVars
<1>1. ASSUME UNCHANGED deviceVars PROVE UNCHANGED P!vars
      BY <1>1 DEF deviceVars, P!vars, P!edgeVars, P!streamVars, P!noticeVars
<1>2. ASSUME NEW p \in Publishers, EdgeOffers(p) PROVE UNCHANGED P!vars
      BY <1>1, <1>2 DEF EdgeOffers
<1>3. CASE EdgeOffersAgain \/ Cloud \/ Listen \/ CloudRestarts
      BY <1>1, <1>3 DEF EdgeOffersAgain, Cloud, Listen, CloudRestarts
<1>4. ASSUME NEW v \in Viewers, Notify(v) PROVE [P!Next]_(P!vars)
  <2>1. Word(notice'[Key]) \in P!Notices
        BY DEF Word, P!Notices
  <2>2. ASSUME O!Send(Word(notice'[Key])) PROVE P!Send(Word(notice'[Key]))
        BY <2>2 DEF O!Send, P!Send, O!edgeVars, P!edgeVars, O!streamVars,
                    P!streamVars
  <2>3. QED BY <1>1, <1>4, <2>1, <2>2 DEF Notify, P!Next
<1>5. ASSUME NEW j \in DOMAIN inbox, Hear(j) PROVE P!Next
  <2>1. P!HandleNotice(j)
        BY <1>5 DEF Hear, O!HandleNotice, P!HandleNotice, O!Deliver, P!Deliver,
                    O!RemoveAt, P!RemoveAt
  <2>2. QED BY <2>1 DEF P!Next
<1>6. ASSUME NEW j \in DOMAIN inbox, LoseNotice(j) PROVE P!Next
  <2>1. P!Lose(j)
        BY <1>6 DEF LoseNotice, O!Lose, P!Lose, O!RemoveAt, P!RemoveAt,
                    O!edgeVars, P!edgeVars, O!streamVars, P!streamVars
  <2>2. QED BY <2>1 DEF P!Next
<1>7. CASE Device
  <2> USE DEF O!edgeVars, P!edgeVars, O!streamVars, P!streamVars,
              O!noticeVars, P!noticeVars
  <2>1. ASSUME NEW i \in Streams, O!LiveStream(i) PROVE P!LiveStream(i)
    <3>1. O!ReadContext(i) => P!ReadContext(i)
          BY DEF O!ReadContext, P!ReadContext
    <3>2. O!Open(i) => P!Open(i)
          BY DEF O!Open, P!Open, O!PortTaken, P!PortTaken, O!Kind, P!Kind
    <3>3. O!Packet(i) => P!Packet(i)
          BY DEF O!Packet, P!Packet, O!Cancelled, P!Cancelled, O!Kind, P!Kind
    <3>4. O!SourceFails(i) => P!SourceFails(i)
          BY DEF O!SourceFails, P!SourceFails
    <3>5. O!SendError(i) => P!SendError(i)
          BY DEF O!SendError, P!SendError
    <3>6. QED BY <2>1, <3>1, <3>2, <3>3, <3>4, <3>5
              DEF O!LiveStream, P!LiveStream
  <2>2. O!IceDisconnected => P!IceDisconnected
        BY DEF O!IceDisconnected, P!IceDisconnected
  <2>3. O!PublishReturns => P!PublishReturns
        BY DEF O!PublishReturns, P!PublishReturns
  <2>4. QED BY <1>7, <2>1, <2>2, <2>3 DEF Device, P!Next
<1>8. QED BY <1>2, <1>3, <1>4, <1>5, <1>6, <1>7 DEF CharoiteNext

LEMMA DeviceInvariance == CharoiteSpec => []DeviceInv
<1>1. CharoiteInit => P!Init
      BY DEF CharoiteInit, O!Init, P!Init
<1>2. DeviceInv /\ [CharoiteNext]_charoiteVars => DeviceInv'
      BY DeviceSteps, DeviceInvStep, DeviceAfresh
<1>3. QED BY <1>1, <1>2, DeviceInitially, PTL DEF CharoiteSpec

-----------------------------------------------------------------------------
(* Where the last count is: the flag agrees with it when it was heard last,   *)
(* and it is the newest in the inbox while it is on its way.  A lost link     *)
(* keeps stateMux and lets the flag fall without a count.                    *)

Informing ==
    /\ informed = "yes" /\ stateMux = "free" =>
          (isLivestreamStarted <=> notice[Key] # 0)
    /\ informed = "soon" =>
          inbox # <<>> /\ inbox[Len(inbox)] = Word(notice[Key])

LEMMA InformedInitially == CharoiteInit => Informing
BY CharoiteAssumption DEF CharoiteInit, Init, O!Init, Informing

\* A message that is taken out leaves the newest one where it is, at the end.
LEMMA NewestStays ==
    ASSUME NEW S, NEW q \in Seq(S), NEW j \in DOMAIN q, j # Len(q)
    PROVE  /\ O!RemoveAt(q, j) # <<>>
           /\ O!RemoveAt(q, j)[Len(O!RemoveAt(q, j))] = q[Len(q)]
           /\ j = 1 => Tail(q) # <<>> /\ Tail(q)[Len(Tail(q))] = q[Len(q)]
<1>1. /\ Len(q) \in Nat /\ DOMAIN q = 1..Len(q)
      /\ j \in Nat /\ 1 <= j /\ j < Len(q)
      OBVIOUS
<1> DEFINE a == SubSeq(q, 1, j - 1)
           b == SubSeq(q, j + 1, Len(q))
<1>2. a \in Seq(S) /\ Len(a) = j - 1
  <2>1. \A i \in 1..(j - 1) : q[i] \in S
        BY <1>1
  <2>2. QED BY <1>1, <2>1, SubSeqProperties
<1>3. /\ b \in Seq(S) /\ Len(b) = Len(q) - j
      /\ b[Len(q) - j] = q[Len(q)]
  <2>1. /\ \A i \in (j + 1)..Len(q) : q[i] \in S
        /\ j + 1 \in Int /\ Len(q) \in Int /\ j + 1 <= Len(q)
        /\ Len(q) - (j + 1) + 1 = Len(q) - j
        /\ Len(q) - j \in 1..(Len(q) - j)
        /\ (j + 1) + (Len(q) - j) - 1 = Len(q)
        BY <1>1
  <2>2. b \in Seq(S)
        BY <2>1, SubSeqProperties
  <2>3. Len(b) = Len(q) - j
        BY <2>1, SubSeqProperties
  <2>4. ASSUME NEW i \in 1..(Len(q) - (j + 1) + 1)
        PROVE  b[i] = q[(j + 1) + i - 1]
    <3>1. \A m \in Int, n \in Int : (\A k \in m..n : q[k] \in S) =>
              \A k \in 1..(n - m + 1) : SubSeq(q, m, n)[k] = q[m + k - 1]
          BY SubSeqProperties
    <3>2. QED BY <2>1, <3>1, Zenon
  <2> HIDE DEF b
  <2>5. b[Len(q) - j] = q[(j + 1) + (Len(q) - j) - 1]
        BY <2>1, <2>4
  <2>6. QED BY <2>1, <2>2, <2>3, <2>5
<1> HIDE DEF a, b
<1>4. /\ Len(a \o b) = Len(q) - 1
      /\ (a \o b)[Len(q) - 1] = q[Len(q)]
  <2>1. /\ Len(a) + Len(b) = Len(q) - 1
        /\ Len(q) - 1 \in 1..(Len(q) - 1)
        /\ ~(Len(q) - 1 <= Len(a)) /\ (Len(q) - 1) - Len(a) = Len(q) - j
        BY <1>1, <1>2, <1>3, SMTT(30)
  <2>2. /\ Len(a \o b) = Len(a) + Len(b)
        /\ \A i \in 1..(Len(a) + Len(b)) :
              (a \o b)[i] = IF i <= Len(a) THEN a[i] ELSE b[i - Len(a)]
        BY <1>2, <1>3, ConcatProperties
  <2>3. QED BY <1>3, <2>1, <2>2
<1>5. a \o b # <<>>
      BY <1>1, <1>4
<1>6. O!RemoveAt(q, j) = a \o b
      BY DEF O!RemoveAt, a, b
<1>7. j = 1 => Tail(q) # <<>> /\ Tail(q)[Len(Tail(q))] = q[Len(q)]
      BY <1>1
<1>8. QED BY <1>4, <1>5, <1>6, <1>7

\* A step of the cloud changes the count of the edge's stream only by giving it.
LEMMA NoticeKept ==
    ASSUME CloudInv,
           \/ \E p \in Publishers : EdgeOffers(p)
           \/ EdgeOffersAgain \/ Cloud \/ Listen \/ Device
    PROVE  UNCHANGED <<notice, informed>>
<1>1. ASSUME NEW p \in Publishers, EdgeOffers(p)
      PROVE  UNCHANGED <<notice, informed>>
      BY <1>1 DEF EdgeOffers, PublisherOffer
<1>2. CASE EdgeOffersAgain \/ Listen \/ Device
      BY <1>2 DEF EdgeOffersAgain, Listen, Device, vars
<1>3. CASE Cloud
  <2>1. UNCHANGED informed
        BY <1>3 DEF Cloud
  <2>2. ASSUME NEW v \in Viewers,
               ViewerOffer(v) \/ CounterLoad(v) \/ CounterStore(v)
        PROVE  UNCHANGED notice
        BY <2>2 DEF ViewerOffer, CounterLoad, CounterStore
  <2>3. ASSUME NEW p \in Peers, Agent(p) \/ Handler(p)
        PROVE  UNCHANGED notice
        BY <2>3
        DEF Agent, AgentLink, AgentFails, RemoteCloses, Handler,
            HandleConnected, HandleDisconnected, HandleFailed, ClosePanics,
            HandleClosed, HandleLink
  <2>4. ASSUME NEW v \in Viewers, NEW w \in Viewers, MapFault(v, w)
        PROVE  UNCHANGED notice
        BY <2>4 DEF MapFault
  <2>5. QED BY <1>3, <2>1, <2>2, <2>3, <2>4 DEF Cloud
<1>4. QED BY <1>1, <1>2, <1>3

LEMMA InformedStep ==
    ASSUME CloudInv, DeviceInv, Informing, [CharoiteNext]_charoiteVars
    PROVE  Informing'
<1>1. /\ notice \in [Keys -> Int] /\ Key \in Keys
      /\ inbox \in Seq(P!Notices) /\ isLivestreamStarted \in BOOLEAN
      BY CharoiteAssumption
      DEF CloudInv, CounterInv, LinkInv, TypeOK, DeviceInv, P!StreamInv,
          P!TypeOK
<1>2. ASSUME UNCHANGED <<notice, informed, inbox, isLivestreamStarted>>,
             stateMux' = "free" => stateMux = "free"
      PROVE  Informing'
      BY <1>2 DEF Informing, Word
<1>3. CASE \/ \E p \in Publishers : EdgeOffers(p)
           \/ EdgeOffersAgain \/ Cloud \/ Listen
  <2>1. UNCHANGED deviceVars
        BY <1>3 DEF EdgeOffers, EdgeOffersAgain, Cloud, Listen
  <2>2. QED BY <1>2, <1>3, <2>1, NoticeKept DEF deviceVars
<1>4. CASE Device
  <2>1. UNCHANGED <<notice, informed>>
        BY <1>4, NoticeKept
  <2>2. ASSUME NEW i \in Streams, O!LiveStream(i) PROVE Informing'
        BY <1>2, <2>1, <2>2
        DEF O!LiveStream, O!ReadContext, O!Open, O!Packet, O!SourceFails,
            O!SendError, O!edgeVars, O!noticeVars
  <2>3. CASE O!IceDisconnected
        BY <2>1, <2>3 DEF O!IceDisconnected, O!noticeVars, Informing, Word
  <2>4. CASE O!PublishReturns
        BY <1>2, <2>1, <2>4 DEF O!PublishReturns, O!noticeVars
  <2>5. QED BY <1>4, <2>2, <2>3, <2>4 DEF Device
<1>5. ASSUME NEW v \in Viewers, Notify(v) PROVE Informing'
  <2>1. CASE KeyOf[v] = Key /\ edge = "listening"
    <3>1. /\ inbox' = Append(inbox, Word(notice'[Key]))
          /\ informed' = "soon"
          BY <1>5, <2>1 DEF Notify, O!Send
    <3>2. /\ Len(inbox') = Len(inbox) + 1 /\ Len(inbox) \in Nat
          /\ inbox'[Len(inbox) + 1] = Word(notice'[Key])
          BY <1>1, <3>1
    <3>3. QED BY <3>1, <3>2 DEF Informing, Word
  <2>2. CASE KeyOf[v] = Key /\ edge # "listening"
        BY <1>5, <2>2 DEF Notify, Informing
  <2>3. CASE KeyOf[v] # Key
    <3>1. informed' = informed /\ UNCHANGED deviceVars
          BY <1>5, <2>3 DEF Notify
    <3>2. notice'[Key] = notice[Key]
          BY <1>1, <1>5, <2>3 DEF Notify, NotifySubscriptions
    <3>3. QED BY <3>1, <3>2 DEF Informing, Word, deviceVars
  <2>4. QED BY <2>1, <2>2, <2>3
<1>6. ASSUME NEW j \in DOMAIN inbox, Hear(j) PROVE Informing'
  <2>1. /\ notice' = notice /\ stateMux = "free"
        /\ inbox' = IF j = 1 THEN Tail(inbox) ELSE O!RemoveAt(inbox, j)
        BY <1>6 DEF Hear, vars, O!HandleNotice, O!Deliver
  <2>2. CASE IsNewest(j)
    <3>1. informed' = "yes" /\ inbox[j] = Word(notice[Key])
          BY <1>6, <2>2 DEF Hear, IsNewest, Informing
    <3>2. isLivestreamStarted' <=> inbox[j] = "some"
          BY <1>6, <3>1 DEF Hear, O!HandleNotice, Word
    <3>3. QED BY <2>1, <3>1, <3>2 DEF Informing, Word
  <2>3. CASE ~IsNewest(j) /\ informed = "soon"
    <3>1. informed' = "soon" /\ j # Len(inbox)
          BY <1>6, <2>3 DEF Hear, IsNewest
    <3>2. inbox' # <<>> /\ inbox'[Len(inbox')] = inbox[Len(inbox)]
          BY <1>1, <2>1, <3>1, NewestStays
    <3>3. QED BY <2>1, <2>3, <3>1, <3>2 DEF Informing, Word
  <2>4. CASE ~IsNewest(j) /\ informed # "soon"
        BY <1>6, <2>4 DEF Hear, Informing
  <2>5. QED BY <2>2, <2>3, <2>4
<1>7. ASSUME NEW j \in DOMAIN inbox, LoseNotice(j) PROVE Informing'
  <2>1. /\ notice' = notice
        /\ inbox' = O!RemoveAt(inbox, j)
        /\ UNCHANGED <<isLivestreamStarted, stateMux>>
        BY <1>7 DEF LoseNotice, vars, O!Lose, O!edgeVars
  <2>2. CASE IsNewest(j)
        BY <1>7, <2>2 DEF LoseNotice, Informing
  <2>3. CASE ~IsNewest(j) /\ informed = "soon"
    <3>1. informed' = "soon" /\ j # Len(inbox)
          BY <1>7, <2>3 DEF LoseNotice, IsNewest
    <3>2. inbox' # <<>> /\ inbox'[Len(inbox')] = inbox[Len(inbox)]
          BY <1>1, <2>1, <3>1, NewestStays
    <3>3. QED BY <2>1, <2>3, <3>1, <3>2 DEF Informing, Word
  <2>4. CASE ~IsNewest(j) /\ informed # "soon"
        BY <1>7, <2>1, <2>4 DEF LoseNotice, Informing
  <2>5. QED BY <2>2, <2>3, <2>4
<1>8. CASE CloudRestarts
  <2>1. /\ notice'[Key] = 0 /\ UNCHANGED <<isLivestreamStarted, inbox>>
        /\ informed' = IF isLivestreamStarted \/ informed = "soon"
                       THEN "no" ELSE "yes"
        BY <1>1, <1>8 DEF CloudRestarts, Forget, deviceVars
  <2>2. QED BY <2>1 DEF Informing
<1>9. CASE EdgeRestarts
  <2>1. /\ notice' = notice /\ isLivestreamStarted' = FALSE
        /\ informed' = IF notice[Key] = 0 THEN "yes" ELSE "no"
        BY <1>9 DEF EdgeRestarts, vars
  <2>2. QED BY <2>1 DEF Informing
<1>10. CASE UNCHANGED charoiteVars
      BY <1>2, <1>10 DEF charoiteVars, vars, deviceVars
<1>11. QED
      BY <1>3, <1>4, <1>5, <1>6, <1>7, <1>8, <1>9, <1>10 DEF CharoiteNext

CharoiteInv == CloudInv /\ DeviceInv /\ Informing

LEMMA CharoiteInvariance == CharoiteSpec => []CharoiteInv
<1>1. CloudInv /\ DeviceInv /\ Informing /\ [CharoiteNext]_charoiteVars
          => Informing'
      BY InformedStep
<1>2. CharoiteSpec => []Informing
      BY <1>1, InformedInitially, CloudInvariance, DeviceInvariance, PTL
      DEF CharoiteSpec
<1>3. QED BY <1>2, CloudInvariance, DeviceInvariance, PTL DEF CharoiteInv

-----------------------------------------------------------------------------
(* The guarantees of the loop.                                             *)

\* In step, the flag says whether the stream is watched.
LEMMA FlagSaysWatched ==
    ASSUME CharoiteInv, InStep
    PROVE  isLivestreamStarted <=> Watched
<1> DEFINE lively == {v \in ViewersOf(Key) : linked[v]}
<1>1. isLivestreamStarted <=> notice[Key] # 0
      BY DEF CharoiteInv, Informing, InStep
<1>2. Key \in Keys \ raced /\ Key \in Keys \ late
      BY CharoiteAssumption DEF InStep
<1>3. \A v \in ViewersOf(Key) : Settled(v) /\ phase[v] = "idle"
      BY DEF InStep, Settled
<1>4. notice[Key] = counter[Key]
      BY <1>2, <1>3, NoticeSuffices
      DEF CharoiteInv, CloudInv, LastNoticeCurrent
<1>5. counter[Key] = Cardinality(lively)
      BY <1>2, <1>3, AbsoluteWhenSettled
      DEF CharoiteInv, CloudInv, AbsoluteCounter
<1>6. IsFiniteSet(lively)
      BY BroadcastAssumption, FS_Subset DEF ViewersOf
<1>7. Cardinality(lively) = 0 <=> lively = {}
      BY <1>6, FS_EmptySet
<1>8. Watched <=> lively # {}
      BY DEF Watched
<1>9. QED BY <1>1, <1>4, <1>5, <1>7, <1>8

\* A connected viewer gets a stream: with the last count heard and the updates
\* not overlapping, one of the current context is alive or about to restart the
\* edge, whichever process was restarted before and whatever counts were lost.
THEOREM ViewersGetTheirStream == CharoiteSpec => []WatchedStreamRuns
<1>1. ASSUME CharoiteInv PROVE WatchedStreamRuns
  <2> SUFFICES ASSUME InStep, Watched
               PROVE  /\ isLivestreamStarted
                      /\ \/ errChan = 1
                         \/ \E i \in Streams :
                                /\ stream[i] \notin {"none", "over"}
                                /\ born[i] = ctx
      BY DEF WatchedStreamRuns
  <2>1. isLivestreamStarted
        BY <1>1, FlagSaysWatched
  <2>2. edgeUp
        BY DEF InStep
  <2>3. QED BY <1>1, <2>1, <2>2
            DEF CharoiteInv, DeviceInv, P!StreamInv, P!FlagTruthful, P!Started
<1>2. QED BY <1>1, CharoiteInvariance, PTL

\* With the last count heard and nobody watching, the flag is down and each
\* stream was started for a context that has been cancelled since, whichever
\* process was restarted before and whatever counts were lost.  (Which context it
\* then reads is another matter.)
THEOREM UnwatchedContextsAreCancelled ==
    CharoiteSpec => []UnwatchedContextsCancelled
<1>1. ASSUME CharoiteInv PROVE UnwatchedContextsCancelled
  <2> SUFFICES ASSUME InStep, ~Watched
               PROVE  /\ ~isLivestreamStarted
                      /\ \A i \in Streams :
                            stream[i] # "none" => O!Cancelled(born[i])
      BY DEF UnwatchedContextsCancelled
  <2>1. ~isLivestreamStarted
        BY <1>1, FlagSaysWatched
  <2>2. stateMux = "free"
        BY DEF InStep
  <2>3. ASSUME NEW i \in Streams, stream[i] # "none"
        PROVE  born[i] < ctx
    <3>1. i \in P!Started
          BY <2>3 DEF P!Started
    <3>2. born[i] <= ctx /\ born[i] # ctx
          BY <1>1, <2>1, <2>2, <3>1
          DEF CharoiteInv, DeviceInv, P!StreamInv, P!ContextsAge,
              P!FreshWhenDown
    <3>3. born[i] \in Nat /\ ctx \in Nat
          BY <1>1 DEF CharoiteInv, DeviceInv, P!StreamInv, P!TypeOK
    <3>4. QED BY <3>2, <3>3
  <2>4. QED BY <2>1, <2>3 DEF O!Cancelled
<1>2. QED BY <1>1, CharoiteInvariance, PTL

\* What Broadcast promises of the count holds of a cloud that is restarted, and
\* what OnDemand promises of the streams holds of an edge that is.
THEOREM HalvesKeepTheirPromises ==
    CharoiteSpec => [](AbsoluteCounter /\ LastNoticeCurrent
                          /\ O!OneStreamPerContext /\ O!FlagTruthful)
<1>1. ASSUME CharoiteInv
      PROVE  /\ AbsoluteCounter /\ LastNoticeCurrent
             /\ O!OneStreamPerContext /\ O!FlagTruthful
  <2>1. AbsoluteCounter /\ LastNoticeCurrent
        BY <1>1, AbsoluteWhenSettled, NoticeSuffices DEF CharoiteInv, CloudInv
  <2>2. P!OneStreamPerContext /\ P!FlagTruthful
        BY <1>1 DEF CharoiteInv, DeviceInv, P!StreamInv
  <2>3. O!OneStreamPerContext /\ O!FlagTruthful
        BY <2>2 DEF O!OneStreamPerContext, P!OneStreamPerContext,
                    O!FlagTruthful, P!FlagTruthful, O!Started, P!Started
  <2>4. QED BY <2>1, <2>3
<1>2. QED BY <1>1, CharoiteInvariance, PTL
=============================================================================
