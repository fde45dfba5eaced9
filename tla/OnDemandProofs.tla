---------------------------- MODULE OnDemandProofs -----------------------------
(***************************************************************************)
(* Theorems about the on-demand stream of the edge, for any set of          *)
(* goroutines, any number of notices and each kind of live stream.          *)
(***************************************************************************)
EXTENDS OnDemand, SequenceTheorems, TLAPS

-----------------------------------------------------------------------------
(* Type correctness.                                                       *)

LEMMA TypeInitially == Init => TypeOK
<1> SUFFICES ASSUME Init PROVE TypeOK
    OBVIOUS
<1>1. /\ stream \in [Streams -> {"none", "spawned", "bound", "running",
                                "failed", "over"}]
      /\ born \in [Streams -> Nat]
      /\ bound \in [Streams -> Nat]
      BY DEF Init
<1>2. inbox \in Seq(Notices)
      BY DEF Init
<1>3. sent \in 0..MaxNotices
      BY OnDemandAssumption DEF Init
<1>4. QED BY <1>1, <1>2, <1>3 DEF Init, TypeOK

\* A message taken from the inbox, in order or not, leaves a queue of notices.
LEMMA RemoveTypes ==
    ASSUME NEW q \in Seq(Notices), NEW j \in DOMAIN q
    PROVE  /\ RemoveAt(q, j) \in Seq(Notices)
           /\ Tail(q) \in Seq(Notices)
<1>1. /\ SubSeq(q, 1, j - 1) \in Seq(Notices)
      /\ SubSeq(q, j + 1, Len(q)) \in Seq(Notices)
      OBVIOUS
<1>2. q # <<>>
      OBVIOUS
<1>3. QED BY <1>1, <1>2 DEF RemoveAt

LEMMA TypeStep == TypeOK /\ [Next]_vars => TypeOK'
<1> SUFFICES ASSUME TypeOK, [Next]_vars PROVE TypeOK'
    OBVIOUS
<1> USE DEF TypeOK, edgeVars, streamVars, noticeVars
<1>1. ASSUME NEW n \in Notices, Send(n) PROVE TypeOK'
  <2>1. lastSent' \in {"zero", "some"}
        BY <1>1 DEF Send, Notices
  <2>2. sent' \in 0..MaxNotices
        BY <1>1, OnDemandAssumption DEF Send
  <2>3. inbox' \in Seq(Notices)
        BY <1>1 DEF Send
  <2>4. QED BY <1>1, <2>1, <2>2, <2>3 DEF Send
<1>2. ASSUME NEW j \in DOMAIN inbox, Lose(j) PROVE TypeOK'
      BY <1>2, RemoveTypes DEF Lose
<1>3. ASSUME NEW j \in DOMAIN inbox, HandleNotice(j) PROVE TypeOK'
  <2>1. inbox' \in Seq(Notices) /\ overtaken' \in BOOLEAN
        BY <1>3, RemoveTypes DEF HandleNotice, Deliver
  <2>2. ctx' \in Nat /\ isLivestreamStarted' \in BOOLEAN
    <3>1. \/ UNCHANGED <<isLivestreamStarted, ctx>>
          \/ ctx' = ctx + 1 /\ isLivestreamStarted' = FALSE
          \/ isLivestreamStarted' = TRUE /\ UNCHANGED ctx
          BY <1>3 DEF HandleNotice
    <3>2. ctx' \in Nat
          BY <3>1
    <3>3. isLivestreamStarted' \in BOOLEAN
          BY <3>1, Zenon
    <3>4. QED BY <3>2, <3>3
  <2>3. /\ stream' \in [Streams -> {"none", "spawned", "bound", "running",
                                   "failed", "over"}]
        /\ born' \in [Streams -> Nat]
    <3>1. CASE UNCHANGED <<stream, born>>
          BY <3>1
    <3>2. ASSUME NEW i \in Streams,
                 stream' = [stream EXCEPT ![i] = "spawned"],
                 born' = [born EXCEPT ![i] = ctx]
          PROVE  /\ stream' \in [Streams -> {"none", "spawned", "bound",
                                             "running", "failed", "over"}]
                 /\ born' \in [Streams -> Nat]
          BY <3>2
    <3>3. QED BY <1>3, <3>1, <3>2 DEF HandleNotice
  <2>4. UNCHANGED <<up, stateMux, bound, errChan, sent, lastSent, lost>>
        BY <1>3 DEF HandleNotice, Deliver
  <2>5. QED BY <2>1, <2>2, <2>3, <2>4
<1>4. ASSUME NEW i \in Streams, LiveStream(i) PROVE TypeOK'
  <2>1. CASE ReadContext(i)
        BY <2>1 DEF ReadContext
  <2>2. CASE Open(i)
        BY <2>2 DEF Open
  <2>3. CASE Packet(i)
        BY <2>3 DEF Packet
  <2>4. CASE SourceFails(i)
        BY <2>4 DEF SourceFails
  <2>5. CASE SendError(i)
        BY <2>5 DEF SendError
  <2>6. QED BY <1>4, <2>1, <2>2, <2>3, <2>4, <2>5 DEF LiveStream
<1>5. CASE IceDisconnected
      BY <1>5 DEF IceDisconnected
<1>6. CASE PublishReturns
      BY <1>6 DEF PublishReturns
<1>7. CASE UNCHANGED vars
      BY <1>7 DEF vars
<1>8. QED BY <1>1, <1>2, <1>3, <1>4, <1>5, <1>6, <1>7 DEF Next

\* Every reachable state has the types the code declares; errChan never holds
\* more than its capacity.
THEOREM TypeCorrect == Spec => []TypeOK
BY TypeInitially, TypeStep, PTL DEF Spec

-----------------------------------------------------------------------------
(* Streams and contexts.  The flag and the context are only changed           *)
(* together, except where stateMux is kept for ever.                         *)

\* A goroutine read a context no older than the one it was started with.
ContextsAge ==
    \A i \in Started : /\ born[i] <= ctx
                       /\ stream[i] # "spawned" =>
                             born[i] <= bound[i] /\ bound[i] <= ctx

\* With the flag down, the next start is the first with the current context.
FreshWhenDown ==
    ~isLivestreamStarted /\ stateMux = "free" =>
        \A i \in Started : born[i] # ctx

\* A stream that is over was cancelled, or its error is in errChan or has
\* ended the process.
OverExplained ==
    up /\ errChan = 0 =>
        \A i \in Started : stream[i] = "over" => bound[i] < ctx

StreamInv ==
    /\ TypeOK
    /\ ContextsAge
    /\ FreshWhenDown
    /\ OverExplained
    /\ OneStreamPerContext
    /\ FlagTruthful

LEMMA StreamInitially == Init => StreamInv
BY TypeInitially
DEF Init, StreamInv, ContextsAge, FreshWhenDown, OverExplained,
    OneStreamPerContext, FlagTruthful, Started

LEMMA StreamStep == StreamInv /\ [Next]_vars => StreamInv'
<1> SUFFICES ASSUME StreamInv, [Next]_vars PROVE StreamInv'
    OBVIOUS
<1>1. TypeOK /\ TypeOK'
      BY TypeStep DEF StreamInv
<1> USE DEF StreamInv, ContextsAge, FreshWhenDown, OverExplained,
            OneStreamPerContext, FlagTruthful, Started
<1>2. ASSUME UNCHANGED <<edgeVars, streamVars>> PROVE StreamInv'
      BY <1>1, <1>2 DEF edgeVars, streamVars
<1>3. ASSUME NEW n \in Notices, Send(n) PROVE StreamInv'
      BY <1>2, <1>3 DEF Send
<1>4. ASSUME NEW j \in DOMAIN inbox, Lose(j) PROVE StreamInv'
      BY <1>2, <1>4 DEF Lose
<1>5. ASSUME NEW j \in DOMAIN inbox, HandleNotice(j) PROVE StreamInv'
  <2>1. UNCHANGED <<up, stateMux, bound, errChan>>
        BY <1>5 DEF HandleNotice
  <2>2. CASE UNCHANGED <<isLivestreamStarted, ctx, stream, born>>
        BY <1>2, <2>1, <2>2 DEF edgeVars, streamVars
  <2>3. CASE /\ ctx' = ctx + 1
             /\ isLivestreamStarted' = FALSE
             /\ UNCHANGED <<stream, born>>
        BY <1>1, <2>1, <2>3 DEF TypeOK
  <2>4. ASSUME NEW i \in Streams,
               ~isLivestreamStarted, stateMux = "free",
               stream[i] = "none",
               stream' = [stream EXCEPT ![i] = "spawned"],
               born' = [born EXCEPT ![i] = ctx],
               isLivestreamStarted' = TRUE,
               UNCHANGED ctx
        PROVE  StreamInv'
    <3>1. /\ stream'[i] = "spawned" /\ born'[i] = ctx
          /\ \A k \in Streams \ {i} : stream'[k] = stream[k] /\ born'[k] = born[k]
          BY <1>1, <2>4 DEF TypeOK
    <3>2. ContextsAge'
          BY <1>1, <2>1, <2>4, <3>1 DEF TypeOK
    <3>3. FreshWhenDown' /\ OverExplained'
          BY <1>1, <2>1, <2>4, <3>1 DEF TypeOK
    <3>4. OneStreamPerContext'
          BY <1>1, <2>1, <2>4, <3>1 DEF TypeOK
    <3>5. FlagTruthful'
          BY <1>1, <2>1, <2>4, <3>1 DEF TypeOK
    <3>6. QED BY <1>1, <3>2, <3>3, <3>4, <3>5
  <2>5. QED BY <1>5, <2>2, <2>3, <2>4 DEF HandleNotice
<1>6. CASE IceDisconnected
      BY <1>1, <1>6 DEF IceDisconnected, TypeOK, streamVars
<1>7. ASSUME NEW i \in Streams, ReadContext(i) PROVE StreamInv'
      BY <1>1, <1>7 DEF ReadContext, TypeOK, edgeVars
<1>8. ASSUME NEW i \in Streams, Open(i) PROVE StreamInv'
      BY <1>1, <1>8, ZenonT(40) DEF Open, TypeOK, edgeVars
<1>9. ASSUME NEW i \in Streams, Packet(i) PROVE StreamInv'
      BY <1>1, <1>9 DEF Packet, Cancelled, TypeOK, edgeVars
<1>10. ASSUME NEW i \in Streams, SourceFails(i) PROVE StreamInv'
      BY <1>1, <1>10 DEF SourceFails, TypeOK, edgeVars
<1>11. ASSUME NEW i \in Streams, SendError(i) PROVE StreamInv'
      BY <1>1, <1>11 DEF SendError, TypeOK, edgeVars
<1>12. CASE PublishReturns
      BY <1>1, <1>12 DEF PublishReturns, TypeOK
<1>13. CASE UNCHANGED vars
      BY <1>2, <1>13 DEF vars
<1>14. QED
      BY <1>3, <1>4, <1>5, <1>6, <1>7, <1>8, <1>9, <1>10, <1>11, <1>12, <1>13
      DEF Next, LiveStream

\* At most one stream is started between two cancels, whatever the order of
\* the notices and of the goroutines.
THEOREM StreamsAreExclusive == Spec => []OneStreamPerContext
<1>1. StreamInv => OneStreamPerContext
      BY DEF StreamInv
<1>2. QED BY <1>1, StreamInitially, StreamStep, PTL DEF Spec

\* The flag never stands for a stream that is gone, unless the process goes.
THEOREM FlagIsTruthful == Spec => []FlagTruthful
<1>1. StreamInv => FlagTruthful
      BY DEF StreamInv
<1>2. QED BY <1>1, StreamInitially, StreamStep, PTL DEF Spec

-----------------------------------------------------------------------------
(* The flag and the last count.  What is still in the inbox decides: the      *)
(* last number in it is the last one sent, and with none left the flag        *)
(* already says what was sent last.                                         *)

NumbersIn(q) == {j \in DOMAIN q : q[j] # "bad"}

InboxTells ==
    ~lost /\ ~overtaken /\ stateMux = "free" =>
        /\ NumbersIn(inbox) = {} => (isLivestreamStarted <=> lastSent = "some")
        /\ \A j \in NumbersIn(inbox) :
              (\A l \in NumbersIn(inbox) : l <= j) => inbox[j] = lastSent

LEMMA InboxStep ==
    ASSUME TypeOK, InboxTells, [Next]_vars
    PROVE  InboxTells'
<1> USE DEF edgeVars, streamVars, noticeVars
<1>1. inbox \in Seq(Notices)
      BY DEF TypeOK
<1>2. ASSUME UNCHANGED <<isLivestreamStarted, stateMux, noticeVars>>
      PROVE  InboxTells'
      BY <1>2 DEF InboxTells, NumbersIn
<1>3. ASSUME NEW n \in Notices, Send(n) PROVE InboxTells'
  <2>1. UNCHANGED <<isLivestreamStarted, stateMux, lost, overtaken>>
        BY <1>3 DEF Send
  <2>2. /\ DOMAIN inbox' = 1..(Len(inbox) + 1)
        /\ DOMAIN inbox = 1..Len(inbox)
        /\ inbox'[Len(inbox) + 1] = n
        /\ \A j \in DOMAIN inbox : inbox'[j] = inbox[j]
        /\ Len(inbox) \in Nat
        BY <1>1, <1>3 DEF Send
  <2>3. CASE n = "bad"
    <3>1. lastSent' = lastSent
          BY <1>3, <2>3 DEF Send
    <3>2. NumbersIn(inbox)' = NumbersIn(inbox)
          BY <2>2, <2>3 DEF NumbersIn
    <3>3. QED BY <2>1, <2>2, <3>1, <3>2 DEF InboxTells, NumbersIn
  <2>4. CASE n # "bad"
    <3>1. lastSent' = n
          BY <1>3, <2>4 DEF Send
    <3>2. NumbersIn(inbox)' = NumbersIn(inbox) \cup {Len(inbox) + 1}
          BY <2>2, <2>4 DEF NumbersIn
    <3>3. \A j \in NumbersIn(inbox) : j < Len(inbox) + 1
          BY <2>2 DEF NumbersIn
    <3>4. QED BY <2>2, <3>1, <3>2, <3>3 DEF InboxTells, NumbersIn
  <2>5. QED BY <2>3, <2>4
<1>4. ASSUME NEW j \in DOMAIN inbox, Lose(j) PROVE InboxTells'
      BY <1>4 DEF Lose, InboxTells
<1>5. ASSUME NEW j \in DOMAIN inbox, HandleNotice(j) PROVE InboxTells'
  <2> SUFFICES ASSUME ~lost', ~overtaken'
               PROVE  /\ NumbersIn(inbox)' = {} =>
                            (isLivestreamStarted' <=> lastSent' = "some")
                      /\ \A k \in NumbersIn(inbox)' :
                            (\A l \in NumbersIn(inbox)' : l <= k) =>
                                inbox'[k] = lastSent'
      BY DEF InboxTells
  <2>1. /\ j = 1 /\ ~overtaken /\ ~lost
        /\ inbox' = Tail(inbox) /\ lastSent' = lastSent
        /\ stateMux = "free"
        BY <1>5 DEF HandleNotice, Deliver
  <2>2. /\ DOMAIN inbox' = 1..(Len(inbox) - 1)
        /\ DOMAIN inbox = 1..Len(inbox)
        /\ \A k \in 1..(Len(inbox) - 1) : inbox'[k] = inbox[k + 1]
        /\ Len(inbox) \in Nat /\ Len(inbox) >= 1
        BY <1>1, <2>1
  <2>3. \A k \in DOMAIN inbox' :
            k \in NumbersIn(inbox)' <=> k + 1 \in NumbersIn(inbox)
        BY <2>2 DEF NumbersIn
  <2>4. \A k \in NumbersIn(inbox) : k = 1 \/ k - 1 \in NumbersIn(inbox)'
        BY <2>2 DEF NumbersIn
  <2>5. ASSUME NEW k \in NumbersIn(inbox)',
               \A l \in NumbersIn(inbox)' : l <= k
        PROVE  inbox'[k] = lastSent'
    <3>1. k \in DOMAIN inbox' /\ k + 1 \in NumbersIn(inbox)
          BY <2>3 DEF NumbersIn
    <3>2. ASSUME NEW l \in NumbersIn(inbox) PROVE l <= k + 1
      <4>1. l \in Nat /\ k \in Nat
            BY <2>2, <3>1 DEF NumbersIn
      <4>2. CASE l = 1
            BY <4>1, <4>2
      <4>3. CASE l - 1 \in NumbersIn(inbox)'
            BY <2>5, <4>1, <4>3
      <4>4. QED BY <2>4, <4>2, <4>3
    <3>3. inbox[k + 1] = lastSent
          BY <2>1, <3>1, <3>2 DEF InboxTells
    <3>4. QED BY <2>1, <2>2, <3>1, <3>3
  <2>6. ASSUME NumbersIn(inbox)' = {}
        PROVE  isLivestreamStarted' <=> lastSent' = "some"
    <3>1. \A k \in NumbersIn(inbox) : k = 1
          BY <2>4, <2>6
    <3>2. CASE inbox[j] = "bad"
      <4>1. NumbersIn(inbox) = {}
            BY <2>1, <3>1, <3>2 DEF NumbersIn
      <4>2. isLivestreamStarted' = isLivestreamStarted
            BY <1>5, <3>2 DEF HandleNotice
      <4>3. QED BY <2>1, <4>1, <4>2 DEF InboxTells
    <3>3. CASE inbox[j] # "bad"
      <4>1. 1 \in NumbersIn(inbox) /\ \A l \in NumbersIn(inbox) : l <= 1
            BY <2>1, <2>2, <3>1, <3>3 DEF NumbersIn
      <4>2. inbox[j] = lastSent
            BY <2>1, <4>1 DEF InboxTells
      <4>3. isLivestreamStarted' <=> inbox[j] = "some"
            BY <1>5, <3>3 DEF HandleNotice
      <4>4. QED BY <2>1, <4>2, <4>3
    <3>4. QED BY <3>2, <3>3
  <2>7. QED BY <2>5, <2>6
<1>6. ASSUME NEW i \in Streams, LiveStream(i) PROVE InboxTells'
      BY <1>2, <1>6
      DEF LiveStream, ReadContext, Open, Packet, SourceFails, SendError
<1>7. CASE IceDisconnected
      BY <1>7 DEF IceDisconnected, InboxTells
<1>8. CASE PublishReturns
      BY <1>2, <1>8 DEF PublishReturns
<1>9. CASE UNCHANGED vars
      BY <1>2, <1>9 DEF vars
<1>10. QED BY <1>3, <1>4, <1>5, <1>6, <1>7, <1>8, <1>9 DEF Next

\* With every notice handled in the order it was sent, the flag says what the
\* last count said, bad payloads notwithstanding.
THEOREM FlagFollowsInOrder == Spec => []FlagFollowsCount
<1>1. Init => InboxTells
      BY DEF Init, InboxTells, NumbersIn
<1>2. TypeOK /\ InboxTells /\ [Next]_vars => TypeOK' /\ InboxTells'
      BY TypeStep, InboxStep
<1>3. InboxTells => FlagFollowsCount
      BY DEF InboxTells, NumbersIn, FlagFollowsCount
<1>4. QED BY TypeInitially, <1>1, <1>2, <1>3, PTL DEF Spec
=============================================================================
