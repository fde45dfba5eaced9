----------------------------- MODULE SocketProofs ------------------------------
(***************************************************************************)
(* Theorems about the WebSocket of a viewer, for any track sources and any  *)
(* number of messages: every variable keeps its type, no channel holds more *)
(* than its capacity, and no candidate is lost, doubled or overtaken.       *)
(***************************************************************************)
EXTENDS Socket, FiniteSetTheorems, SequenceTheorems, TLAPS

-----------------------------------------------------------------------------
(* Sequences, by their positions.                                          *)

LEMMA TailPositions ==
    ASSUME NEW S, NEW q \in Seq(S), q # <<>>
    PROVE  /\ Tail(q) \in Seq(S) /\ Head(q) \in S /\ Head(q) = q[1]
           /\ Len(q) \in Nat /\ 1 \in DOMAIN q /\ DOMAIN q \subseteq Nat \ {0}
           /\ Len(Tail(q)) = Len(q) - 1
           /\ \A i \in DOMAIN Tail(q) : /\ i \in Nat /\ i + 1 \in DOMAIN q
                                        /\ Tail(q)[i] = q[i + 1]
           /\ \A i \in DOMAIN q : i = 1 \/ i - 1 \in DOMAIN Tail(q)
OBVIOUS

LEMMA AppendPositions ==
    ASSUME NEW S, NEW q \in Seq(S), NEW e \in S
    PROVE  /\ Append(q, e) \in Seq(S)
           /\ Len(q) \in Nat /\ Len(Append(q, e)) = Len(q) + 1
           /\ DOMAIN Append(q, e) = DOMAIN q \cup {Len(q) + 1}
           /\ \A i \in DOMAIN q : /\ i \in Nat /\ i < Len(q) + 1
                                  /\ Append(q, e)[i] = q[i]
           /\ Append(q, e)[Len(q) + 1] = e
OBVIOUS

LEMMA Singleton ==
    ASSUME NEW S, NEW q \in Seq(S), Len(q) = 1
    PROVE  q[1] \in S /\ q = <<q[1]>>
<1>1. <<q[1]>> \in Seq(S) /\ q[1] \in S
      OBVIOUS
<1>2. Len(<<q[1]>>) = Len(q) /\ \A i \in 1..Len(q) : q[i] = <<q[1]>>[i]
      OBVIOUS
<1>3. QED BY <1>1, <1>2, SeqEqual

LEMMA HeadAndTail ==
    ASSUME NEW S, NEW q \in Seq(S), q # <<>>
    PROVE  <<Head(q)>> \o Tail(q) = q
OBVIOUS

LEMMA NatSequence ==
    ASSUME NEW n, NEW q \in Seq(1..n)
    PROVE  q \in Seq(Nat)
<1>1. 1..n \subseteq Nat
      OBVIOUS
<1>2. QED BY <1>1, SeqMonotonic

LEMMA TailSet ==
    ASSUME NEW S, NEW q \in Seq(S), q # <<>>
    PROVE  ToSet(q) = {Head(q)} \cup ToSet(Tail(q))
<1> DEFINE t == Tail(q)
<1>1. /\ Head(q) = q[1] /\ 1 \in DOMAIN q /\ DOMAIN q \subseteq Nat \ {0}
      /\ \A i \in DOMAIN t : i \in Nat /\ i + 1 \in DOMAIN q /\ t[i] = q[i + 1]
      /\ \A i \in DOMAIN q : i = 1 \/ i - 1 \in DOMAIN t
      BY TailPositions
<1> HIDE DEF t
<1>2. \A i \in DOMAIN q : i = 1 \/ (i - 1 \in DOMAIN t /\ t[i - 1] = q[i])
      BY <1>1
<1>3. ToSet(q) = {Head(q)} \cup ToSet(t)
      BY <1>1, <1>2 DEF ToSet
<1>4. QED BY <1>3 DEF t

LEMMA AppendSet ==
    ASSUME NEW S, NEW q \in Seq(S), NEW e \in S
    PROVE  ToSet(Append(q, e)) = ToSet(q) \cup {e}
<1>1. QED BY AppendPositions DEF ToSet

\* What is taken from the head of an increasing sequence is below the rest.
LEMMA TailIncreasing ==
    ASSUME NEW q \in Seq(Nat), q # <<>>, Increasing(q)
    PROVE  Increasing(Tail(q)) /\ Before({Head(q)}, ToSet(Tail(q)))
<1> DEFINE t == Tail(q)
<1>1. /\ Head(q) = q[1] /\ 1 \in DOMAIN q
      /\ \A i \in DOMAIN t : i \in Nat /\ i + 1 \in DOMAIN q /\ t[i] = q[i + 1]
      BY TailPositions
<1>2. \A i \in DOMAIN t : 1 < i + 1
  <2>1. DOMAIN t \subseteq Nat \ {0}
        OBVIOUS
  <2> HIDE DEF t
  <2>2. QED BY <2>1
<1> HIDE DEF t
<1>3. Increasing(t)
      BY <1>1 DEF Increasing
<1>4. Before({Head(q)}, ToSet(t))
      BY <1>1, <1>2 DEF Increasing, Before, ToSet
<1>5. QED BY <1>3, <1>4 DEF t

LEMMA AppendIncreasing ==
    ASSUME NEW q \in Seq(Nat), NEW e \in Nat, Increasing(q), Before(ToSet(q), {e})
    PROVE  Increasing(Append(q, e))
<1> DEFINE a == Append(q, e)
<1>1. /\ Len(q) \in Nat
      /\ DOMAIN a = DOMAIN q \cup {Len(q) + 1}
      /\ \A i \in DOMAIN q : i \in Nat /\ i < Len(q) + 1 /\ a[i] = q[i]
      /\ a[Len(q) + 1] = e
      BY AppendPositions
<1> HIDE DEF a
<1>2. \A i \in DOMAIN q : q[i] < e
      BY DEF Before, ToSet
<1>3. Increasing(a)
  <2> SUFFICES ASSUME NEW i \in DOMAIN a, NEW j \in DOMAIN a, i < j
               PROVE  a[i] < a[j]
      BY DEF Increasing
  <2>1. CASE i \in DOMAIN q /\ j \in DOMAIN q
        BY <1>1, <2>1 DEF Increasing
  <2>2. CASE i \in DOMAIN q /\ j = Len(q) + 1
        BY <1>1, <1>2, <2>2
  <2>3. CASE i = Len(q) + 1
        BY <1>1, <2>3
  <2>4. QED BY <1>1, <2>1, <2>2, <2>3
<1>4. QED BY <1>3 DEF a

-----------------------------------------------------------------------------
(* Messages.                                                               *)

IsCandidate(m, ts) == m.event = "new-ice-candidate" /\ m.ts = ts

LEMMA MessageKinds ==
    ASSUME NEW m \in Messages
    PROVE  /\ m.event = "video-offer" => m.ts \in TrackSources
           /\ m.event = "new-ice-candidate" =>
                 /\ m.ts \in TrackSources /\ m.n \in 1..MaxCandidates
                 /\ m = Candidate(m.ts, m.n)
BY DEF Messages, Candidates, Offer, Candidate, Malformed, Unknown

LEMMA ComingTypes ==
    ASSUME NEW q \in Seq(Messages), NEW ts \in TrackSources
    PROVE  /\ Coming(q, ts) \subseteq 1..MaxCandidates
           /\ CandidatesIn(q, ts) \subseteq DOMAIN q /\ DOMAIN q \subseteq Nat
<1>1. \A i \in DOMAIN q : q[i] \in Messages /\ i \in Nat
      OBVIOUS
<1>2. QED BY <1>1, MessageKinds DEF Coming, CandidatesIn

LEMMA ComingAppend ==
    ASSUME NEW q \in Seq(Messages), NEW m \in Messages, NEW ts \in TrackSources,
           InOrder(q, ts)
    PROVE  /\ ~IsCandidate(m, ts) =>
                 /\ Coming(Append(q, m), ts) = Coming(q, ts)
                 /\ InOrder(Append(q, m), ts)
           /\ IsCandidate(m, ts) =>
                 /\ Coming(Append(q, m), ts) = Coming(q, ts) \cup {m.n}
                 /\ Before(Coming(q, ts), {m.n}) => InOrder(Append(q, m), ts)
<1> DEFINE a == Append(q, m)
<1>1. /\ Len(q) \in Nat
      /\ DOMAIN a = DOMAIN q \cup {Len(q) + 1}
      /\ \A i \in DOMAIN q : i \in Nat /\ i < Len(q) + 1 /\ a[i] = q[i]
      /\ a[Len(q) + 1] = m
      BY AppendPositions
<1> HIDE DEF a
<1>2. ASSUME ~IsCandidate(m, ts) PROVE CandidatesIn(a, ts) = CandidatesIn(q, ts)
      BY <1>1, <1>2 DEF CandidatesIn, IsCandidate
<1>3. ASSUME ~IsCandidate(m, ts)
      PROVE  Coming(a, ts) = Coming(q, ts) /\ InOrder(a, ts)
      BY <1>1, <1>2, <1>3 DEF Coming, InOrder, CandidatesIn
<1>4. ASSUME IsCandidate(m, ts)
      PROVE  CandidatesIn(a, ts) = CandidatesIn(q, ts) \cup {Len(q) + 1}
      BY <1>1, <1>4 DEF CandidatesIn, IsCandidate
<1>5. ASSUME IsCandidate(m, ts) PROVE Coming(a, ts) = Coming(q, ts) \cup {m.n}
      BY <1>1, <1>4, <1>5 DEF Coming, CandidatesIn
<1>6. ASSUME IsCandidate(m, ts), Before(Coming(q, ts), {m.n}) PROVE InOrder(a, ts)
  <2> SUFFICES ASSUME NEW i \in CandidatesIn(a, ts), NEW j \in CandidatesIn(a, ts),
                      i < j
               PROVE  a[i].n < a[j].n
      BY DEF InOrder
  <2>1. CASE i \in CandidatesIn(q, ts) /\ j \in CandidatesIn(q, ts)
        BY <1>1, <2>1 DEF InOrder, CandidatesIn
  <2>2. CASE i \in CandidatesIn(q, ts) /\ j = Len(q) + 1
        BY <1>1, <1>6, <2>2 DEF Before, Coming, CandidatesIn
  <2>3. CASE i = Len(q) + 1
        BY <1>1, <2>3 DEF CandidatesIn
  <2>4. QED BY <1>4, <1>6, <2>1, <2>2, <2>3
<1>7. QED BY <1>3, <1>5, <1>6 DEF a

LEMMA ComingTail ==
    ASSUME NEW q \in Seq(Messages), q # <<>>, NEW ts \in TrackSources,
           InOrder(q, ts)
    PROVE  /\ InOrder(Tail(q), ts)
           /\ ~IsCandidate(Head(q), ts) => Coming(Tail(q), ts) = Coming(q, ts)
           /\ IsCandidate(Head(q), ts) =>
                 /\ Coming(q, ts) = {Head(q).n} \cup Coming(Tail(q), ts)
                 /\ Before({Head(q).n}, Coming(Tail(q), ts))
<1> DEFINE t == Tail(q)
<1>1. /\ Head(q) = q[1] /\ 1 \in DOMAIN q /\ DOMAIN q \subseteq Nat \ {0}
      /\ \A i \in DOMAIN t : i \in Nat /\ i + 1 \in DOMAIN q /\ t[i] = q[i + 1]
      /\ \A i \in DOMAIN q : i = 1 \/ i - 1 \in DOMAIN t
      BY TailPositions
<1>2. \A i \in DOMAIN t : 1 < i + 1
  <2>1. DOMAIN t \subseteq Nat \ {0}
        OBVIOUS
  <2> HIDE DEF t
  <2>2. QED BY <2>1
<1> HIDE DEF t
<1>3. \A i \in DOMAIN q : i = 1 \/ (i - 1 \in DOMAIN t /\ t[i - 1] = q[i])
      BY <1>1
<1>4. /\ \A i \in CandidatesIn(t, ts) : /\ i + 1 \in CandidatesIn(q, ts)
                                        /\ q[i + 1] = t[i]
      /\ \A i \in CandidatesIn(q, ts) :
            i = 1 \/ (i - 1 \in CandidatesIn(t, ts) /\ t[i - 1] = q[i])
      /\ 1 \in CandidatesIn(q, ts) <=> IsCandidate(Head(q), ts)
      BY <1>1, <1>3 DEF CandidatesIn, IsCandidate
<1>5. InOrder(t, ts)
  <2> SUFFICES ASSUME NEW i \in CandidatesIn(t, ts), NEW j \in CandidatesIn(t, ts),
                      i < j
               PROVE  t[i].n < t[j].n
      BY DEF InOrder
  <2>1. i \in Nat /\ j \in Nat
        BY <1>1 DEF CandidatesIn
  <2>2. i + 1 < j + 1
        BY <2>1
  <2>3. q[i + 1].n < q[j + 1].n
        BY <1>4, <2>2 DEF InOrder
  <2>4. QED BY <1>4, <2>3
<1>6. ASSUME ~IsCandidate(Head(q), ts) PROVE Coming(t, ts) = Coming(q, ts)
      BY <1>4, <1>6 DEF Coming
<1>7. ASSUME IsCandidate(Head(q), ts)
      PROVE  /\ Coming(q, ts) = {Head(q).n} \cup Coming(t, ts)
             /\ Before({Head(q).n}, Coming(t, ts))
  <2>1. 1 \in CandidatesIn(q, ts)
        BY <1>4, <1>7
  <2>2. Coming(q, ts) = {Head(q).n} \cup Coming(t, ts)
        BY <1>1, <1>4, <2>1 DEF Coming
  <2>3. ASSUME NEW i \in CandidatesIn(t, ts) PROVE Head(q).n < t[i].n
    <3>1. 1 < i + 1 /\ i + 1 \in CandidatesIn(q, ts)
          BY <1>2, <1>4 DEF CandidatesIn
    <3>2. q[1].n < q[i + 1].n
          BY <2>1, <3>1 DEF InOrder
    <3>3. QED BY <1>1, <1>4, <3>2
  <2>4. QED BY <2>2, <2>3 DEF Before, Coming
<1>8. QED BY <1>5, <1>6, <1>7 DEF t

-----------------------------------------------------------------------------
(* Offers.  A reader is started for an offer that was read, so there are no   *)
(* more of them than offers sent; those not yet read count as well.         *)

OffersIn(q) == {i \in DOMAIN q : q[i].event = "video-offer"}

OffersBound == Len(source) + Cardinality(OffersIn(wire)) <= offers

LEMMA OffersFinite ==
    ASSUME NEW q \in Seq(Messages)
    PROVE  IsFiniteSet(OffersIn(q)) /\ Cardinality(OffersIn(q)) \in Nat
<1>1. Len(q) \in Nat /\ DOMAIN q = 1..Len(q)
      OBVIOUS
<1>2. IsFiniteSet(1..Len(q))
      BY <1>1, FS_Interval
<1>3. IsFiniteSet(OffersIn(q))
      BY <1>1, <1>2, FS_Subset DEF OffersIn
<1>4. QED BY <1>3, FS_CardinalityType

LEMMA OffersAppend ==
    ASSUME NEW q \in Seq(Messages), NEW m \in Messages
    PROVE  Cardinality(OffersIn(Append(q, m)))
              = Cardinality(OffersIn(q)) + (IF m.event = "video-offer" THEN 1 ELSE 0)
<1> DEFINE a == Append(q, m)
<1>1. /\ Len(q) \in Nat /\ Len(q) + 1 \notin DOMAIN q
      /\ DOMAIN a = DOMAIN q \cup {Len(q) + 1}
      /\ \A i \in DOMAIN q : a[i] = q[i]
      /\ a[Len(q) + 1] = m
      BY AppendPositions
<1> HIDE DEF a
<1>2. CASE m.event = "video-offer"
  <2>1. OffersIn(a) = OffersIn(q) \cup {Len(q) + 1} /\ Len(q) + 1 \notin OffersIn(q)
        BY <1>1, <1>2 DEF OffersIn
  <2>2. Cardinality(OffersIn(a)) = Cardinality(OffersIn(q)) + 1
        BY <2>1, OffersFinite, FS_AddElement
  <2>3. QED BY <1>2, <2>2 DEF a
<1>3. CASE m.event # "video-offer"
  <2>1. OffersIn(a) = OffersIn(q)
        BY <1>1, <1>3 DEF OffersIn
  <2>2. QED BY <1>3, <2>1, OffersFinite DEF a
<1>4. QED BY <1>2, <1>3

LEMMA OffersTail ==
    ASSUME NEW q \in Seq(Messages), q # <<>>
    PROVE  Cardinality(OffersIn(q))
              = Cardinality(OffersIn(Tail(q)))
                    + (IF Head(q).event = "video-offer" THEN 1 ELSE 0)
<1> DEFINE t == Tail(q)
           rest == OffersIn(q) \ {1}
           f == [i \in OffersIn(t) |-> i + 1]
<1>1. /\ t \in Seq(Messages) /\ Head(q) = q[1] /\ 1 \in DOMAIN q
      /\ \A i \in DOMAIN t : i \in Nat \ {0} /\ i + 1 \in DOMAIN q /\ t[i] = q[i + 1]
      /\ \A i \in DOMAIN q : i = 1 \/ i - 1 \in DOMAIN t
      /\ DOMAIN q \subseteq Nat
  <2>1. DOMAIN t \subseteq Nat \ {0}
        OBVIOUS
  <2>2. QED BY <2>1, TailPositions
<1> HIDE DEF t
<1>2. OffersIn(t) \subseteq Nat \ {0} /\ rest \subseteq Nat
      BY <1>1 DEF OffersIn
<1>3. \A i \in OffersIn(t) : i + 1 \in rest
      BY <1>1 DEF OffersIn
<1>4. \A j \in rest : j - 1 \in OffersIn(t) /\ (j - 1) + 1 = j
  <2>1. \A j \in rest : j - 1 \in DOMAIN t /\ (j - 1) + 1 = j
        BY <1>1, <1>2 DEF OffersIn
  <2>2. QED BY <1>1, <2>1 DEF OffersIn
<1>5. ExistsBijection(OffersIn(t), rest)
  <2>1. f \in [OffersIn(t) -> rest]
        BY <1>3
  <2>2. \A i, j \in OffersIn(t) : f[i] = f[j] => i = j
        BY <1>2
  <2>3. \A j \in rest : \E i \in OffersIn(t) : f[i] = j
        BY <1>4
  <2>4. f \in Bijection(OffersIn(t), rest)
        BY <2>1, <2>2, <2>3 DEF Bijection, Injection, Surjection, IsInjective
  <2>5. QED BY <2>4 DEF ExistsBijection
<1>6. Cardinality(rest) = Cardinality(OffersIn(t))
      BY <1>1, <1>5, OffersFinite, FS_Bijection
<1>7. Cardinality(OffersIn(q))
          = Cardinality(rest) + (IF 1 \in OffersIn(q) THEN 1 ELSE 0)
  <2>1. IsFiniteSet(OffersIn(q)) /\ Cardinality(OffersIn(q)) \in Nat
        BY OffersFinite
  <2>2. Cardinality(rest) = IF 1 \in OffersIn(q) THEN Cardinality(OffersIn(q)) - 1
                                                 ELSE Cardinality(OffersIn(q))
        BY <2>1, FS_RemoveElement
  <2>3. QED BY <2>1, <2>2
<1>8. 1 \in OffersIn(q) <=> Head(q).event = "video-offer"
      BY <1>1 DEF OffersIn
<1>9. QED BY <1>6, <1>7, <1>8 DEF t

-----------------------------------------------------------------------------
(* Type correctness.                                                       *)

TypeInv == TypeOK /\ OffersBound

LEMMA TypeInitially == Init => TypeInv
<1> SUFFICES ASSUME Init PROVE TypeInv
    OBVIOUS
<1>1. /\ wire \in Seq(Messages) /\ source \in Seq(TrackSources)
      /\ held \in Seq(Candidates)
      /\ Len(held) = 0 /\ Len(source) = 0
      BY DEF Init
<1>2. /\ channel \in [TrackSources -> Seq(1..MaxCandidates)]
      /\ \A ts \in TrackSources : Len(channel[ts]) <= CandidateCap
      BY DEF Init, CandidateCap
<1>3. taken \in [Readers -> Seq(1..MaxCandidates)]
      BY DEF Init
<1>4. /\ offers \in 0..MaxOffers /\ others \in 0..MaxOther
      /\ count \in [TrackSources -> 0..MaxCandidates]
      BY SocketAssumption DEF Init
<1>5. OffersBound
  <2>1. OffersIn(wire) = {}
        BY DEF Init, OffersIn
  <2>2. Cardinality(OffersIn(wire)) = 0
        BY <2>1, FS_EmptySet
  <2>3. offers = 0
        BY DEF Init
  <2>4. QED BY <1>1, <2>2, <2>3 DEF OffersBound
<1>6. /\ registered \subseteq TrackSources /\ offered \subseteq TrackSources
      /\ loop = "read" /\ closed \in BOOLEAN
      /\ running \subseteq 1..Len(source)
      BY DEF Init
<1>7. Len(source) <= MaxOffers
      BY <1>1, SocketAssumption
<1>8. QED BY <1>1, <1>2, <1>3, <1>4, <1>5, <1>6, <1>7 DEF TypeInv, TypeOK

\* The message the loop reads is one of the client's.
LEMMA ReadTypes ==
    ASSUME TypeOK, NEW e, Read(e)
    PROVE  /\ Head(wire) \in Messages /\ Head(wire).event = e
           /\ wire' = Tail(wire) /\ wire' \in Seq(Messages) /\ wire # <<>>
           /\ loop = "read" /\ held = <<>>
<1>1. held = <<>>
      BY DEF TypeOK, Read
<1>2. QED BY <1>1, TailPositions DEF TypeOK, Read

\* A message is added by the client or taken away by the loop.
LEMMA WireStep ==
    ASSUME TypeInv, [Next]_vars
    PROVE  /\ wire' \in Seq(Messages)
           /\ offers' \in 0..MaxOffers
           /\ source' \in Seq(TrackSources)
           /\ OffersBound'
<1>1. /\ wire \in Seq(Messages) /\ source \in Seq(TrackSources)
      /\ Len(source) \in Nat /\ offers \in 0..MaxOffers
      /\ Cardinality(OffersIn(wire)) \in Nat
      /\ Len(source) + Cardinality(OffersIn(wire)) <= offers
      BY OffersFinite DEF TypeInv, TypeOK, OffersBound
<1>2. ASSUME UNCHANGED <<wire, source, offers>>
      PROVE  /\ wire' \in Seq(Messages) /\ offers' \in 0..MaxOffers
             /\ source' \in Seq(TrackSources) /\ OffersBound'
      BY <1>1, <1>2 DEF OffersBound, OffersIn
<1>3. ASSUME NEW m \in Messages, wire' = Append(wire, m), source' = source,
             offers' = IF m.event = "video-offer" THEN offers + 1 ELSE offers,
             m.event = "video-offer" => offers < MaxOffers
      PROVE  /\ wire' \in Seq(Messages) /\ offers' \in 0..MaxOffers
             /\ source' \in Seq(TrackSources) /\ OffersBound'
  <2>1. Cardinality(OffersIn(Append(wire, m)))
            = Cardinality(OffersIn(wire))
                  + (IF m.event = "video-offer" THEN 1 ELSE 0)
        BY <1>1, OffersAppend
  <2>2. OffersBound'
    <3>1. OffersIn(wire)' = OffersIn(Append(wire, m))
          BY <1>3 DEF OffersIn
    <3>2. /\ m.event = "video-offer" => offers' = offers + 1
          /\ m.event # "video-offer" => offers' = offers
          BY <1>3
    <3>3. Cardinality(OffersIn(wire))' = Cardinality(OffersIn(Append(wire, m)))
          BY <3>1
    <3>4. QED BY <1>1, <1>3, <2>1, <3>2, <3>3 DEF OffersBound
  <2>3. wire' \in Seq(Messages)
        BY <1>1, <1>3
  <2>4. offers' \in 0..MaxOffers
        BY <1>1, <1>3, SocketAssumption
  <2>5. QED BY <1>1, <1>3, <2>2, <2>3, <2>4
<1>4. ASSUME NEW e, Read(e), offers' = offers,
             \/ source' = source
             \/ /\ e = "video-offer"
                /\ \E ts \in TrackSources : source' = Append(source, ts)
      PROVE  /\ wire' \in Seq(Messages) /\ offers' \in 0..MaxOffers
             /\ source' \in Seq(TrackSources) /\ OffersBound'
  <2>1. /\ wire' = Tail(wire) /\ wire' \in Seq(Messages) /\ wire # <<>>
        /\ Head(wire).event = e
        BY <1>4, ReadTypes DEF TypeInv
  <2>2. Cardinality(OffersIn(wire))
            = Cardinality(OffersIn(Tail(wire)))
                  + (IF e = "video-offer" THEN 1 ELSE 0)
        BY <1>1, <2>1, OffersTail
  <2>3. /\ Cardinality(OffersIn(Tail(wire))) \in Nat
        BY <2>1, OffersFinite
  <2>4. /\ source' \in Seq(TrackSources) /\ Len(source') \in Nat
        /\ Len(source') <= Len(source) + (IF e = "video-offer" THEN 1 ELSE 0)
    <3>1. CASE source' = source
          BY <1>1, <3>1
    <3>2. ASSUME NEW ts \in TrackSources, source' = Append(source, ts),
                 e = "video-offer"
          PROVE  /\ source' \in Seq(TrackSources)
                 /\ Len(source') = Len(source) + 1
          BY <1>1, <3>2
    <3>3. QED BY <1>1, <1>4, <3>1, <3>2
  <2>5. OffersBound'
    <3>1. Cardinality(OffersIn(wire))' = Cardinality(OffersIn(Tail(wire)))
      <4>1. OffersIn(wire)' = OffersIn(Tail(wire))
            BY <2>1 DEF OffersIn
      <4>2. QED BY <4>1
    <3>2. QED BY <1>1, <1>4, <2>2, <2>3, <2>4, <3>1 DEF OffersBound
  <2>6. QED BY <1>1, <1>4, <2>1, <2>4, <2>5
<1>5. ASSUME NEW ts \in TrackSources, ClientOffers(ts)
      PROVE  /\ wire' \in Seq(Messages) /\ offers' \in 0..MaxOffers
             /\ source' \in Seq(TrackSources) /\ OffersBound'
  <2>1. Offer(ts) \in Messages /\ Offer(ts).event = "video-offer"
        BY DEF Messages, Offer
  <2>2. QED BY <1>3, <1>5, <2>1 DEF ClientOffers, readerVars
<1>6. ASSUME NEW ts \in TrackSources, ClientTrickles(ts)
      PROVE  /\ wire' \in Seq(Messages) /\ offers' \in 0..MaxOffers
             /\ source' \in Seq(TrackSources) /\ OffersBound'
  <2>1. count[ts] + 1 \in 1..MaxCandidates
        BY <1>6, SocketAssumption DEF ClientTrickles, TypeInv, TypeOK
  <2>2. /\ Candidate(ts, count[ts] + 1) \in Messages
        /\ Candidate(ts, count[ts] + 1).event # "video-offer"
        BY <2>1 DEF Messages, Candidates, Candidate
  <2>3. QED BY <1>3, <1>6, <2>2 DEF ClientTrickles, readerVars
<1>7. ASSUME NEW m \in {Malformed, Unknown}, ClientSendsOther(m)
      PROVE  /\ wire' \in Seq(Messages) /\ offers' \in 0..MaxOffers
             /\ source' \in Seq(TrackSources) /\ OffersBound'
  <2>1. m \in Messages /\ m.event # "video-offer"
        BY DEF Messages, Malformed, Unknown
  <2>2. QED BY <1>3, <1>7, <2>1 DEF ClientSendsOther, readerVars
<1>8. CASE ReadOffer
  <2>1. Read("video-offer") /\ offers' = offers
        BY <1>8 DEF ReadOffer
  <2>2. Head(wire).ts \in TrackSources
        BY <2>1, ReadTypes, MessageKinds DEF TypeInv
  <2>3. source' = source \/ source' = Append(source, Head(wire).ts)
        BY <1>8 DEF ReadOffer, StartReader
  <2>4. QED BY <1>4, <2>1, <2>2, <2>3
<1>9. CASE ReadCandidate \/ ReadMalformed \/ ReadUnknown
      BY <1>4, <1>9 DEF ReadCandidate, ReadMalformed, ReadUnknown, readerVars
<1>10. CASE \/ PutCandidate \/ ReadFails \/ UNCHANGED vars
            \/ \E ts \in TrackSources : Register(ts)
            \/ \E r \in Readers : Take(r) \/ End(r)
      BY <1>2, <1>10 DEF PutCandidate, ReadFails, Register, Take, End, vars,
                      clientVars, readerVars
<1>11. QED BY <1>5, <1>6, <1>7, <1>8, <1>9, <1>10 DEF Next, Client, Loop

\* What a reader takes leaves the channel, and what is put into it fits.
LEMMA ChannelStep ==
    ASSUME TypeInv, [Next]_vars
    PROVE  /\ channel' \in [TrackSources -> Seq(1..MaxCandidates)]
           /\ \A ts \in TrackSources : Len(channel'[ts]) <= CandidateCap
           /\ taken' \in [Readers -> Seq(1..MaxCandidates)]
<1>1. /\ channel \in [TrackSources -> Seq(1..MaxCandidates)]
      /\ \A ts \in TrackSources : Len(channel[ts]) <= CandidateCap
      /\ taken \in [Readers -> Seq(1..MaxCandidates)]
      /\ CandidateCap \in Nat
      BY DEF TypeInv, TypeOK, CandidateCap
<1>2. CASE UNCHANGED <<channel, taken>>
      BY <1>1, <1>2
<1>3. CASE PutCandidate
  <2> DEFINE h == held[1]
  <2>1. h.ts \in TrackSources /\ h.n \in 1..MaxCandidates
    <3>1. held \in Seq(Candidates) /\ Len(held) = 1
          BY <1>3 DEF PutCandidate, TypeInv, TypeOK
    <3>2. h \in Candidates
          BY <3>1
    <3>3. QED BY <3>2 DEF Candidates, Candidate
  <2>2. /\ Len(channel[h.ts]) < CandidateCap /\ UNCHANGED taken
        /\ channel' = [channel EXCEPT ![h.ts] = Append(@, h.n)]
        BY <1>3 DEF PutCandidate, readerVars
  <2> HIDE DEF h
  <2>3. /\ Append(channel[h.ts], h.n) \in Seq(1..MaxCandidates)
        /\ Len(Append(channel[h.ts], h.n)) = Len(channel[h.ts]) + 1
        /\ Len(channel[h.ts]) \in Nat
        BY <1>1, <2>1
  <2>4. QED BY <1>1, <2>1, <2>2, <2>3
<1>4. ASSUME NEW r \in Readers, Take(r)
      PROVE  /\ channel' \in [TrackSources -> Seq(1..MaxCandidates)]
             /\ \A ts \in TrackSources : Len(channel'[ts]) <= CandidateCap
             /\ taken' \in [Readers -> Seq(1..MaxCandidates)]
  <2> DEFINE s == source[r]
             q == channel[s]
  <2>1. s \in TrackSources
        BY <1>4 DEF Take, TypeInv, TypeOK
  <2>2. /\ q # <<>>
        /\ channel' = [channel EXCEPT ![s] = Tail(@)]
        /\ taken' = [taken EXCEPT ![r] = Append(@, Head(q))]
        BY <1>4 DEF Take
  <2> HIDE DEF s
  <2>3. /\ Tail(q) \in Seq(1..MaxCandidates) /\ Len(Tail(q)) <= Len(q)
        /\ Head(q) \in 1..MaxCandidates
    <3>1. q \in Seq(1..MaxCandidates)
          BY <1>1, <2>1
    <3>2. q # <<>>
          BY <2>2
    <3> HIDE DEF q
    <3>3. /\ Tail(q) \in Seq(1..MaxCandidates) /\ Head(q) \in 1..MaxCandidates
          /\ Len(q) \in Nat /\ Len(Tail(q)) = Len(q) - 1
          BY <3>1, <3>2, TailPositions
    <3>4. QED BY <3>3
  <2>4. Append(taken[r], Head(q)) \in Seq(1..MaxCandidates)
        BY <1>1, <2>3
  <2>5. \A ts \in TrackSources : Len(channel'[ts]) <= CandidateCap
    <3> SUFFICES ASSUME NEW ts \in TrackSources
                 PROVE  Len(channel'[ts]) <= CandidateCap
        OBVIOUS
    <3>1. CASE ts = s
      <4>1. channel'[ts] = Tail(q)
            BY <1>1, <2>1, <2>2, <3>1
      <4>2. Len(q) <= CandidateCap /\ Len(q) \in Nat /\ Len(Tail(q)) \in Nat
            BY <1>1, <2>1, <2>3
      <4>3. QED BY <1>1, <2>3, <4>1, <4>2
    <3>2. CASE ts # s
          BY <1>1, <2>1, <2>2, <3>2
    <3>3. QED BY <3>1, <3>2
  <2>6. QED BY <1>1, <2>1, <2>2, <2>3, <2>4, <2>5
<1>5. QED BY <1>2, <1>3, <1>4
      DEF Next, Client, Loop, Register, ClientOffers, ClientTrickles,
          ClientSendsOther, ReadOffer, ReadCandidate, ReadMalformed,
          ReadUnknown, ReadFails, End, vars, readerVars

LEMMA TypeStep == TypeInv /\ [Next]_vars => TypeInv'
<1> SUFFICES ASSUME TypeInv, [Next]_vars PROVE TypeInv'
    OBVIOUS
<1>1. /\ wire' \in Seq(Messages) /\ offers' \in 0..MaxOffers
      /\ source' \in Seq(TrackSources) /\ OffersBound'
      BY WireStep
<1>2. /\ channel' \in [TrackSources -> Seq(1..MaxCandidates)]
      /\ \A ts \in TrackSources : Len(channel'[ts]) <= CandidateCap
      /\ taken' \in [Readers -> Seq(1..MaxCandidates)]
      BY ChannelStep
<1>3. Len(source') <= MaxOffers
  <2>1. /\ Cardinality(OffersIn(wire))' \in Nat
        /\ Len(source') \in Nat /\ offers' <= MaxOffers /\ offers' \in Nat
    <3>1. OffersIn(wire)' = OffersIn(wire')
          BY DEF OffersIn
    <3>2. Cardinality(OffersIn(wire')) \in Nat
          BY <1>1, OffersFinite
    <3>3. Cardinality(OffersIn(wire))' \in Nat
          BY <3>1, <3>2
    <3>4. QED BY <1>1, <3>3, SocketAssumption
  <2>2. Len(source') + Cardinality(OffersIn(wire))' <= offers'
        BY <1>1 DEF OffersBound
  <2>3. QED BY <2>1, <2>2, SocketAssumption
<1>4. /\ registered' \subseteq TrackSources /\ offered' \subseteq TrackSources
      /\ others' \in 0..MaxOther /\ closed' \in BOOLEAN
      /\ count' \in [TrackSources -> 0..MaxCandidates]
  <2>1. /\ registered \subseteq TrackSources /\ offered \subseteq TrackSources
        /\ others \in 0..MaxOther /\ closed \in BOOLEAN
        /\ count \in [TrackSources -> 0..MaxCandidates]
        BY DEF TypeInv, TypeOK
  <2>2. ASSUME NEW ts \in TrackSources, Register(ts) \/ ClientOffers(ts)
        PROVE  /\ registered' \subseteq TrackSources
               /\ offered' \subseteq TrackSources
               /\ UNCHANGED <<others, closed, count>>
        BY <2>1, <2>2 DEF Register, ClientOffers, clientVars
  <2>3. ASSUME NEW ts \in TrackSources, ClientTrickles(ts)
        PROVE  /\ count' \in [TrackSources -> 0..MaxCandidates]
               /\ UNCHANGED <<registered, offered, others, closed>>
        BY <2>1, <2>3, SocketAssumption DEF ClientTrickles
  <2>4. ASSUME NEW m, ClientSendsOther(m)
        PROVE  /\ others' \in 0..MaxOther
               /\ UNCHANGED <<registered, offered, count, closed>>
        BY <2>1, <2>4, SocketAssumption DEF ClientSendsOther
  <2>5. CASE \/ Loop \/ ReadFails \/ UNCHANGED vars
             \/ \E r \in Readers : Take(r) \/ End(r)
    <3>1. UNCHANGED <<registered, offered, others, count>>
          BY <2>5 DEF Loop, ReadOffer, ReadCandidate, PutCandidate,
                ReadMalformed, ReadUnknown, ReadFails, Take, End, vars, clientVars
    <3>2. closed' = closed \/ closed' = TRUE
          BY <2>5 DEF Loop, ReadOffer, ReadCandidate, PutCandidate,
                ReadMalformed, ReadUnknown, ReadFails, Return, Take, End, vars
    <3>3. closed' \in BOOLEAN
          BY <2>1, <3>2, Zenon
    <3>4. QED BY <2>1, <3>1, <3>3
  <2>6. QED BY <2>1, <2>2, <2>3, <2>4, <2>5 DEF Next, Client
<1>5. /\ loop' \in {"read", "put", "over"}
      /\ held' \in Seq(Candidates)
      /\ Len(held') = IF loop' = "put" THEN 1 ELSE 0
  <2>1. /\ loop \in {"read", "put", "over"} /\ held \in Seq(Candidates)
        /\ Len(held) = IF loop = "put" THEN 1 ELSE 0
        BY DEF TypeInv, TypeOK
  <2>2. CASE UNCHANGED <<loop, held>>
        BY <2>1, <2>2
  <2>3. CASE loop = "read" /\ loop' = "over" /\ held' = held
        BY <2>1, <2>3
  <2>4. CASE PutCandidate
        BY <2>4 DEF PutCandidate
  <2>5. CASE ReadCandidate /\ loop' = "put"
    <3>1. Head(wire) \in Messages /\ Head(wire).event = "new-ice-candidate"
          BY <2>5, ReadTypes DEF ReadCandidate, TypeInv
    <3>2. Head(wire) \in Candidates
          BY <3>1, MessageKinds DEF Candidates
    <3>3. held' = <<Head(wire)>>
          BY <2>5 DEF ReadCandidate, Return
    <3>4. held' \in Seq(Candidates) /\ Len(held') = 1
          BY <3>2, <3>3
    <3>5. loop' = "put"
          BY <2>5
    <3>6. QED BY <3>4, <3>5
  <2>6. QED BY <2>2, <2>3, <2>4, <2>5
        DEF Next, Client, Loop, Register, ClientOffers, ClientTrickles,
            ClientSendsOther, ReadOffer, ReadCandidate, ReadMalformed, Read,
            ReadUnknown, ReadFails, Return, Take, End, vars
<1>6. running' \subseteq 1..Len(source')
  <2>1. running \subseteq 1..Len(source) /\ source \in Seq(TrackSources)
        BY DEF TypeInv, TypeOK
  <2>2. CASE UNCHANGED <<running, source>>
        BY <2>1, <2>2
  <2>3. ASSUME NEW ts \in TrackSources, StartReader(ts)
        PROVE  running' \subseteq 1..Len(source')
    <3>1. /\ source' = Append(source, ts)
          /\ running' = running \cup {Len(source')}
          BY <2>3 DEF StartReader
    <3>2. Len(source) \in Nat /\ Len(source') = Len(source) + 1
          BY <2>1, <3>1
    <3>3. /\ 1..Len(source) \subseteq 1..Len(source')
          /\ Len(source') \in 1..Len(source')
          BY <3>2
    <3>4. QED BY <2>1, <3>1, <3>3
  <2>4. CASE ReadOffer
    <3>1. Head(wire).ts \in TrackSources
          BY <2>4, ReadTypes, MessageKinds DEF ReadOffer, TypeInv
    <3>2. QED BY <2>2, <2>3, <2>4, <3>1 DEF ReadOffer
  <2>5. ASSUME NEW r \in Readers, End(r)
        PROVE  running' \subseteq 1..Len(source')
        BY <2>1, <2>5 DEF End
  <2>6. CASE ReadCandidate \/ PutCandidate \/ ReadMalformed \/ ReadUnknown
        BY <2>2, <2>6 DEF ReadCandidate, PutCandidate, ReadMalformed, ReadUnknown,
              readerVars
  <2>7. CASE Client
        BY <2>2, <2>7 DEF Client, ClientOffers, ClientTrickles,
              ClientSendsOther, readerVars
  <2>8. CASE \/ \E ts \in TrackSources : Register(ts)
             \/ \E r \in Readers : Take(r)
             \/ ReadFails \/ UNCHANGED vars
        BY <2>2, <2>8 DEF Register, ReadFails, Take, vars, readerVars
  <2>9. QED BY <2>4, <2>5, <2>6, <2>7, <2>8 DEF Next, Loop
<1>7. TypeOK'
      BY <1>1, <1>2, <1>3, <1>4, <1>5, <1>6 DEF TypeOK
<1>8. QED BY <1>1, <1>7 DEF TypeInv

LEMMA TypeInvariance == Spec => []TypeInv
<1>1. QED BY TypeInitially, TypeStep, PTL DEF Spec

\* Every reachable state is well typed: no channel holds more than two
\* candidates, and there are no more readers than offers.
THEOREM TypeCorrect == Spec => []TypeOK
<1>1. TypeInv => TypeOK
      BY DEF TypeInv
<1>2. QED BY <1>1, TypeInvariance, PTL

-----------------------------------------------------------------------------
(* The way of the candidates of one track source: those taken, those in the  *)
(* channel, those not dealt with.                                          *)

Split(gone, q, u, n, ts) ==
    /\ gone \cup ToSet(q) \cup Coming(u, ts) = 1..n
    /\ Before(gone, ToSet(q) \cup Coming(u, ts))
    /\ Before(ToSet(q), Coming(u, ts))
    /\ InOrder(u, ts) /\ Increasing(q)

Shared(tk, R) ==
    /\ \A r \in R : Increasing(tk[r])
    /\ \A r, s \in R : r # s => ToSet(tk[r]) \cap ToSet(tk[s]) = {}

LEMMA SplitAppend ==
    ASSUME NEW u \in Seq(Messages), NEW m \in Messages, NEW ts \in TrackSources,
           NEW gone, NEW q \in Seq(Nat), NEW n \in Nat,
           Split(gone, q, u, n, ts)
    PROVE  /\ ~IsCandidate(m, ts) => Split(gone, q, Append(u, m), n, ts)
           /\ IsCandidate(m, ts) /\ m.n = n + 1
                 => Split(gone, q, Append(u, m), n + 1, ts)
<1>1. InOrder(u, ts)
      BY DEF Split
<1>2. CASE ~IsCandidate(m, ts)
      BY <1>1, <1>2, ComingAppend DEF Split
<1>3. CASE IsCandidate(m, ts) /\ m.n = n + 1
  <2>1. \A k \in gone \cup ToSet(q) \cup Coming(u, ts) : k < n + 1
        BY DEF Split
  <2>2. Before(Coming(u, ts), {m.n})
        BY <1>3, <2>1 DEF Before
  <2>3. /\ Coming(Append(u, m), ts) = Coming(u, ts) \cup {n + 1}
        /\ InOrder(Append(u, m), ts)
    <3>1. IsCandidate(m, ts) /\ m.n = n + 1
          BY <1>3
    <3>2. /\ Coming(Append(u, m), ts) = Coming(u, ts) \cup {m.n}
          /\ InOrder(Append(u, m), ts)
          BY <1>1, <2>2, <3>1, ComingAppend, Zenon
    <3>3. QED BY <3>1, <3>2
  <2>4. gone \cup ToSet(q) \cup Coming(Append(u, m), ts) = 1..(n + 1)
    <3>1. gone \cup ToSet(q) \cup Coming(u, ts) = 1..n
          BY DEF Split
    <3>2. 1..(n + 1) = 1..n \cup {n + 1}
          OBVIOUS
    <3>3. QED BY <2>3, <3>1, <3>2
  <2>5. /\ Before(gone, ToSet(q) \cup Coming(Append(u, m), ts))
        /\ Before(ToSet(q), Coming(Append(u, m), ts))
        BY <2>1, <2>3 DEF Before, Split
  <2>6. QED BY <1>3, <2>3, <2>4, <2>5 DEF Split
<1>4. QED BY <1>2, <1>3

LEMMA SplitSkip ==
    ASSUME NEW u \in Seq(Messages), u # <<>>, NEW ts \in TrackSources,
           NEW gone, NEW q, NEW n,
           Split(gone, q, u, n, ts), ~IsCandidate(Head(u), ts)
    PROVE  Split(gone, q, Tail(u), n, ts)
BY ComingTail DEF Split

LEMMA SplitPut ==
    ASSUME NEW u \in Seq(Messages), u # <<>>, NEW ts \in TrackSources,
           NEW gone, NEW q \in Seq(Nat), NEW n,
           Split(gone, q, u, n, ts), IsCandidate(Head(u), ts), Head(u).n \in Nat
    PROVE  Split(gone, Append(q, Head(u).n), Tail(u), n, ts)
<1> DEFINE e == Head(u).n
<1>1. /\ Coming(u, ts) = {e} \cup Coming(Tail(u), ts)
      /\ Before({e}, Coming(Tail(u), ts)) /\ InOrder(Tail(u), ts)
      BY ComingTail DEF Split
<1>2. ToSet(Append(q, e)) = ToSet(q) \cup {e}
      BY AppendSet
<1>3. Before(ToSet(q), {e})
      BY <1>1 DEF Split, Before
<1>4. Increasing(Append(q, e))
      BY <1>3, AppendIncreasing DEF Split
<1> HIDE DEF e
<1>5. Before(ToSet(Append(q, e)), Coming(Tail(u), ts))
      BY <1>1, <1>2 DEF Split, Before
<1>6. ToSet(Append(q, e)) \cup Coming(Tail(u), ts) = ToSet(q) \cup Coming(u, ts)
      BY <1>1, <1>2
<1>7. Split(gone, Append(q, e), Tail(u), n, ts)
      BY <1>1, <1>4, <1>5, <1>6 DEF Split
<1>8. QED BY <1>7 DEF e

LEMMA SplitTake ==
    ASSUME NEW u, NEW ts, NEW gone, NEW q \in Seq(Nat), q # <<>>, NEW n,
           Split(gone, q, u, n, ts)
    PROVE  /\ Split(gone \cup {Head(q)}, Tail(q), u, n, ts)
           /\ Before(gone, {Head(q)})
<1> DEFINE e == Head(q)
           t == Tail(q)
<1>1. ToSet(q) = {e} \cup ToSet(t)
      BY TailSet
<1>2. Increasing(t) /\ Before({e}, ToSet(t))
      BY TailIncreasing DEF Split
<1> HIDE DEF e, t
<1>3. (gone \cup {e}) \cup ToSet(t) = gone \cup ToSet(q)
      BY <1>1
<1>4. /\ Before(gone \cup {e}, ToSet(t) \cup Coming(u, ts))
      /\ Before(ToSet(t), Coming(u, ts)) /\ Before(gone, {e})
      BY <1>1, <1>2 DEF Split, Before
<1>5. Split(gone \cup {e}, t, u, n, ts) /\ Before(gone, {e})
      BY <1>2, <1>3, <1>4 DEF Split
<1>6. QED BY <1>5 DEF e, t

-----------------------------------------------------------------------------
(* What the loop has not dealt with.                                       *)

LEMMA UndealtTypes ==
    ASSUME TypeOK
    PROVE  /\ Undealt \in Seq(Messages)
           /\ \A m \in Messages : held \o Append(wire, m) = Append(Undealt, m)
           /\ held = <<>> => Undealt = wire
<1>1. held \in Seq(Candidates) /\ wire \in Seq(Messages)
      BY DEF TypeOK
<1>2. held \in Seq(Messages)
  <2>1. Candidates \subseteq Messages
        BY DEF Messages
  <2>2. QED BY <1>1, <2>1
<1>3. Undealt \in Seq(Messages)
      BY <1>1, <1>2 DEF Undealt
<1>4. ASSUME NEW m \in Messages
      PROVE  held \o Append(wire, m) = Append(Undealt, m)
  <2>1. QED BY <1>1, <1>2 DEF Undealt
<1>5. held = <<>> => Undealt = wire
      BY <1>1 DEF Undealt
<1>6. QED BY <1>3, <1>4, <1>5

\* The candidate the loop sends on a channel is the first it has not dealt with.
LEMMA UndealtPut ==
    ASSUME TypeOK, loop = "put"
    PROVE  /\ Undealt # <<>> /\ Head(Undealt) = held[1] /\ Tail(Undealt) = wire
           /\ held[1] \in Candidates
<1>1. held \in Seq(Candidates) /\ wire \in Seq(Messages) /\ Len(held) = 1
      BY DEF TypeOK
<1>2. held[1] \in Candidates /\ held = <<held[1]>>
      BY <1>1, Singleton
<1> DEFINE h == held[1]
<1> HIDE DEF h
<1>3. held = <<h>> /\ h \in Candidates
      BY <1>2 DEF h
<1>4. h \in Messages
      BY <1>3 DEF Messages
<1>5. Undealt # <<>> /\ Head(Undealt) = h /\ Tail(Undealt) = wire
      BY <1>1, <1>3, <1>4 DEF Undealt
<1>6. QED BY <1>3, <1>5 DEF h

-----------------------------------------------------------------------------
(* The candidates are kept.                                                *)

KeptFor(ts) ==
    /\ Split(Taken(ts), channel[ts], Undealt, count[ts], ts)
    /\ Shared(taken, ReadersOf(ts))

\* A reader that does not run yet has taken nothing.
Fresh == \A r \in Readers : r \notin DOMAIN source => taken[r] = <<>>

KeptInv == TypeInv /\ Fresh /\ CandidatesKept

LEMMA KeptInitially == Init => KeptInv
<1> SUFFICES ASSUME Init PROVE KeptInv
    OBVIOUS
<1>1. Fresh
      BY DEF Init, Fresh
<1>2. ASSUME NEW ts \in TrackSources
      PROVE  /\ Taken(ts) = {} /\ ReadersOf(ts) = {} /\ count[ts] = 0
             /\ channel[ts] = <<>> /\ Undealt = <<>>
  <2>1. ReadersOf(ts) = {}
        BY DEF Init, ReadersOf
  <2>2. Taken(ts) = {}
        BY <2>1 DEF Taken
  <2>3. held = <<>> /\ wire = <<>>
        BY DEF Init
  <2>4. QED BY <2>1, <2>2, <2>3 DEF Init, Undealt
<1>3. ASSUME NEW ts \in TrackSources
      PROVE  /\ Coming(<<>>, ts) = {} /\ InOrder(<<>>, ts)
             /\ ToSet(<<>>) = {} /\ Increasing(<<>>)
      BY DEF Coming, CandidatesIn, InOrder, ToSet, Increasing
<1>4. CandidatesKept
  <2> SUFFICES ASSUME NEW ts \in TrackSources
               PROVE  /\ Split(Taken(ts), channel[ts], Undealt, count[ts], ts)
                      /\ Shared(taken, ReadersOf(ts))
      BY DEF CandidatesKept, Split, Shared
  <2>1. 1..0 = {}
        OBVIOUS
  <2>2. Split({}, <<>>, <<>>, 0, ts)
        BY <1>3, <2>1 DEF Split, Before
  <2>3. QED BY <1>2, <2>2 DEF Shared
<1>5. QED BY <1>1, <1>4, TypeInitially DEF KeptInv

LEMMA FreshStep == TypeInv /\ Fresh /\ [Next]_vars => Fresh'
<1> SUFFICES ASSUME TypeInv, Fresh, [Next]_vars,
                    NEW r \in Readers, r \notin DOMAIN source'
             PROVE  taken'[r] = <<>>
    BY DEF Fresh
<1>1. source \in Seq(TrackSources) /\ taken \in [Readers -> Seq(1..MaxCandidates)]
      BY DEF TypeInv, TypeOK
<1>2. CASE UNCHANGED <<source, taken>>
      BY <1>2 DEF Fresh
<1>3. CASE ReadOffer
  <2>1. taken' = taken /\ DOMAIN source \subseteq DOMAIN source'
    <3>1. Head(wire).ts \in TrackSources
          BY <1>3, ReadTypes, MessageKinds DEF ReadOffer, TypeInv
    <3>2. DOMAIN source \subseteq DOMAIN Append(source, Head(wire).ts)
          BY <1>1, <3>1, AppendPositions
    <3>3. QED BY <1>3, <3>2 DEF ReadOffer, StartReader
  <2>2. QED BY <2>1 DEF Fresh
<1>4. ASSUME NEW p \in Readers, Take(p) PROVE taken'[r] = <<>>
  <2>1. p \in DOMAIN source /\ source' = source
        BY <1>1, <1>4 DEF Take, TypeInv, TypeOK
  <2>2. p # r
        BY <2>1
  <2>3. taken'[r] = taken[r]
        BY <1>1, <1>4, <2>2 DEF Take
  <2>4. QED BY <2>1, <2>3 DEF Fresh
<1>5. QED BY <1>2, <1>3, <1>4
      DEF Next, Client, Loop, Register, ClientOffers, ClientTrickles,
          ClientSendsOther, ReadCandidate, PutCandidate, ReadMalformed,
          ReadUnknown, ReadFails, End, vars, readerVars

LEMMA KeptStep == KeptInv /\ [Next]_vars => CandidatesKept'
<1> SUFFICES ASSUME KeptInv, [Next]_vars, loop' # "over", NEW ts \in TrackSources
             PROVE  KeptFor(ts)'
    BY DEF CandidatesKept, KeptFor, Split, Shared
<1>1. loop # "over"
      BY DEF Next, Client, Loop, Register, ClientOffers, ClientTrickles,
          ClientSendsOther, ReadOffer, ReadCandidate, PutCandidate,
          ReadMalformed, ReadUnknown, ReadFails, Read, Return, Take, End, vars
<1>2. /\ Split(Taken(ts), channel[ts], Undealt, count[ts], ts)
      /\ Shared(taken, ReadersOf(ts))
      BY <1>1 DEF KeptInv, CandidatesKept, Split, Shared
<1>3. TypeOK /\ OffersBound
      BY DEF KeptInv, TypeInv
<1>4. /\ wire \in Seq(Messages) /\ Undealt \in Seq(Messages)
      /\ source \in Seq(TrackSources)
      /\ count \in [TrackSources -> 0..MaxCandidates] /\ count[ts] \in Nat
      /\ channel \in [TrackSources -> Seq(1..MaxCandidates)]
      /\ channel[ts] \in Seq(1..MaxCandidates)
      /\ taken \in [Readers -> Seq(1..MaxCandidates)]
  <2>1. count[ts] \in 0..MaxCandidates
        BY <1>3 DEF TypeOK
  <2>2. count[ts] \in Nat
        BY <2>1, SocketAssumption
  <2>3. QED BY <1>3, <2>2, UndealtTypes DEF TypeOK
<1>5. channel[ts] \in Seq(Nat)
      BY <1>4, NatSequence
<1>6. ASSUME UNCHANGED <<source, taken>>
      PROVE  Taken(ts)' = Taken(ts) /\ Shared(taken, ReadersOf(ts))'
      BY <1>2, <1>6 DEF Taken, ReadersOf, Shared
<1>7. ASSUME UNCHANGED <<source, taken, channel, count>>, NEW u, Undealt' = u,
             Split(Taken(ts), channel[ts], u, count[ts], ts)
      PROVE  KeptFor(ts)'
  <2>1. Taken(ts)' = Taken(ts) /\ Shared(taken, ReadersOf(ts))'
        BY <1>6, <1>7
  <2>2. Split(Taken(ts)', channel'[ts], Undealt', count'[ts], ts)
        BY <1>7, <2>1
  <2>3. Split(Taken(ts), channel[ts], Undealt, count[ts], ts)'
        BY <2>2 DEF Split
  <2>4. QED BY <2>1, <2>3 DEF KeptFor
<1>8. CASE UNCHANGED <<wire, held, source, taken, channel, count>>
  <2>1. Undealt' = Undealt
        BY <1>8 DEF Undealt
  <2>2. QED BY <1>2, <1>7, <1>8, <2>1
<1>9. ASSUME NEW m \in Messages, ~IsCandidate(m, ts), wire' = Append(wire, m),
             UNCHANGED <<held, source, taken, channel, count>>
      PROVE  KeptFor(ts)'
  <2>1. Undealt' = Append(Undealt, m)
        BY <1>3, <1>9, UndealtTypes DEF Undealt
  <2>2. Split(Taken(ts), channel[ts], Append(Undealt, m), count[ts], ts)
        BY <1>2, <1>4, <1>5, <1>9, SplitAppend
  <2>3. QED BY <1>7, <1>9, <2>1, <2>2
<1>10. ASSUME NEW m \in {Malformed, Unknown}, ClientSendsOther(m)
       PROVE  KeptFor(ts)'
  <2>1. m \in Messages /\ ~IsCandidate(m, ts)
        BY DEF Messages, Malformed, Unknown, IsCandidate
  <2>2. QED BY <1>9, <1>10, <2>1 DEF ClientSendsOther, readerVars
<1>11. ASSUME NEW t \in TrackSources, ClientOffers(t) PROVE KeptFor(ts)'
  <2>1. Offer(t) \in Messages /\ ~IsCandidate(Offer(t), ts)
        BY DEF Messages, Offer, IsCandidate
  <2>2. QED BY <1>9, <1>11, <2>1 DEF ClientOffers, readerVars
<1>12. ASSUME NEW t \in TrackSources, ClientTrickles(t) PROVE KeptFor(ts)'
  <2> DEFINE m == Candidate(t, count[t] + 1)
  <2>1. count[t] \in 0..MaxCandidates /\ count[t] < MaxCandidates
        BY <1>4, <1>12 DEF ClientTrickles
  <2>2. count[t] + 1 \in 1..MaxCandidates
        BY <2>1, SocketAssumption
  <2>3. m \in Messages
        BY <2>2 DEF Messages, Candidates
  <2>4. (IsCandidate(m, ts) <=> t = ts) /\ m.n = count[t] + 1
        BY DEF Candidate, IsCandidate
  <2>5. /\ wire' = Append(wire, m) /\ count' = [count EXCEPT ![t] = @ + 1]
        /\ UNCHANGED <<held, source, taken, channel>>
        BY <1>12 DEF ClientTrickles, readerVars
  <2> HIDE DEF m
  <2>6. Undealt' = Append(Undealt, m)
        BY <1>3, <2>3, <2>5, UndealtTypes DEF Undealt
  <2>7. Split(Taken(ts), channel[ts], Append(Undealt, m), count'[ts], ts)
    <3>1. CASE t = ts
      <4>1. count'[ts] = count[ts] + 1
            BY <1>4, <2>5, <3>1
      <4>2. IsCandidate(m, ts) /\ m.n = count[ts] + 1
            BY <2>4, <3>1
      <4>3. QED BY <1>2, <1>4, <1>5, <2>3, <4>1, <4>2, SplitAppend
    <3>2. CASE t # ts
      <4>1. count'[ts] = count[ts]
            BY <1>4, <2>5, <3>2
      <4>2. ~IsCandidate(m, ts)
            BY <2>4, <3>2
      <4>3. QED BY <1>2, <1>4, <1>5, <2>3, <4>1, <4>2, SplitAppend
    <3>3. QED BY <3>1, <3>2
  <2>8. Taken(ts)' = Taken(ts) /\ Shared(taken, ReadersOf(ts))'
        BY <1>6, <2>5
  <2>9. Split(Taken(ts), channel[ts], Undealt, count[ts], ts)'
        BY <2>5, <2>6, <2>7, <2>8 DEF Split
  <2>10. QED BY <2>8, <2>9 DEF KeptFor
<1>13. ASSUME NEW e, Read(e), e # "new-ice-candidate",
              UNCHANGED <<held, taken, channel, count>>
       PROVE  /\ Split(Taken(ts), channel[ts], Undealt', count[ts], ts)
              /\ Undealt' = Tail(Undealt)
  <2>1. /\ wire # <<>> /\ Head(wire).event = e /\ wire' = Tail(wire)
        /\ held = <<>> /\ wire' \in Seq(Messages)
        BY <1>3, <1>13, ReadTypes
  <2>2. Undealt = wire /\ Undealt' = Tail(wire)
    <3>1. Undealt = wire
          BY <1>3, <2>1, UndealtTypes
    <3>2. <<>> \o wire' = wire'
          BY <2>1, ConcatEmptySeq
    <3>3. QED BY <1>13, <2>1, <3>1, <3>2 DEF Undealt
  <2>3. ~IsCandidate(Head(wire), ts)
        BY <1>13, <2>1 DEF IsCandidate
  <2>4. Split(Taken(ts), channel[ts], Tail(wire), count[ts], ts)
        BY <1>2, <1>4, <2>1, <2>2, <2>3, SplitSkip
  <2>5. QED BY <2>2, <2>4
<1>14. CASE ReadMalformed \/ ReadUnknown
  <2>1. PICK e \in {"malformed", "unknown"} :
           Read(e) /\ UNCHANGED <<held, source, taken, channel, count>>
        BY <1>14 DEF ReadMalformed, ReadUnknown, readerVars
  <2>2. QED BY <1>7, <1>13, <2>1
<1>15. CASE ReadOffer
  <2> DEFINE t == Head(wire).ts
             k == Len(source) + 1
  <2>1. Read("video-offer") /\ UNCHANGED <<held, taken, channel, count>>
        BY <1>15 DEF ReadOffer
  <2>2. t \in TrackSources
        BY <1>3, <2>1, ReadTypes, MessageKinds
  <2>3. StartReader(t)
        BY <1>15 DEF ReadOffer, Return
  <2> HIDE DEF t
  <2>4. /\ source' = Append(source, t) /\ Len(source) \in Nat
        /\ DOMAIN source' = DOMAIN source \cup {k} /\ k \notin DOMAIN source
        /\ \A r \in DOMAIN source : source'[r] = source[r]
        /\ source'[k] = t /\ Len(source') = k
        BY <1>4, <2>2, <2>3, AppendPositions DEF StartReader
  <2>5. k \in Readers
    <3>1. Len(source') <= MaxOffers
          BY TypeStep DEF KeptInv, TypeInv, TypeOK
    <3>2. QED BY <2>4, <3>1, SocketAssumption DEF Readers
  <2>6. taken[k] = <<>>
        BY <2>4, <2>5 DEF KeptInv, Fresh
  <2> HIDE DEF k
  <2>7. /\ ReadersOf(ts)' = ReadersOf(ts) \/ ReadersOf(ts)' = ReadersOf(ts) \cup {k}
        /\ k \notin ReadersOf(ts)
        BY <2>4 DEF ReadersOf
  <2>8. ToSet(taken[k]) = {} /\ Increasing(taken[k])
        BY <2>6 DEF ToSet, Increasing
  <2>9. Taken(ts)' = Taken(ts)
    <3>1. Taken(ts)' = UNION {ToSet(taken[r]) : r \in ReadersOf(ts)'}
          BY <2>1 DEF Taken
    <3>2. QED BY <2>7, <2>8, <3>1 DEF Taken
  <2>10. Shared(taken, ReadersOf(ts)')
         BY <1>2, <2>7, <2>8 DEF Shared
  <2>11. Shared(taken, ReadersOf(ts))'
         BY <2>1, <2>10 DEF Shared
  <2>12. Split(Taken(ts), channel[ts], Undealt', count[ts], ts)
         BY <1>13, <2>1
  <2>13. Split(Taken(ts), channel[ts], Undealt, count[ts], ts)'
         BY <2>1, <2>9, <2>12 DEF Split
  <2>14. QED BY <2>11, <2>13 DEF KeptFor
<1>16. CASE ReadCandidate
  <2> DEFINE h == Head(wire)
  <2>1. /\ Read("new-ice-candidate") /\ held' = <<h>>
        /\ UNCHANGED <<source, taken, channel, count>>
        BY <1>16 DEF ReadCandidate, Return, readerVars
  <2>2. /\ wire # <<>> /\ wire' = Tail(wire) /\ held = <<>>
        BY <1>3, <2>1, ReadTypes
  <2>3. <<h>> \o Tail(wire) = wire
        BY <1>4, <2>2, HeadAndTail
  <2>4. Undealt' = Undealt
    <3>1. Undealt = wire
          BY <1>3, <2>2, UndealtTypes
    <3>2. Undealt' = <<h>> \o Tail(wire)
          BY <2>1, <2>2 DEF Undealt
    <3>3. QED BY <2>3, <3>1, <3>2
  <2>5. QED BY <1>2, <1>7, <2>1, <2>4
<1>17. CASE PutCandidate
  <2> DEFINE h == held[1]
  <2>1. /\ loop = "put" /\ held' = <<>>
        /\ channel' = [channel EXCEPT ![h.ts] = Append(@, h.n)]
        /\ UNCHANGED <<wire, source, taken, count>>
        BY <1>17 DEF PutCandidate, clientVars, readerVars
  <2>2. /\ Undealt # <<>> /\ Head(Undealt) = h /\ Tail(Undealt) = wire
        /\ h \in Candidates
        BY <1>3, <2>1, UndealtPut
  <2>3. /\ h.ts \in TrackSources /\ h.n \in Nat
        /\ IsCandidate(h, ts) <=> h.ts = ts
        BY <2>2 DEF Candidates, Candidate, IsCandidate
  <2>4. Undealt' = wire
    <3>1. <<>> \o wire = wire
          BY <1>4, ConcatEmptySeq
    <3>2. QED BY <2>1, <3>1 DEF Undealt
  <2> HIDE DEF h
  <2>5. Split(Taken(ts), channel'[ts], Tail(Undealt), count[ts], ts)
    <3>1. CASE h.ts = ts
      <4>1. channel'[ts] = Append(channel[ts], h.n)
            BY <1>4, <2>1, <3>1
      <4>2. QED BY <1>2, <1>4, <1>5, <2>2, <2>3, <3>1, <4>1, SplitPut
    <3>2. CASE h.ts # ts
      <4>1. channel'[ts] = channel[ts]
            BY <1>4, <2>1, <3>2
      <4>2. QED BY <1>2, <1>4, <2>2, <2>3, <3>2, <4>1, SplitSkip
    <3>3. QED BY <3>1, <3>2
  <2>6. Taken(ts)' = Taken(ts) /\ Shared(taken, ReadersOf(ts))'
        BY <1>6, <2>1
  <2>7. Split(Taken(ts), channel[ts], Undealt, count[ts], ts)'
        BY <2>1, <2>2, <2>4, <2>5, <2>6 DEF Split
  <2>8. QED BY <2>6, <2>7 DEF KeptFor
<1>18. ASSUME NEW r \in Readers, Take(r) PROVE KeptFor(ts)'
  <2> DEFINE s == source[r]
             e == Head(channel[s])
  <2>1. /\ r \in running /\ channel[s] # <<>>
        /\ taken' = [taken EXCEPT ![r] = Append(@, e)]
        /\ channel' = [channel EXCEPT ![s] = Tail(@)]
        /\ UNCHANGED <<wire, held, count, source>>
        BY <1>18 DEF Take, clientVars
  <2>2. r \in DOMAIN source /\ s \in TrackSources
        BY <1>3, <1>4, <2>1 DEF TypeOK
  <2>3. Undealt' = Undealt /\ ReadersOf(ts)' = ReadersOf(ts)
        BY <2>1 DEF Undealt, ReadersOf
  <2>4. /\ taken'[r] = Append(taken[r], e)
        /\ \A p \in Readers : p # r => taken'[p] = taken[p]
        BY <1>4, <2>1
  <2>5. ReadersOf(ts) \subseteq Readers
        BY <1>3, <1>4, SocketAssumption, SMTT(30) DEF ReadersOf, Readers, TypeOK
  <2>6. CASE s # ts
    <3>1. r \notin ReadersOf(ts)
          BY <2>6 DEF ReadersOf
    <3>2. \A p \in ReadersOf(ts) : taken'[p] = taken[p]
          BY <2>4, <2>5, <3>1
    <3>3. Taken(ts)' = Taken(ts)
      <4>1. Taken(ts)' = UNION {ToSet(taken'[p]) : p \in ReadersOf(ts)}
            BY <2>3 DEF Taken
      <4>2. QED BY <3>2, <4>1 DEF Taken
    <3>4. Shared(taken', ReadersOf(ts))
          BY <1>2, <3>2 DEF Shared
    <3>5. channel'[ts] = channel[ts]
          BY <1>4, <2>1, <2>6
    <3>6. Split(Taken(ts), channel[ts], Undealt, count[ts], ts)'
          BY <1>2, <2>1, <2>3, <3>3, <3>5 DEF Split
    <3>7. Shared(taken, ReadersOf(ts))'
          BY <2>3, <3>4 DEF Shared
    <3>8. QED BY <3>6, <3>7 DEF KeptFor
  <2>7. CASE s = ts
    <3>1. /\ channel[ts] # <<>> /\ channel'[ts] = Tail(channel[ts])
          /\ e = Head(channel[ts]) /\ r \in ReadersOf(ts)
          BY <1>4, <2>1, <2>2, <2>7 DEF ReadersOf
    <3>2. /\ Split(Taken(ts) \cup {e}, channel'[ts], Undealt, count[ts], ts)
          /\ Before(Taken(ts), {e})
      <4>1. channel[ts] # <<>>
            BY <3>1
      <4>2. LET h == Head(channel[ts])
            IN  /\ Split(Taken(ts) \cup {h}, Tail(channel[ts]), Undealt, count[ts],
                         ts)
                /\ Before(Taken(ts), {h})
            BY <1>2, <1>5, <4>1, SplitTake
      <4>3. QED BY <3>1, <4>2
    <3>3. e \in 1..MaxCandidates
          BY <1>4, <3>1, TailPositions
    <3>4. taken[r] \in Seq(1..MaxCandidates)
          BY <1>4
    <3> HIDE DEF e, s
    <3>5. ToSet(taken'[r]) = ToSet(taken[r]) \cup {e}
      <4>1. taken'[r] = Append(taken[r], e)
            BY <2>4
      <4>2. ToSet(Append(taken[r], e)) = ToSet(taken[r]) \cup {e}
        <5> DEFINE S == 1..MaxCandidates
        <5>1. e \in S /\ taken[r] \in Seq(S)
              BY <3>3, <3>4
        <5> HIDE DEF S
        <5>2. QED BY <5>1, AppendSet
      <4>3. QED BY <4>1, <4>2
    <3>6. Taken(ts)' = Taken(ts) \cup {e}
      <4>1. Taken(ts)' = UNION {ToSet(taken'[p]) : p \in ReadersOf(ts)}
            BY <2>3 DEF Taken
      <4>2. \A p \in ReadersOf(ts) : p # r => ToSet(taken'[p]) = ToSet(taken[p])
            BY <2>4, <2>5
      <4>3. QED BY <3>1, <3>5, <4>1, <4>2, SMTT(30) DEF Taken
    <3>7. \A p \in ReadersOf(ts) : ToSet(taken[p]) \subseteq Taken(ts)
          BY DEF Taken
    <3>8. e \notin Taken(ts)
          BY <3>2, <3>3 DEF Before
    <3>9. Increasing(taken'[r])
      <4>1. Before(ToSet(taken[r]), {e})
            BY <3>1, <3>2, <3>7 DEF Before
      <4>2. Increasing(taken[r])
            BY <1>2, <3>1 DEF Shared
      <4>3. taken[r] \in Seq(Nat) /\ e \in Nat
            BY <3>3, <3>4, NatSequence
      <4>4. QED BY <2>4, <4>1, <4>2, <4>3, AppendIncreasing
    <3>10. Shared(taken', ReadersOf(ts))
      <4>1. \A p \in ReadersOf(ts) : Increasing(taken'[p])
            BY <1>2, <2>4, <2>5, <3>9 DEF Shared
      <4>2. ASSUME NEW p \in ReadersOf(ts), NEW q \in ReadersOf(ts), p # q
            PROVE  ToSet(taken'[p]) \cap ToSet(taken'[q]) = {}
        <5>1. ToSet(taken[p]) \cap ToSet(taken[q]) = {}
              BY <1>2, <4>2 DEF Shared
        <5>2. e \notin ToSet(taken[p]) /\ e \notin ToSet(taken[q])
              BY <3>7, <3>8
        <5>3. /\ p # r => ToSet(taken'[p]) = ToSet(taken[p])
              /\ q # r => ToSet(taken'[q]) = ToSet(taken[q])
              BY <2>4, <2>5
        <5>4. QED BY <3>5, <4>2, <5>1, <5>2, <5>3
      <4>3. QED BY <4>1, <4>2 DEF Shared
    <3>11. Split(Taken(ts), channel[ts], Undealt, count[ts], ts)'
           BY <2>1, <2>3, <3>2, <3>6 DEF Split
    <3>12. Shared(taken, ReadersOf(ts))'
           BY <2>3, <3>10 DEF Shared
    <3>13. QED BY <3>11, <3>12 DEF KeptFor
  <2>8. QED BY <2>6, <2>7
<1>19. CASE \/ ReadFails \/ UNCHANGED vars
            \/ \E t \in TrackSources : Register(t)
            \/ \E r \in Readers : End(r)
       BY <1>8, <1>19 DEF ReadFails, vars, Register, End, clientVars, readerVars
<1>20. QED BY <1>10, <1>11, <1>12, <1>14, <1>15, <1>16, <1>17, <1>18, <1>19
       DEF Next, Client, Loop

\* A candidate that the client has sent is with the loop, in the channel of its
\* track source or with one reader, in the order it was sent and once, as long as
\* the connection lives (processMessage, recvCandidate, addICECandidates).
THEOREM NoCandidateLost == Spec => []CandidatesKept
<1>1. KeptInv /\ [Next]_vars => KeptInv'
      BY TypeStep, FreshStep, KeptStep DEF KeptInv
<1>2. KeptInv => CandidatesKept
      BY DEF KeptInv
<1>3. QED BY <1>1, <1>2, KeptInitially, PTL DEF Spec
=============================================================================
