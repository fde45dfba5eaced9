---------------------------- MODULE RtmpVideoProofs ----------------------------
(***************************************************************************)
(* Theorems about OnVideo, for any clients, any sizes of frames and any     *)
(* number of packets: what it takes from a packet is what the client put    *)
(* into it, and what it keeps of the parameter sets makes key frames        *)
(* decodable on their own.                                                  *)
(***************************************************************************)
EXTENDS RtmpVideo, WellFoundedInduction, NaturalsInduction, SequenceTheorems, TLAPS

-----------------------------------------------------------------------------
(* The invariants.                                                         *)

KeptSets == [id : Sets, version : Nat, size : {2}, plain : {TRUE}]
NalUnits == [id : Sets, version : Nat, size : {2}, plain : BOOLEAN]
            \cup [id : {"slice"}, version : {0}, size : Nat \ {0}, plain : {TRUE}]

\* A handler keeps what OnVideo recognised: one PPS at most, and one SPS or what
\* one header brought, however many packets its client has sent.
TypeOK ==
    /\ open \in [Connections -> BOOLEAN]
    /\ sps \in [Connections -> Seq(KeptSets)] /\ \A c \in Connections : Len(sps[c]) <= 2
    /\ pps \in [Connections -> Seq(KeptSets)] /\ \A c \in Connections : Len(pps[c]) <= 1
    /\ latest \in [Connections -> [Sets -> 0..MaxVersion]]
    /\ split \subseteq Connections /\ shadowed \subseteq Connections
    /\ sample \in [key : BOOLEAN, unit : Seq(NalUnits), data : Seq(NalUnits),
                   latest : [Sets -> 0..MaxVersion], odd : BOOLEAN]
    /\ packets \in 0..MaxPackets

\* The newest set k of a client, as a NAL unit.
Newest(c, k) == ParameterSet(c, k, latest[c][k])

\* The two places OnVideo may have for the newest sets: each its own after sets
\* in band, h.sps for both after a header.
Ready(c) ==
    \/ sps[c] = <<Newest(c, "sps")>> /\ pps[c] = <<Newest(c, "pps")>>
    \/ sps[c] = <<Newest(c, "sps"), Newest(c, "pps")>> /\ pps[c] = <<>>

\* A client that sent both sets, as OnVideo expects them, and since then none
\* alone, nor a header after a PPS in band.
Regular(c) ==
    /\ Plain[c] = Sets /\ c \notin split \cup shadowed
    /\ \A k \in Sets : latest[c][k] > 0

\* Between packets too, the handler of such a client has the sets it sent last,
\* each of them once, and nothing older: a key frame may come next.
HandlersReady == \A c \in Connections : Regular(c) => Ready(c)

-----------------------------------------------------------------------------
(* Numbers: induction over an interval, for a set that is given, and the    *)
(* maximum of a set.                                                       *)

LEMMA LeastNumber ==
    ASSUME NEW T \in SUBSET Nat, T # {}
    PROVE  \E m \in T : \A k \in T : m <= k
<1>1. PICK m \in T : \A k \in T : ~(<<k, m>> \in OpToRel(<, Nat))
      BY WFMin, NatLessThanWellFounded
<1>2. \A k \in T : ~(k < m)
      BY <1>1, Zenon DEF OpToRel
<1>3. QED BY <1>2

LEMMA IntervalInduction ==
    ASSUME NEW a \in Nat, NEW b \in Nat, NEW T,
           a \in T, \A n \in a..b : n \in T /\ n < b => n + 1 \in T
    PROVE  \A n \in a..b : n \in T
<1> DEFINE Missing == (a..b) \ T
<1> SUFFICES ASSUME Missing # {} PROVE FALSE
    OBVIOUS
<1>0. Missing \in SUBSET Nat
      OBVIOUS
<1>1. PICK m \in Missing : \A k \in Missing : m <= k
  <2> HIDE DEF Missing
  <2>1. QED BY <1>0, LeastNumber
<1>2. m - 1 \in a..b /\ m - 1 < b
      BY <1>1
<1>3. m - 1 \in T
      BY <1>1, <1>2
<1>4. QED BY <1>1, <1>2, <1>3

LEMMA MaxIs ==
    ASSUME NEW S \in SUBSET Nat, NEW m \in S, \A x \in S : x <= m
    PROVE  Max(S) = m
<1>1. \A x \in S : m >= x
      OBVIOUS
<1>2. Max(S) \in S /\ \A x \in S : Max(S) >= x
      BY <1>1, Zenon DEF Max
<1>3. m \in Nat /\ Max(S) \in Nat
      BY <1>2
<1>4. Max(S) >= m /\ Max(S) <= m
      BY <1>2
<1>5. QED BY <1>3, <1>4

LEMMA MaxOfOne == \A n \in Nat : Max({n}) = n
<1> TAKE n \in Nat
<1>1. {n} \in SUBSET Nat /\ n \in {n} /\ \A x \in {n} : x <= n
      OBVIOUS
<1>2. QED BY <1>1, MaxIs

\* Some position is the last one.
LEMMA LastPosition ==
    ASSUME NEW n \in Nat, NEW S \in SUBSET (1..n), S # {}
    PROVE  Max(S) \in S
<1> DEFINE Bounds == {b \in 0..n : \A x \in S : x <= b}
<1>1. Bounds \in SUBSET Nat /\ Bounds # {} /\ S \in SUBSET Nat
  <2>1. n \in Bounds
        OBVIOUS
  <2>2. QED BY <2>1
<1>2. PICK m \in Bounds : \A b \in Bounds : m <= b
  <2> HIDE DEF Bounds
  <2>1. QED BY <1>1, LeastNumber
<1>3. m \in S
  <2> SUFFICES ASSUME m \notin S PROVE FALSE
      OBVIOUS
  <2>1. m \in 0..n /\ \A x \in S : x <= m
        BY <1>2
  <2>2. PICK y \in S : TRUE
        OBVIOUS
  <2>3. y \in 1..n /\ m \in Nat /\ y <= m
        BY <2>1, <2>2
  <2>4. ASSUME NEW x \in S PROVE x <= m - 1
    <3>1. x \in 1..n /\ x <= m /\ x # m
          BY <2>1
    <3>2. QED BY <2>1, <3>1
  <2>5. m - 1 \in Bounds
        BY <2>1, <2>3, <2>4
  <2>6. QED BY <1>2, <2>3, <2>5
<1>4. \A x \in S : x <= m
      BY <1>2
<1>5. Max(S) = m
      BY <1>1, <1>3, <1>4, MaxIs
<1>6. QED BY <1>3, <1>5

-----------------------------------------------------------------------------
(* The loop over a NALU packet.                                            *)

\* What the loop adds at each NAL unit.
NextOffset(u, o, j) ==
    IF j = 1 THEN 0 ELSE o[j - 1] + HeaderLength + u[j - 1].size

LEMMA NalUnitIs ==
    ASSUME NEW nal \in NalUnits
    PROVE  /\ nal.size \in Nat \ {0}
           /\ nal.id \in Sets => nal.size = 2
<1>1. CASE nal \in [id : Sets, version : Nat, size : {2}, plain : BOOLEAN]
      BY <1>1
<1>2. CASE nal \in [id : {"slice"}, version : {0}, size : Nat \ {0}, plain : {TRUE}]
      BY <1>2 DEF Sets
<1>3. QED BY <1>1, <1>2 DEF NalUnits

LEMMA SizesAre ==
    ASSUME NEW u \in Seq(NalUnits)
    PROVE  /\ Len(u) \in Nat
           /\ \A i \in 1..Len(u) : u[i].size \in Nat \ {0}
<1>1. \A i \in 1..Len(u) : u[i] \in NalUnits
      OBVIOUS
<1>2. QED BY <1>1, NalUnitIs

\* Some function satisfies the equation that defines the offsets.
LEMMA OffsetsExist ==
    ASSUME NEW u \in Seq(NalUnits)
    PROVE  \E o : o = [j \in 1..(Len(u) + 1) |-> NextOffset(u, o, j)]
<1> DEFINE top == Len(u) + 1
           Upto(n, o) == /\ o \in [1..n -> Nat]
                         /\ \A j \in 1..n : o[j] = NextOffset(u, o, j)
           T == {n \in 1..top : \E o : Upto(n, o)}
<1>0. top \in Nat /\ 1 \in 1..top /\ \A i \in 1..Len(u) : u[i].size \in Nat
      BY SizesAre
<1>1. 1 \in T
  <2>1. Upto(1, [j \in 1..1 |-> 0])
        BY DEF NextOffset
  <2>2. QED BY <1>0, <2>1
<1>2. ASSUME NEW n \in 1..top, n \in T, n < top
      PROVE  n + 1 \in T
  <2>1. PICK o : Upto(n, o)
        BY <1>2
  <2> DEFINE w == [j \in 1..(n + 1) |->
                       IF j = n + 1 THEN NextOffset(u, o, j) ELSE o[j]]
  <2>2. NextOffset(u, o, n + 1) \in Nat
        BY <1>0, <1>2, <2>1 DEF NextOffset, HeaderLength
  <2>3. w \in [1..(n + 1) -> Nat]
        BY <2>1, <2>2
  <2>4. ASSUME NEW j \in 1..(n + 1)
        PROVE  w[j] = NextOffset(u, w, j)
    <3>1. NextOffset(u, w, j) = NextOffset(u, o, j)
          BY DEF NextOffset
    <3>2. QED BY <2>1, <3>1
  <2>5. Upto(n + 1, w)
        BY <2>3, <2>4
  <2>6. n + 1 \in 1..top
        BY <1>0, <1>2
  <2> HIDE DEF w, Upto
  <2>7. QED BY <2>5, <2>6
<1>3. top \in T
  <2>1. \A n \in 1..top : n \in T /\ n < top => n + 1 \in T
        BY <1>2
  <2> HIDE DEF T, top
  <2>2. \A n \in 1..top : n \in T
        BY <1>0, <1>1, <2>1, IntervalInduction
  <2>3. QED BY <1>0, <2>2
<1>4. PICK o : Upto(top, o)
      BY <1>3
<1>5. o = [j \in 1..top |-> NextOffset(u, o, j)]
      BY <1>4
<1>6. QED BY <1>5

LEMMA OffsetIs ==
    ASSUME NEW u \in Seq(NalUnits), NEW i \in 1..(Len(u) + 1)
    PROVE  Offset(u, i) = IF i = 1 THEN 0
                          ELSE Offset(u, i - 1) + HeaderLength + u[i - 1].size
<1> DEFINE o == CHOOSE o : o = [j \in 1..(Len(u) + 1) |->
                        IF j = 1 THEN 0 ELSE o[j - 1] + HeaderLength + u[j - 1].size]
<1>1. \A j : Offset(u, j) = o[j]
      BY DEF Offset
<1>2. o = [j \in 1..(Len(u) + 1) |-> NextOffset(u, o, j)]
      BY OffsetsExist DEF NextOffset
<1> HIDE DEF o
<1>3. QED BY <1>1, <1>2 DEF NextOffset

LEMMA OffsetsGrow ==
    ASSUME NEW u \in Seq(NalUnits)
    PROVE  /\ \A i \in 1..(Len(u) + 1) : Offset(u, i) \in Nat
           /\ \A i \in 1..Len(u) :
                 Offset(u, i) + HeaderLength + u[i].size <= Offset(u, Len(u) + 1)
<1> DEFINE top == Len(u) + 1
           T == {j \in 1..top : Offset(u, j) \in Nat}
<1>0. top \in Nat /\ 1 \in 1..top /\ \A i \in 1..Len(u) : u[i].size \in Nat
      BY SizesAre
<1>1. ASSUME NEW i \in 1..Len(u)
      PROVE  Offset(u, i + 1) = Offset(u, i) + HeaderLength + u[i].size
  <2>1. i + 1 \in 1..top /\ i + 1 # 1 /\ (i + 1) - 1 = i
        BY <1>0
  <2>2. QED BY <2>1, OffsetIs
<1>2. \A j \in 1..top : j \in T
  <2>1. 1 \in T
    <3>1. Offset(u, 1) = 0
          BY <1>0, OffsetIs
    <3>2. QED BY <1>0, <3>1
  <2>2. ASSUME NEW j \in 1..top, j \in T, j < top PROVE j + 1 \in T
    <3>1. j \in 1..Len(u) /\ j + 1 \in 1..top
          BY <1>0, <2>2
    <3>2. Offset(u, j + 1) = Offset(u, j) + HeaderLength + u[j].size
          BY <1>1, <3>1
    <3>3. QED BY <1>0, <2>2, <3>1, <3>2 DEF HeaderLength
  <2>3. \A j \in 1..top : j \in T /\ j < top => j + 1 \in T
        BY <2>2
  <2> HIDE DEF T, top
  <2>4. QED BY <1>0, <2>1, <2>3, IntervalInduction
<1>3. ASSUME NEW i \in 1..Len(u)
      PROVE  Offset(u, i + 1) <= Offset(u, top)
  <2> DEFINE U == {j \in (i + 1)..top : Offset(u, i + 1) <= Offset(u, j)}
  <2>0. i + 1 \in Nat /\ i + 1 \in (i + 1)..top /\ top \in (i + 1)..top
        BY <1>0
  <2>1. \A j \in 1..top : Offset(u, j) \in Nat
        BY <1>2
  <2>2. i + 1 \in U
        BY <2>0, <2>1
  <2>3. ASSUME NEW j \in (i + 1)..top, j \in U, j < top PROVE j + 1 \in U
    <3>1. j \in 1..Len(u) /\ j + 1 \in (i + 1)..top /\ j + 1 \in 1..top
          BY <1>0, <2>3
    <3>2. Offset(u, j + 1) = Offset(u, j) + HeaderLength + u[j].size
          BY <1>1, <3>1
    <3>3. /\ Offset(u, i + 1) \in Nat /\ Offset(u, j) \in Nat
          /\ Offset(u, j + 1) \in Nat /\ u[j].size \in Nat
          BY <1>0, <2>0, <2>1, <3>1
    <3>4. QED BY <2>3, <3>1, <3>2, <3>3 DEF HeaderLength
  <2>4. \A j \in (i + 1)..top : j \in U /\ j < top => j + 1 \in U
        BY <2>3
  <2>5. \A j \in (i + 1)..top : j \in U
    <3> HIDE DEF U, top
    <3>1. QED BY <1>0, <2>0, <2>2, <2>4, IntervalInduction
  <2>6. QED BY <2>0, <2>5
<1>4. QED BY <1>1, <1>2, <1>3

\* The loop reaches the end of a packet whose lengths add up: no NAL unit is
\* taken not to fit, the last one no more than the others.
LEMMA ParseTakesAll ==
    ASSUME NEW u \in Seq(NalUnits)
    PROVE  Parse(u) = u
<1>1. ASSUME NEW i \in 1..Len(u) PROVE ~DoesNotFit(u, i)
  <2>1. /\ Offset(u, i) \in Nat /\ Offset(u, Len(u) + 1) \in Nat
        /\ u[i].size \in Nat
        BY OffsetsGrow, SizesAre
  <2>2. Offset(u, i) + HeaderLength + u[i].size <= Offset(u, Len(u) + 1)
        BY OffsetsGrow
  <2>3. QED BY <2>1, <2>2 DEF DoesNotFit, HeaderLength
<1>2. DOMAIN u = 1..Len(u)
      OBVIOUS
<1>3. {i \in DOMAIN u : DoesNotFit(u, i)} = {}
      BY <1>1, <1>2
<1>4. QED BY <1>3 DEF Parse

-----------------------------------------------------------------------------
(* What a client sends, and what OnVideo makes of it.                      *)

LEMMA ParameterSetType ==
    ASSUME NEW c \in Connections, NEW k \in Sets, NEW n \in Nat
    PROVE  /\ ParameterSet(c, k, n) \in NalUnits
           /\ k \in Plain[c] => ParameterSet(c, k, n) \in KeptSets
<1>1. (k \in Plain[c]) \in BOOLEAN
      OBVIOUS
<1>2. ParameterSet(c, k, n) \in [id : Sets, version : Nat, size : {2}, plain : BOOLEAN]
      BY <1>1 DEF ParameterSet
<1>3. k \in Plain[c] => ParameterSet(c, k, n) \in KeptSets
      BY DEF ParameterSet, KeptSets
<1>4. QED BY <1>2, <1>3 DEF NalUnits

LEMMA KeptSetsAre ==
    /\ KeptSets \subseteq NalUnits
    /\ Seq(KeptSets) \subseteq Seq(NalUnits)
    /\ \A nal \in KeptSets : nal.id \in Sets
<1>1. KeptSets \subseteq NalUnits
      BY DEF KeptSets, NalUnits
<1>2. \A nal \in KeptSets : nal.id \in Sets
      BY DEF KeptSets
<1>3. QED BY <1>1, <1>2, SeqMonotonic

LEMMA RecognisedIs ==
    ASSUME NEW nal \in NalUnits, NEW k \in Sets, IsSet(nal, k)
    PROVE  nal \in KeptSets /\ nal.id = k
<1>1. nal.id = k /\ nal.plain
      BY DEF IsSet
<1>2. nal \in [id : Sets, version : Nat, size : {2}, plain : BOOLEAN]
      BY <1>1 DEF NalUnits, Sets
<1>3. nal \in KeptSets
      BY <1>1, <1>2 DEF KeptSets
<1>4. QED BY <1>1, <1>3

LEMMA SlicesType ==
    ASSUME NEW f \in Frames
    PROVE  /\ Slices(f) \in Seq(NalUnits) /\ Len(Slices(f)) = Len(f)
           /\ Len(f) \in Nat \ {0}
           /\ \A i \in 1..Len(f) : Slices(f)[i].id = "slice"
<1>1. f \in Seq(Nat \ {0}) /\ f # <<>>
      BY RtmpVideoAssumption
<1>2. Len(f) \in Nat \ {0} /\ DOMAIN f = 1..Len(f)
      BY <1>1
<1>3. ASSUME NEW i \in 1..Len(f)
      PROVE  Slice(f[i]) \in NalUnits /\ Slice(f[i]).id = "slice"
  <2>1. f[i] \in Nat \ {0}
        BY <1>1
  <2>2. QED BY <2>1 DEF Slice, NalUnits
<1>4. Slices(f) = [i \in 1..Len(f) |-> Slice(f[i])]
      BY <1>2 DEF Slices
<1>5. QED BY <1>2, <1>3, <1>4

LEMMA InBandType ==
    ASSUME NEW c \in Connections, NEW v \in [Sets -> 0..MaxVersion], NEW ks,
           NEW k \in Sets
    PROVE  InBand(c, v, ks, k) \in Seq(NalUnits)
<1>1. v[k] \in Nat
      BY RtmpVideoAssumption
<1>2. ParameterSet(c, k, v[k]) \in NalUnits
      BY <1>1, ParameterSetType
<1>3. QED BY <1>2 DEF InBand

LEMMA UnitType ==
    ASSUME NEW c \in Connections, NEW v \in [Sets -> 0..MaxVersion], NEW ks,
           NEW f \in Frames
    PROVE  Unit(c, v, ks, f) \in Seq(NalUnits)
<1>1. /\ InBand(c, v, ks, "sps") \in Seq(NalUnits)
      /\ InBand(c, v, ks, "pps") \in Seq(NalUnits)
      BY InBandType DEF Sets
<1>2. Slices(f) \in Seq(NalUnits)
      BY SlicesType
<1>3. QED BY <1>1, <1>2, ConcatProperties DEF Unit

LEMMA RenewalsAre ==
    ASSUME NEW c, NEW ks, NEW v \in Renewals(c, ks)
    PROVE  v \in [Sets -> 0..MaxVersion]
BY DEF Renewals

\* What is kept is what was, or one set of that kind.
LEMMA KeepIs ==
    ASSUME NEW nals \in Seq(NalUnits), NEW k \in Sets, NEW kept
    PROVE  \/ Keep(kept, nals, k) = kept
           \/ /\ Keep(kept, nals, k) \in Seq(KeptSets)
              /\ Len(Keep(kept, nals, k)) = 1
<1> DEFINE those == {i \in DOMAIN nals : IsSet(nals[i], k)}
<1>1. Keep(kept, nals, k) = IF those = {} THEN kept ELSE <<nals[Max(those)]>>
      BY DEF Keep
<1>2. ASSUME those # {}
      PROVE  /\ <<nals[Max(those)]>> \in Seq(KeptSets)
             /\ Len(<<nals[Max(those)]>>) = 1
  <2>1. Len(nals) \in Nat /\ those \in SUBSET (1..Len(nals))
        OBVIOUS
  <2>2. Max(those) \in those
    <3> HIDE DEF those
    <3>1. QED BY <1>2, <2>1, LastPosition
  <2>3. nals[Max(those)] \in NalUnits /\ IsSet(nals[Max(those)], k)
        BY <2>2
  <2>4. nals[Max(those)] \in KeptSets
        BY <2>3, RecognisedIs
  <2> HIDE DEF those
  <2>5. QED BY <2>4
<1> HIDE DEF those
<1>3. QED BY <1>1, <1>2

-----------------------------------------------------------------------------
(* Types.                                                                  *)

LEMMA PrefixType ==
    ASSUME TypeOK, NEW c \in Connections
    PROVE  Prefix(c) \in Seq(KeptSets)
<1>1. sps[c] \in Seq(KeptSets) /\ pps[c] \in Seq(KeptSets)
      BY DEF TypeOK
<1>2. QED BY <1>1, ConcatProperties DEF Prefix

LEMMA CollectType ==
    ASSUME NEW c \in Connections, NEW v \in [Sets -> 0..MaxVersion]
    PROVE  Collect(c, v) \in Seq(KeptSets) /\ Len(Collect(c, v)) <= 2
<1> DEFINE S == ParameterSet(c, "sps", v["sps"])
           P == ParameterSet(c, "pps", v["pps"])
<1>1. /\ "sps" \in Plain[c] => S \in KeptSets
      /\ "pps" \in Plain[c] => P \in KeptSets
  <2>1. "sps" \in Sets /\ "pps" \in Sets /\ v["sps"] \in Nat /\ v["pps"] \in Nat
        BY RtmpVideoAssumption DEF Sets
  <2>2. QED BY <2>1, ParameterSetType
<1>2. Plain[c] \subseteq {"sps", "pps"}
      BY RtmpVideoAssumption DEF Sets
<1>3. \/ Collect(c, v) = <<>>
      \/ "sps" \in Plain[c] /\ Collect(c, v) = <<S>>
      \/ "sps" \in Plain[c] /\ "pps" \in Plain[c] /\ Collect(c, v) = <<S, P>>
      BY <1>2 DEF Collect
<1> HIDE DEF S, P
<1>4. CASE Collect(c, v) = <<>>
      BY <1>4
<1>5. CASE "sps" \in Plain[c] /\ Collect(c, v) = <<S>>
      BY <1>1, <1>5
<1>6. CASE "sps" \in Plain[c] /\ "pps" \in Plain[c] /\ Collect(c, v) = <<S, P>>
      BY <1>1, <1>6
<1>7. QED BY <1>3, <1>4, <1>5, <1>6

LEMMA TypeInitially == Init => TypeOK
BY RtmpVideoAssumption DEF Init, TypeOK, KeptSets, NalUnits

LEMMA ReturnErrorType ==
    ASSUME TypeOK, NEW c \in Connections, ReturnError(c)
    PROVE  open' \in [Connections -> BOOLEAN]
BY DEF TypeOK, ReturnError

LEMMA NALUType ==
    ASSUME TypeOK, NEW c \in Connections, NEW key \in BOOLEAN, NEW ks \in SUBSET Sets,
           NEW f \in Frames, NEW v \in Renewals(c, ks), OnNALU(c, key, v, ks, f)
    PROVE  TypeOK'
<1> DEFINE unit == Unit(c, v, ks, f)
<1>1. v \in [Sets -> 0..MaxVersion]
      BY RenewalsAre
<1>2. unit \in Seq(NalUnits) /\ Parse(unit) = unit
      BY <1>1, UnitType, ParseTakesAll
<1> HIDE DEF unit
<1>3. /\ packets' \in 0..MaxPackets
      /\ latest' \in [Connections -> [Sets -> 0..MaxVersion]]
      /\ split' \subseteq Connections /\ shadowed' \subseteq Connections
  <2>1. packets' \in 0..MaxPackets
        BY RtmpVideoAssumption, SMTT(30) DEF TypeOK, OnNALU, Receive
  <2>2. latest' \in [Connections -> [Sets -> 0..MaxVersion]]
        BY <1>1 DEF TypeOK, OnNALU
  <2>3. split' \in {split, split \ {c}, split \cup {c}}
        BY DEF OnNALU
  <2>4. shadowed' \in {shadowed, shadowed \ {c}}
        BY DEF OnNALU
  <2>5. QED BY <2>1, <2>2, <2>3, <2>4 DEF TypeOK
<1>4. /\ sps' = [sps EXCEPT ![c] = Keep(@, unit, "sps")]
      /\ pps' = [pps EXCEPT ![c] = Keep(@, unit, "pps")]
      BY <1>2 DEF OnNALU, unit
<1>5. /\ Keep(sps[c], unit, "sps") \in Seq(KeptSets)
      /\ Len(Keep(sps[c], unit, "sps")) <= 2
  <2>1. sps[c] \in Seq(KeptSets) /\ Len(sps[c]) <= 2
        BY DEF TypeOK
  <2>2. \/ Keep(sps[c], unit, "sps") = sps[c]
        \/ /\ Keep(sps[c], unit, "sps") \in Seq(KeptSets)
           /\ Len(Keep(sps[c], unit, "sps")) = 1
        BY <1>2, KeepIs DEF Sets
  <2>3. \A q : q \in Seq(KeptSets) /\ Len(q) = 1 => Len(q) <= 2
        OBVIOUS
  <2>4. QED BY <2>1, <2>2, <2>3, Zenon
<1>6. /\ Keep(pps[c], unit, "pps") \in Seq(KeptSets)
      /\ Len(Keep(pps[c], unit, "pps")) <= 1
  <2>1. pps[c] \in Seq(KeptSets) /\ Len(pps[c]) <= 1
        BY DEF TypeOK
  <2>2. \/ Keep(pps[c], unit, "pps") = pps[c]
        \/ /\ Keep(pps[c], unit, "pps") \in Seq(KeptSets)
           /\ Len(Keep(pps[c], unit, "pps")) = 1
        BY <1>2, KeepIs DEF Sets
  <2>3. \A q : q \in Seq(KeptSets) /\ Len(q) = 1 => Len(q) <= 1
        OBVIOUS
  <2>4. QED BY <2>1, <2>2, <2>3, Zenon
<1>7. sps' \in [Connections -> Seq(KeptSets)] /\ \A d \in Connections : Len(sps'[d]) <= 2
      BY <1>4, <1>5 DEF TypeOK
<1>8. pps' \in [Connections -> Seq(KeptSets)] /\ \A d \in Connections : Len(pps'[d]) <= 1
      BY <1>4, <1>6 DEF TypeOK
<1>9. Adorn(c, key, unit) \in Seq(NalUnits)
  <2>1. Prefix(c) \in Seq(NalUnits)
        BY PrefixType, KeptSetsAre
  <2>2. QED BY <1>2, <2>1, ConcatProperties DEF Adorn
<1>10. /\ open' \in [Connections -> BOOLEAN]
       /\ sample' \in [key : BOOLEAN, unit : Seq(NalUnits), data : Seq(NalUnits),
                       latest : [Sets -> 0..MaxVersion], odd : BOOLEAN]
  <2>1. CASE ReturnError(c) /\ UNCHANGED sample
        BY <2>1, ReturnErrorType DEF TypeOK
  <2>2. CASE /\ sample' = [key |-> key, unit |-> unit, data |-> Adorn(c, key, unit),
                           latest |-> v, odd |-> \/ Plain[c] # Sets
                                                 \/ c \in split' \cup shadowed']
             /\ UNCHANGED open
        BY <1>1, <1>2, <1>9, <2>2 DEF TypeOK
  <2>3. QED BY <1>2, <2>1, <2>2 DEF OnNALU, unit
<1>11. QED BY <1>3, <1>7, <1>8, <1>10 DEF TypeOK

LEMMA SequenceHeaderType ==
    ASSUME TypeOK, NEW c \in Connections, NEW v \in Renewals(c, Sets),
           OnSequenceHeader(c, v)
    PROVE  TypeOK'
<1>1. v \in [Sets -> 0..MaxVersion]
      BY RenewalsAre
<1>2. Collect(c, v) \in Seq(KeptSets) /\ Len(Collect(c, v)) <= 2
      BY <1>1, CollectType
<1>3. sps' \in [Connections -> Seq(KeptSets)] /\ \A d \in Connections : Len(sps'[d]) <= 2
      BY <1>2 DEF TypeOK, OnSequenceHeader
<1>4. open' \in [Connections -> BOOLEAN]
      BY ReturnErrorType DEF TypeOK, OnSequenceHeader
<1>5. /\ packets' \in 0..MaxPackets
      /\ latest' \in [Connections -> [Sets -> 0..MaxVersion]]
      /\ split' \subseteq Connections /\ shadowed' \subseteq Connections
      BY <1>1, RtmpVideoAssumption DEF TypeOK, OnSequenceHeader, Receive
<1>6. pps' = pps /\ sample' = sample
      BY DEF OnSequenceHeader
<1>7. QED BY <1>3, <1>4, <1>5, <1>6 DEF TypeOK

LEMMA UnknownType ==
    ASSUME TypeOK, NEW c \in Connections, OnUnknown(c)
    PROVE  TypeOK'
<1>1. packets' \in 0..MaxPackets
      BY RtmpVideoAssumption DEF TypeOK, OnUnknown, Receive
<1>2. QED BY <1>1 DEF TypeOK, OnUnknown, handlerVars, historyVars

LEMMA TypeStep == TypeOK /\ [Next]_vars => TypeOK'
<1> SUFFICES ASSUME TypeOK, [Next]_vars PROVE TypeOK'
    OBVIOUS
<1>1. CASE UNCHANGED vars
      BY <1>1 DEF TypeOK, vars, handlerVars, historyVars
<1>2. CASE Next
      BY <1>2, NALUType, SequenceHeaderType, UnknownType DEF Next, OnVideo
<1>3. QED BY <1>1, <1>2

\* However many packets a client sends, its handler keeps no more than one PPS,
\* and in h.sps no more than what one header brings: nothing accumulates, and
\* only sets that OnVideo recognised are kept.
THEOREM TypeCorrect == Spec => []TypeOK
BY TypeInitially, TypeStep, PTL DEF Spec

-----------------------------------------------------------------------------
(* Frames.                                                                 *)

\* The sample d carries the access unit u, after parameter sets only.
Framed(u, d) ==
    /\ Len(u) <= Len(d)
    /\ SubSeq(d, Len(d) - Len(u) + 1, Len(d)) = u
    /\ \A i \in 1..(Len(d) - Len(u)) : d[i].id \in Sets

LEMMA FramesKeptIs == FramesKept <=> Framed(sample.unit, sample.data)
BY DEF FramesKept, Framed

LEMMA ConcatFramed ==
    ASSUME NEW p \in Seq(NalUnits), NEW u \in Seq(NalUnits),
           \A i \in 1..Len(p) : p[i].id \in Sets
    PROVE  Framed(u, p \o u)
<1> DEFINE d == p \o u
<1>1. /\ Len(p) \in Nat /\ Len(u) \in Nat /\ Len(d) = Len(p) + Len(u)
      /\ d \in Seq(NalUnits)
      /\ \A i \in 1..Len(p) : d[i] = p[i]
      /\ \A j \in 1..Len(u) : d[Len(p) + j] = u[j]
  <2>1. \A j \in 1..Len(u) : d[Len(p) + j] = u[j]
        OBVIOUS
  <2>2. QED BY <2>1
<1> HIDE DEF d
<1>2. Len(u) <= Len(d) /\ Len(d) - Len(u) = Len(p)
      BY <1>1
<1>3. SubSeq(d, Len(p) + 1, Len(d)) = u
  <2> DEFINE t == SubSeq(d, Len(p) + 1, Len(d))
  <2>1. t \in Seq(NalUnits) /\ Len(t) = Len(u)
        BY <1>1
  <2>2. ASSUME NEW j \in 1..Len(u) PROVE t[j] = u[j]
        BY <1>1
  <2> HIDE DEF t
  <2>3. t = u
        BY <2>1, <2>2, SeqEqual
  <2>4. QED BY <2>3 DEF t
<1>4. \A i \in 1..Len(p) : d[i].id \in Sets
      BY <1>1
<1>5. QED BY <1>2, <1>3, <1>4 DEF Framed, d

LEMMA AdornFramed ==
    ASSUME TypeOK, NEW c \in Connections, NEW key \in BOOLEAN, NEW u \in Seq(NalUnits)
    PROVE  Framed(u, Adorn(c, key, u))
<1>1. CASE Adorn(c, key, u) = Prefix(c) \o u
  <2>1. Prefix(c) \in Seq(KeptSets)
        BY PrefixType
  <2>2. Prefix(c) \in Seq(NalUnits) /\ \A i \in 1..Len(Prefix(c)) : Prefix(c)[i] \in KeptSets
        BY <2>1, KeptSetsAre
  <2>3. \A i \in 1..Len(Prefix(c)) : Prefix(c)[i].id \in Sets
        BY <2>2, KeptSetsAre
  <2>4. QED BY <1>1, <2>2, <2>3, ConcatFramed
<1>2. CASE Adorn(c, key, u) = u
  <2>1. Len(u) \in Nat /\ SubSeq(u, 1, Len(u)) = u
        OBVIOUS
  <2>2. QED BY <1>2, <2>1 DEF Framed
<1>3. QED BY <1>1, <1>2 DEF Adorn

LEMMA FramesInitially == Init => FramesKept
<1> SUFFICES ASSUME Init PROVE Framed(sample.unit, sample.data)
    BY FramesKeptIs
<1>1. sample.unit = <<>> /\ sample.data = <<>>
      BY DEF Init
<1>2. QED BY <1>1 DEF Framed

LEMMA NALUSample ==
    ASSUME TypeOK, NEW c \in Connections, NEW key \in BOOLEAN, NEW ks \in SUBSET Sets,
           NEW f \in Frames, NEW v \in Renewals(c, ks), OnNALU(c, key, v, ks, f)
    PROVE  \/ sample' = sample
           \/ /\ sample'.key = key /\ sample'.latest = v
              /\ sample'.unit = Unit(c, v, ks, f)
              /\ sample'.data = Adorn(c, key, Unit(c, v, ks, f))
              /\ ~sample'.odd => Plain[c] = Sets /\ c \notin split' \cup shadowed'
<1> DEFINE unit == Unit(c, v, ks, f)
<1>1. unit \in Seq(NalUnits) /\ Parse(unit) = unit
      BY RenewalsAre, UnitType, ParseTakesAll
<1> HIDE DEF unit
<1>2. \/ sample' = sample
      \/ sample' = [key |-> key, unit |-> unit, data |-> Adorn(c, key, unit),
                    latest |-> v, odd |-> \/ Plain[c] # Sets
                                          \/ c \in split' \cup shadowed']
      BY <1>1 DEF OnNALU, unit
<1>3. QED BY <1>2 DEF unit

LEMMA FramesStep == TypeOK /\ FramesKept /\ [Next]_vars => FramesKept'
<1> SUFFICES ASSUME TypeOK, FramesKept, [Next]_vars PROVE FramesKept'
    OBVIOUS
<1>1. CASE sample' = sample
      BY <1>1 DEF FramesKept
<1>2. ASSUME NEW c \in Connections, NEW key \in BOOLEAN, NEW ks \in SUBSET Sets,
             NEW f \in Frames, NEW v \in Renewals(c, ks), OnNALU(c, key, v, ks, f)
      PROVE  FramesKept'
  <2> DEFINE unit == Unit(c, v, ks, f)
  <2>1. unit \in Seq(NalUnits)
        BY RenewalsAre, UnitType
  <2>2. Framed(unit, Adorn(c, key, unit))
        BY <2>1, AdornFramed
  <2>3. \/ sample' = sample
        \/ sample'.unit = unit /\ sample'.data = Adorn(c, key, unit)
    <3> HIDE DEF unit
    <3>1. QED BY <1>2, NALUSample DEF unit
  <2> HIDE DEF unit
  <2>4. CASE sample'.unit = unit /\ sample'.data = Adorn(c, key, unit)
    <3>1. Framed(sample'.unit, sample'.data)
          BY <2>2, <2>4
    <3>2. QED BY <3>1 DEF FramesKept, Framed
  <2>5. QED BY <1>1, <2>3, <2>4
<1>3. ASSUME NEW c \in Connections, OnVideo(c)
      PROVE  FramesKept'
      BY <1>1, <1>2, <1>3 DEF OnVideo, OnSequenceHeader, OnUnknown
<1>4. QED BY <1>1, <1>3 DEF Next, vars

\* Whatever the sizes of the NAL units of a frame and however many there are, the
\* sample that OnVideo writes has all of them, in order, behind nothing but
\* parameter sets: the loop over a packet never stops short of its end.
THEOREM FramesAreKept == Spec => []FramesKept
BY TypeInitially, TypeStep, FramesInitially, FramesStep, PTL DEF Spec

-----------------------------------------------------------------------------
(* Key frames.                                                             *)

\* Two sets in front of slices: where OnVideo and a decoder find them.
Front(s, p, w) == <<s, p>> \o w

LEMMA SetsInFront ==
    ASSUME NEW s \in NalUnits, NEW p \in NalUnits, s.id = "sps", p.id = "pps",
           NEW w \in Seq(NalUnits), \A i \in 1..Len(w) : w[i].id = "slice"
    PROVE  /\ Front(s, p, w)[1] = s /\ Front(s, p, w)[2] = p
           /\ 1 \in DOMAIN Front(s, p, w) /\ 2 \in DOMAIN Front(s, p, w)
           /\ \A i \in DOMAIN Front(s, p, w) :
                 /\ Front(s, p, w)[i].id = "sps" <=> i = 1
                 /\ Front(s, p, w)[i].id = "pps" <=> i = 2
<1> DEFINE d == Front(s, p, w)
<1>1. /\ Len(w) \in Nat /\ DOMAIN d = 1..(Len(w) + 2)
      /\ d[1] = s /\ d[2] = p
  <2>1. <<s, p>> \in Seq(NalUnits) /\ Len(<<s, p>>) = 2
        OBVIOUS
  <2>2. QED BY <2>1 DEF Front
<1>2. ASSUME NEW j \in 1..Len(w) PROVE d[j + 2] = w[j]
  <2>1. <<s, p>> \in Seq(NalUnits) /\ Len(<<s, p>>) = 2
        OBVIOUS
  <2>2. QED BY <2>1 DEF Front
<1> HIDE DEF d
<1>3. ASSUME NEW i \in DOMAIN d, i # 1, i # 2 PROVE d[i].id = "slice"
  <2>1. i - 2 \in 1..Len(w) /\ (i - 2) + 2 = i
        BY <1>1, <1>3
  <2>2. QED BY <1>2, <2>1
<1>4. ASSUME NEW i \in DOMAIN d
      PROVE  (d[i].id = "sps" <=> i = 1) /\ (d[i].id = "pps" <=> i = 2)
  <2>1. CASE i = 1
        BY <1>1, <2>1
  <2>2. CASE i = 2
        BY <1>1, <2>2
  <2>3. CASE i # 1 /\ i # 2
        BY <1>1, <1>3, <2>3
  <2>4. QED BY <2>1, <2>2, <2>3
<1>5. 1 \in DOMAIN d /\ 2 \in DOMAIN d
      BY <1>1
<1>6. QED BY <1>1, <1>4, <1>5 DEF d

LEMMA DecodedIs ==
    ASSUME NEW s \in NalUnits, NEW p \in NalUnits, s.id = "sps", p.id = "pps",
           NEW w \in Seq(NalUnits), \A i \in 1..Len(w) : w[i].id = "slice"
    PROVE  /\ Decoded(Front(s, p, w), "sps") = s.version
           /\ Decoded(Front(s, p, w), "pps") = p.version
<1> DEFINE d == Front(s, p, w)
<1>1. /\ d[1] = s /\ d[2] = p /\ 1 \in DOMAIN d /\ 2 \in DOMAIN d
      /\ \A i \in DOMAIN d : (d[i].id = "sps" <=> i = 1) /\ (d[i].id = "pps" <=> i = 2)
      BY SetsInFront
<1>2. Max({1}) = 1 /\ Max({2}) = 2
      BY MaxOfOne
<1> HIDE DEF d
<1>3. /\ {i \in DOMAIN d : d[i].id = "sps"} = {1}
      /\ {i \in DOMAIN d : d[i].id = "pps"} = {2}
      BY <1>1
<1>4. Decoded(d, "sps") = d[1].version /\ Decoded(d, "pps") = d[2].version
      BY <1>2, <1>3, Zenon DEF Decoded
<1>5. QED BY <1>1, <1>4 DEF d

\* The sets that v names, and slices.
Adorned(c, v, f) ==
    Front(ParameterSet(c, "sps", v["sps"]), ParameterSet(c, "pps", v["pps"]), Slices(f))

LEMMA VersionsAre ==
    ASSUME NEW v \in [Sets -> 0..MaxVersion], NEW c \in Connections
    PROVE  /\ v["sps"] \in Nat /\ v["pps"] \in Nat
           /\ ParameterSet(c, "sps", v["sps"]) \in NalUnits
           /\ ParameterSet(c, "pps", v["pps"]) \in NalUnits
<1>1. "sps" \in Sets /\ "pps" \in Sets
      BY DEF Sets
<1>2. v["sps"] \in Nat /\ v["pps"] \in Nat
      BY <1>1, RtmpVideoAssumption
<1>3. QED BY <1>1, <1>2, ParameterSetType

LEMMA PlainUnit ==
    ASSUME NEW c, NEW v, NEW f \in Frames
    PROVE  Unit(c, v, {}, f) = Slices(f)
<1>1. InBand(c, v, {}, "sps") = <<>> /\ InBand(c, v, {}, "pps") = <<>>
      BY DEF InBand
<1>2. Slices(f) \in Seq(NalUnits)
      BY SlicesType
<1>3. <<>> \o <<>> = <<>>
      OBVIOUS
<1>4. QED BY <1>1, <1>2, <1>3, ConcatEmptySeq DEF Unit

LEMMA Pairs ==
    ASSUME NEW s, NEW p
    PROVE  <<s>> \o <<p>> = <<s, p>> /\ <<s, p>> \o <<>> = <<s, p>>
<1>1. <<s>> \in Seq({s, p}) /\ <<p>> \in Seq({s, p}) /\ <<s, p>> \in Seq({s, p})
      OBVIOUS
<1>2. /\ <<s>> \o <<p>> \in Seq({s, p}) /\ Len(<<s>> \o <<p>>) = 2
      /\ (<<s>> \o <<p>>)[1] = s /\ (<<s>> \o <<p>>)[2] = p
      BY <1>1, ConcatProperties
<1>3. Len(<<s, p>>) = 2 /\ <<s, p>>[1] = s /\ <<s, p>>[2] = p
      OBVIOUS
<1>4. ASSUME NEW i \in 1..2 PROVE (<<s>> \o <<p>>)[i] = <<s, p>>[i]
      BY <1>2, <1>3
<1>5. <<s>> \o <<p>> = <<s, p>>
      BY <1>1, <1>2, <1>3, <1>4, SeqEqual
<1>6. QED BY <1>1, <1>5, ConcatEmptySeq

LEMMA AdornedUnit ==
    ASSUME NEW c, NEW v, NEW f
    PROVE  Unit(c, v, Sets, f) = Adorned(c, v, f)
<1> DEFINE s == ParameterSet(c, "sps", v["sps"])
           p == ParameterSet(c, "pps", v["pps"])
<1>1. InBand(c, v, Sets, "sps") = <<s>> /\ InBand(c, v, Sets, "pps") = <<p>>
      BY DEF InBand, Sets
<1> HIDE DEF s, p
<1>2. <<s>> \o <<p>> = <<s, p>>
      BY Pairs
<1>3. QED BY <1>1, <1>2 DEF Unit, Adorned, Front, s, p

\* Slices leave the handler as it is, and are adorned.
LEMMA KeepOfSlices ==
    ASSUME NEW f \in Frames
    PROVE  /\ \A kept : \A k \in Sets : Keep(kept, Slices(f), k) = kept
           /\ ~HasSpsPps(Slices(f))
<1>1. ASSUME NEW i \in DOMAIN Slices(f), NEW k \in Sets PROVE ~IsSet(Slices(f)[i], k)
  <2>1. Slices(f)[i].id = "slice"
        BY SlicesType
  <2>2. QED BY <2>1 DEF IsSet, Sets
<1>2. ASSUME NEW k \in Sets PROVE {i \in DOMAIN Slices(f) : IsSet(Slices(f)[i], k)} = {}
      BY <1>1
<1>3. QED BY <1>1, <1>2 DEF Keep, HasSpsPps

LEMMA KeepInFront ==
    ASSUME NEW s \in NalUnits, NEW p \in NalUnits, s.id = "sps", p.id = "pps",
           NEW w \in Seq(NalUnits), \A i \in 1..Len(w) : w[i].id = "slice",
           s.plain, p.plain
    PROVE  /\ \A kept : /\ Keep(kept, Front(s, p, w), "sps") = <<s>>
                        /\ Keep(kept, Front(s, p, w), "pps") = <<p>>
           /\ HasSpsPps(Front(s, p, w))
<1> DEFINE d == Front(s, p, w)
<1>1. /\ d[1] = s /\ d[2] = p /\ 1 \in DOMAIN d /\ 2 \in DOMAIN d
      /\ \A i \in DOMAIN d : (d[i].id = "sps" <=> i = 1) /\ (d[i].id = "pps" <=> i = 2)
      BY SetsInFront
<1> HIDE DEF d
<1>2. /\ {i \in DOMAIN d : IsSet(d[i], "sps")} = {1}
      /\ {i \in DOMAIN d : IsSet(d[i], "pps")} = {2}
      BY <1>1 DEF IsSet
<1>3. Max({1}) = 1 /\ Max({2}) = 2
      BY MaxOfOne
<1>4. \A kept : Keep(kept, d, "sps") = <<s>> /\ Keep(kept, d, "pps") = <<p>>
      BY <1>1, <1>2, <1>3 DEF Keep
<1>5. HasSpsPps(d)
  <2>1. "sps" \in Sets /\ IsSet(d[1], "sps") /\ 1 \in DOMAIN d
        BY <1>1 DEF Sets, IsSet
  <2>2. QED BY <2>1 DEF HasSpsPps
<1>6. QED BY <1>4, <1>5 DEF d

\* Sets in band are what the handler has afterwards.
LEMMA KeepOfSets ==
    ASSUME NEW c \in Connections, Plain[c] = Sets,
           NEW v \in [Sets -> 0..MaxVersion], NEW f \in Frames
    PROVE  /\ \A kept : /\ Keep(kept, Adorned(c, v, f), "sps")
                               = <<ParameterSet(c, "sps", v["sps"])>>
                        /\ Keep(kept, Adorned(c, v, f), "pps")
                               = <<ParameterSet(c, "pps", v["pps"])>>
           /\ HasSpsPps(Adorned(c, v, f))
<1> DEFINE s == ParameterSet(c, "sps", v["sps"])
           p == ParameterSet(c, "pps", v["pps"])
           w == Slices(f)
<1>1. s \in NalUnits /\ p \in NalUnits
      BY VersionsAre
<1>2. s.id = "sps" /\ s.plain /\ p.id = "pps" /\ p.plain
      BY DEF ParameterSet, Sets
<1>3. w \in Seq(NalUnits) /\ \A i \in 1..Len(w) : w[i].id = "slice"
      BY SlicesType
<1> HIDE DEF s, p, w
<1>4. /\ \A kept : /\ Keep(kept, Front(s, p, w), "sps") = <<s>>
                   /\ Keep(kept, Front(s, p, w), "pps") = <<p>>
      /\ HasSpsPps(Front(s, p, w))
      BY <1>1, <1>2, <1>3, KeepInFront
<1>5. QED BY <1>4 DEF Adorned, s, p, w

\* What the client sent, and what its handler has, after a packet.
LEMMA NALUHandler ==
    ASSUME TypeOK, NEW c \in Connections, NEW key \in BOOLEAN, NEW ks \in SUBSET Sets,
           NEW f \in Frames, NEW v \in Renewals(c, ks), OnNALU(c, key, v, ks, f)
    PROVE  LET unit == Unit(c, v, ks, f)
           IN  /\ sps' = [sps EXCEPT ![c] = Keep(sps[c], unit, "sps")]
               /\ pps' = [pps EXCEPT ![c] = Keep(pps[c], unit, "pps")]
               /\ latest' = [latest EXCEPT ![c] = v]
<1> DEFINE unit == Unit(c, v, ks, f)
<1>1. unit \in Seq(NalUnits) /\ Parse(unit) = unit
      BY RenewalsAre, UnitType, ParseTakesAll
<1> HIDE DEF unit
<1>2. QED BY <1>1 DEF OnNALU, unit, TypeOK

\* A client that is regular after a packet sent both sets in band, or none and
\* was regular before.
LEMMA RegularPackets ==
    ASSUME TypeOK, NEW c \in Connections, NEW key \in BOOLEAN, NEW ks \in SUBSET Sets,
           NEW f \in Frames, NEW v \in Renewals(c, ks), OnNALU(c, key, v, ks, f),
           Plain[c] = Sets, c \notin split' \cup shadowed', \A k \in Sets : v[k] > 0
    PROVE  ks = Sets \/ (ks = {} /\ Regular(c) /\ v = latest[c])
<1>1. split' = CASE ks = {}   -> split
                 [] ks = Sets -> split \ {c}
                 [] OTHER     -> split \cup {c}
      BY DEF OnNALU
<1>2. shadowed' = IF "pps" \in ks THEN shadowed \ {c} ELSE shadowed
      BY DEF OnNALU
<1>3. ks = {} \/ ks = Sets
      BY <1>1
<1>4. ASSUME ks = {} PROVE Regular(c) /\ v = latest[c]
  <2>1. v \in [Sets -> 0..MaxVersion] /\ \A k \in Sets : v[k] = latest[c][k]
        BY <1>4 DEF Renewals
  <2>2. latest[c] \in [Sets -> 0..MaxVersion]
        BY DEF TypeOK
  <2>3. v = latest[c]
        BY <2>1, <2>2
  <2>4. shadowed' = shadowed
        BY <1>2, <1>4
  <2>5. split' = split
        BY <1>1, <1>4 DEF Sets
  <2>6. QED BY <2>3, <2>4, <2>5 DEF Regular
<1>5. QED BY <1>3, <1>4

LEMMA OthersStay ==
    ASSUME TypeOK, HandlersReady, NEW c \in Connections, NEW d \in Connections, d # c,
           sps'[d] = sps[d], pps'[d] = pps[d], latest'[d] = latest[d],
           d \in split' <=> d \in split, d \in shadowed' <=> d \in shadowed
    PROVE  Regular(d)' => Ready(d)'
<1>1. Regular(d)' <=> Regular(d)
      BY DEF Regular
<1>2. Ready(d)' <=> Ready(d)
      BY DEF Ready, Newest
<1>3. QED BY <1>1, <1>2 DEF HandlersReady

LEMMA NALUReady ==
    ASSUME TypeOK, HandlersReady,
           NEW c \in Connections, NEW key \in BOOLEAN, NEW ks \in SUBSET Sets,
           NEW f \in Frames, NEW v \in Renewals(c, ks), OnNALU(c, key, v, ks, f)
    PROVE  HandlersReady'
<1>1. v \in [Sets -> 0..MaxVersion]
      BY RenewalsAre
<1>2. /\ sps' = [sps EXCEPT ![c] = Keep(sps[c], Unit(c, v, ks, f), "sps")]
      /\ pps' = [pps EXCEPT ![c] = Keep(pps[c], Unit(c, v, ks, f), "pps")]
      /\ latest' = [latest EXCEPT ![c] = v]
      BY NALUHandler
<1>3. ASSUME NEW d \in Connections, d # c PROVE Regular(d)' => Ready(d)'
  <2>1. sps'[d] = sps[d] /\ pps'[d] = pps[d] /\ latest'[d] = latest[d]
        BY <1>2, <1>3 DEF TypeOK
  <2>2. split' \in {split, split \ {c}, split \cup {c}}
        BY DEF OnNALU
  <2>3. shadowed' \in {shadowed, shadowed \ {c}}
        BY DEF OnNALU
  <2>4. QED BY <1>3, <2>1, <2>2, <2>3, OthersStay
<1>4. ASSUME Regular(c)' PROVE Ready(c)'
  <2>1. latest'[c] = v
        BY <1>2 DEF TypeOK
  <2>2. Plain[c] = Sets /\ c \notin split' \cup shadowed' /\ \A k \in Sets : v[k] > 0
        BY <1>4, <2>1 DEF Regular
  <2>3. /\ sps'[c] = Keep(sps[c], Unit(c, v, ks, f), "sps")
        /\ pps'[c] = Keep(pps[c], Unit(c, v, ks, f), "pps")
        BY <1>2 DEF TypeOK
  <2>4. CASE ks = Sets
    <3>1. Unit(c, v, ks, f) = Adorned(c, v, f)
          BY <2>4, AdornedUnit
    <3>2. /\ sps'[c] = <<ParameterSet(c, "sps", v["sps"])>>
          /\ pps'[c] = <<ParameterSet(c, "pps", v["pps"])>>
          BY <1>1, <2>2, <2>3, <3>1, KeepOfSets
    <3>3. QED BY <2>1, <3>2 DEF Ready, Newest
  <2>5. CASE ks = {} /\ Regular(c) /\ v = latest[c]
    <3>1. Unit(c, v, ks, f) = Slices(f)
          BY <2>5, PlainUnit
    <3>2. "sps" \in Sets /\ "pps" \in Sets
          BY DEF Sets
    <3>3. sps'[c] = sps[c] /\ pps'[c] = pps[c]
          BY <2>3, <3>1, <3>2, KeepOfSlices
    <3>4. Ready(c)
          BY <2>5 DEF HandlersReady
    <3>5. QED BY <2>1, <2>5, <3>3, <3>4 DEF Ready, Newest
  <2>6. QED BY <2>2, <2>4, <2>5, RegularPackets
<1>5. QED BY <1>3, <1>4 DEF HandlersReady

LEMMA SequenceHeaderReady ==
    ASSUME TypeOK, HandlersReady, NEW c \in Connections, NEW v \in Renewals(c, Sets),
           OnSequenceHeader(c, v)
    PROVE  HandlersReady'
<1>1. /\ sps' = [sps EXCEPT ![c] = Collect(c, v)] /\ pps' = pps
      /\ latest' = [latest EXCEPT ![c] = v]
      /\ split' = split \ {c}
      /\ shadowed' = IF pps[c] = <<>> THEN shadowed ELSE shadowed \cup {c}
      BY DEF OnSequenceHeader
<1>2. ASSUME NEW d \in Connections, d # c PROVE Regular(d)' => Ready(d)'
  <2>1. sps'[d] = sps[d] /\ pps'[d] = pps[d] /\ latest'[d] = latest[d]
        BY <1>1, <1>2 DEF TypeOK
  <2>2. (d \in split' <=> d \in split) /\ (d \in shadowed' <=> d \in shadowed)
        BY <1>1, <1>2
  <2>3. QED BY <1>2, <2>1, <2>2, OthersStay
<1>3. ASSUME Regular(c)' PROVE Ready(c)'
  <2>1. latest'[c] = v /\ sps'[c] = Collect(c, v) /\ pps'[c] = pps[c]
        BY <1>1 DEF TypeOK
  <2>2. Plain[c] = Sets /\ c \notin shadowed'
        BY <1>3 DEF Regular
  <2>3. pps[c] = <<>>
        BY <1>1, <2>2
  <2>4. Collect(c, v) = <<ParameterSet(c, "sps", v["sps"]), ParameterSet(c, "pps", v["pps"])>>
        BY <2>2 DEF Collect, Sets
  <2>5. QED BY <2>1, <2>3, <2>4 DEF Ready, Newest
<1>4. QED BY <1>2, <1>3 DEF HandlersReady

LEMMA ReadyInitially == Init => HandlersReady
<1> SUFFICES ASSUME Init, NEW c \in Connections PROVE ~Regular(c)
    BY DEF HandlersReady
<1>1. "sps" \in Sets /\ latest[c]["sps"] = 0
      BY DEF Init, Sets
<1>2. QED BY <1>1 DEF Regular

LEMMA ReadyStep == TypeOK /\ HandlersReady /\ [Next]_vars => HandlersReady'
<1> SUFFICES ASSUME TypeOK, HandlersReady, [Next]_vars PROVE HandlersReady'
    OBVIOUS
<1>1. CASE UNCHANGED <<handlerVars, historyVars>>
      BY <1>1 DEF HandlersReady, Regular, Ready, Newest, handlerVars, historyVars
<1>2. ASSUME NEW c \in Connections, OnVideo(c) PROVE HandlersReady'
      BY <1>1, <1>2, NALUReady, SequenceHeaderReady DEF OnVideo, OnUnknown
<1>3. QED BY <1>1, <1>2 DEF Next, vars

\* Whatever a client has sent, its handler has the newest SPS and PPS, in one of
\* the two places where OnVideo puts them, unless the client is one of those for
\* which the code does not see to it.
THEOREM HandlersAreReady == Spec => []HandlersReady
BY TypeInitially, TypeStep, ReadyInitially, ReadyStep, PTL DEF Spec

\* A key frame of a regular client is written with the newest sets in front.
LEMMA KeyFrameData ==
    ASSUME TypeOK, HandlersReady, NEW c \in Connections, NEW ks \in SUBSET Sets,
           NEW f \in Frames, NEW v \in Renewals(c, ks), OnNALU(c, TRUE, v, ks, f),
           Plain[c] = Sets, c \notin split' \cup shadowed', \A k \in Sets : v[k] > 0
    PROVE  Adorn(c, TRUE, Unit(c, v, ks, f)) = Adorned(c, v, f)
<1>1. v \in [Sets -> 0..MaxVersion]
      BY RenewalsAre
<1>2. CASE ks = Sets
  <2>1. Unit(c, v, ks, f) = Adorned(c, v, f)
        BY <1>2, AdornedUnit
  <2>2. HasSpsPps(Adorned(c, v, f))
        BY <1>1, KeepOfSets
  <2>3. QED BY <2>1, <2>2 DEF Adorn
<1>3. CASE ks = {} /\ Regular(c) /\ v = latest[c]
  <2> DEFINE s == ParameterSet(c, "sps", v["sps"])
             p == ParameterSet(c, "pps", v["pps"])
  <2>1. Unit(c, v, ks, f) = Slices(f) /\ ~HasSpsPps(Slices(f))
        BY <1>3, PlainUnit, KeepOfSlices
  <2>2. Ready(c)
        BY <1>3 DEF HandlersReady
  <2>3. \/ sps[c] = <<s>> /\ pps[c] = <<p>>
        \/ sps[c] = <<s, p>> /\ pps[c] = <<>>
        BY <1>3, <2>2 DEF Ready, Newest
  <2> HIDE DEF s, p
  <2>4. Prefix(c) = <<s, p>>
    <3>1. <<s>> \o <<p>> = <<s, p>> /\ <<s, p>> \o <<>> = <<s, p>>
          BY Pairs
    <3>2. QED BY <2>3, <3>1 DEF Prefix
  <2>5. QED BY <2>1, <2>4 DEF Adorn, Adorned, Front, s, p
<1>4. QED BY <1>2, <1>3, RegularPackets

LEMMA KeyFramesStep ==
    TypeOK /\ HandlersReady /\ KeyFramesStandAlone /\ [Next]_vars => KeyFramesStandAlone'
<1> SUFFICES ASSUME TypeOK, HandlersReady, KeyFramesStandAlone, [Next]_vars
             PROVE  KeyFramesStandAlone'
    OBVIOUS
<1>1. CASE sample' = sample
      BY <1>1 DEF KeyFramesStandAlone
<1>2. ASSUME NEW c \in Connections, NEW key \in BOOLEAN, NEW ks \in SUBSET Sets,
             NEW f \in Frames, NEW v \in Renewals(c, ks), OnNALU(c, key, v, ks, f),
             sample' # sample,
             sample'.key, ~sample'.odd, \A k \in Sets : sample'.latest[k] > 0,
             NEW k \in Sets
      PROVE  Decoded(sample'.data, k) = sample'.latest[k]
  <2> DEFINE unit == Unit(c, v, ks, f)
             s == ParameterSet(c, "sps", v["sps"])
             p == ParameterSet(c, "pps", v["pps"])
  <2>1. /\ sample'.key = key /\ sample'.data = Adorn(c, key, unit)
        /\ sample'.latest = v
        /\ Plain[c] = Sets /\ c \notin split' \cup shadowed'
        BY <1>2, NALUSample
  <2>2. \A j \in Sets : v[j] > 0
        BY <1>2, <2>1
  <2>3. sample'.data = Adorned(c, v, f)
        BY <1>2, <2>1, <2>2, KeyFrameData
  <2>4. s \in NalUnits /\ p \in NalUnits
        BY <1>2, RenewalsAre, VersionsAre
  <2>5. /\ s.id = "sps" /\ s.version = v["sps"]
        /\ p.id = "pps" /\ p.version = v["pps"]
        BY DEF ParameterSet
  <2>6. /\ Decoded(Front(s, p, Slices(f)), "sps") = v["sps"]
        /\ Decoded(Front(s, p, Slices(f)), "pps") = v["pps"]
    <3>1. Slices(f) \in Seq(NalUnits) /\ \A i \in 1..Len(Slices(f)) : Slices(f)[i].id = "slice"
          BY SlicesType
    <3> HIDE DEF s, p
    <3>2. QED BY <2>4, <2>5, <3>1, DecodedIs
  <2>7. QED BY <2>1, <2>3, <2>6 DEF Adorned, Sets
<1>3. ASSUME NEW c \in Connections, OnVideo(c) PROVE KeyFramesStandAlone'
  <2>1. CASE OnUnknown(c) \/ \E v \in Renewals(c, Sets) : OnSequenceHeader(c, v)
        BY <1>1, <2>1 DEF OnSequenceHeader, OnUnknown
  <2>2. ASSUME NEW key \in BOOLEAN, NEW ks \in SUBSET Sets,
               NEW f \in Frames, NEW v \in Renewals(c, ks), OnNALU(c, key, v, ks, f)
        PROVE  KeyFramesStandAlone'
        BY <1>1, <1>2, <2>2 DEF KeyFramesStandAlone
  <2>3. QED BY <1>3, <2>1, <2>2 DEF OnVideo
<1>4. QED BY <1>1, <1>3 DEF Next, vars

LEMMA KeyFramesInitially == Init => KeyFramesStandAlone
BY DEF Init, KeyFramesStandAlone

\* However headers, sets in band and frames without sets are mixed, a key frame
\* that is written to the track brings the SPS and the PPS its client sent last,
\* but for a client that split the two or sent a header after a PPS in band.
THEOREM KeyFramesDecode == Spec => []KeyFramesStandAlone
BY TypeInitially, TypeStep, ReadyInitially, ReadyStep, KeyFramesInitially, KeyFramesStep,
   PTL DEF Spec
=============================================================================
