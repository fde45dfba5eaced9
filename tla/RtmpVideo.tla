------------------------------- MODULE RtmpVideo -------------------------------
(***************************************************************************)
(* The RTMP source of the edge: handler.OnVideo turns the AVC packets of a  *)
(* client into Annex-B samples and keeps the parameter sets it has seen, to *)
(* put them in front of key frames that come without.  Every connection has *)
(* a handler of its own; all of them write to the one video track.         *)
(*                                                                         *)
(* A parameter set is a NAL unit with a version, a slice one with a size.   *)
(* Packets are well formed: the lengths in them add up.                    *)
(***************************************************************************)
EXTENDS Naturals, Sequences, FiniteSetsExt

CONSTANTS
    Connections, \* RTMP clients
    Plain,       \* the sets each of them marks as OnVideo expects (0x67, 0x68)
    Frames,      \* what a frame may consist of: sequences of slice sizes
    MaxPackets,  \* bound: packets sent by all clients
    MaxVersion   \* bound: versions of a parameter set

Sets == {"sps", "pps"}

ASSUME RtmpVideoAssumption ==
    /\ Plain \in [Connections -> SUBSET Sets]
    /\ \A f \in Frames : f \in Seq(Nat \ {0}) /\ f # <<>>
    /\ MaxPackets \in Nat /\ MaxVersion \in Nat

VARIABLES
    open,     \* the connection is served
    sps, pps, \* handler.sps and handler.pps, as sequences of NAL units
    latest,   \* history: the versions each client sent last, 0 for none
    split,    \* history: clients that last sent one set without the other
    shadowed, \* history: clients whose last header found a PPS sent in band
    sample,   \* the last sample written to the track, and what it is about
    packets   \* number of packets so far

handlerVars == <<sps, pps>>
historyVars == <<latest, split, shadowed>>
vars == <<open, handlerVars, historyVars, sample, packets>>

HeaderLength == 4    \* headerLengthField

ParameterSet(c, k, version) ==
    [id |-> k, version |-> version, size |-> 2, plain |-> k \in Plain[c]]
Slice(size) == [id |-> "slice", version |-> 0, size |-> size, plain |-> TRUE]

IsSet(nal, k) == nal.id = k /\ nal.plain

-----------------------------------------------------------------------------
\* OnConnect: a handler with neither set.
Init ==
    /\ open = [c \in Connections |-> TRUE]
    /\ sps = [c \in Connections |-> <<>>]
    /\ pps = [c \in Connections |-> <<>>]
    /\ latest = [c \in Connections |-> [k \in Sets |-> 0]]
    /\ split = {} /\ shadowed = {}
    /\ sample = [key |-> FALSE, unit |-> <<>>, data |-> <<>>,
                 latest |-> [k \in Sets |-> 0], odd |-> TRUE]
    /\ packets = 0

-----------------------------------------------------------------------------
(* Packets of a client.                                                    *)

Receive(c) ==
    /\ open[c]
    /\ packets < MaxPackets
    /\ packets' = packets + 1

\* Versions after sending the sets ks, each of them the old or a new one.
Renewals(c, ks) ==
    {v \in [Sets -> 0..MaxVersion] :
        \A k \in Sets : IF k \in ks
                        THEN v[k] \in {latest[c][k], latest[c][k] + 1} \ {0}
                        ELSE v[k] = latest[c][k]}

\* The access unit with the sets ks in band and slices of the sizes f.
InBand(c, v, ks, k) == IF k \in ks THEN <<ParameterSet(c, k, v[k])>> ELSE <<>>

Slices(f) == [i \in DOMAIN f |-> Slice(f[i])]

Unit(c, v, ks, f) ==
    InBand(c, v, ks, "sps") \o InBand(c, v, ks, "pps") \o Slices(f)

\* An error goes back to the server, which may close the connection.
ReturnError(c) == open' \in {open, [open EXCEPT ![c] = FALSE]}

-----------------------------------------------------------------------------
(* A NALU packet.                                                          *)

\* Where the length field of the ith NAL unit is; one past the last, the
\* length of the packet.
Offset(u, i) ==
    LET offset[j \in 1..(Len(u) + 1)] ==
            IF j = 1 THEN 0 ELSE offset[j - 1] + HeaderLength + u[j - 1].size
    IN  offset[i]

\* Slip: the length field is counted in, and the last one never fits.
DoesNotFitWithHeader(u, i) ==
    Offset(u, i) + HeaderLength + u[i].size >= Offset(u, Len(u) + 1)

DoesNotFit(u, i) == Offset(u, i) + u[i].size >= Offset(u, Len(u) + 1)

\* The loop ends with the first NAL unit that does not fit.
Parse(u) ==
    LET bad == {i \in DOMAIN u : DoesNotFit(u, i)}
    IN  IF bad = {} THEN u ELSE SubSeq(u, 1, Min(bad) - 1)

\* What h.sps or h.pps is after the loop.
Keep(kept, nals, k) ==
    LET those == {i \in DOMAIN nals : IsSet(nals[i], k)}
    IN  IF those = {} THEN kept ELSE <<nals[Max(those)]>>

HasSpsPps(nals) == \E i \in DOMAIN nals, k \in Sets : IsSet(nals[i], k)

\* Slip: the PPS is taken to be part of h.sps, where a header leaves it.
PrefixSpsOnly(c) == sps[c]

Prefix(c) == sps[c] \o pps[c]

\* "We have an unadorned keyframe, append SPS/PPS".
Adorn(c, key, nals) ==
    IF key /\ ~HasSpsPps(nals) THEN Prefix(c) \o nals ELSE nals

OnNALU(c, key, v, ks, f) ==
    LET unit == Unit(c, v, ks, f)
        nals == Parse(unit)
    IN  /\ Receive(c)
        /\ sps' = [sps EXCEPT ![c] = Keep(@, nals, "sps")]
        /\ pps' = [pps EXCEPT ![c] = Keep(@, nals, "pps")]
        /\ latest' = [latest EXCEPT ![c] = v]
        /\ split' = CASE ks = {}   -> split
                      [] ks = Sets -> split \ {c}
                      [] OTHER     -> split \cup {c}
        /\ shadowed' = IF "pps" \in ks THEN shadowed \ {c} ELSE shadowed
        /\ \/ /\ sample' = [key |-> key, unit |-> unit,
                            data |-> Adorn(c, key, nals), latest |-> v,
                            odd |-> \/ Plain[c] # Sets
                                    \/ c \in split' \cup shadowed']
              /\ UNCHANGED open
           \/ ReturnError(c) /\ UNCHANGED sample     \* WriteSample fails

-----------------------------------------------------------------------------
(* A sequence header with one SPS and one PPS.                             *)

\* h.sps is reset and collects both sets, until one is not what it should be.
Collect(c, v) ==
    CASE "sps" \notin Plain[c] -> <<>>
      [] Plain[c] = {"sps"} -> <<ParameterSet(c, "sps", v["sps"])>>
      [] OTHER -> <<ParameterSet(c, "sps", v["sps"]),
                    ParameterSet(c, "pps", v["pps"])>>

OnSequenceHeader(c, v) ==
    /\ Receive(c)
    /\ sps' = [sps EXCEPT ![c] = Collect(c, v)]
    /\ IF Plain[c] = Sets THEN UNCHANGED open ELSE ReturnError(c)
    /\ latest' = [latest EXCEPT ![c] = v]
    /\ split' = split \ {c}
    /\ shadowed' = IF pps[c] = <<>> THEN shadowed ELSE shadowed \cup {c}
    /\ UNCHANGED <<pps, sample>>

\* Any other packet type is ignored.
OnUnknown(c) ==
    /\ Receive(c)
    /\ UNCHANGED <<open, handlerVars, historyVars, sample>>

-----------------------------------------------------------------------------
OnVideo(c) ==
    \/ \E key \in BOOLEAN, ks \in SUBSET Sets, f \in Frames :
          \E v \in Renewals(c, ks) : OnNALU(c, key, v, ks, f)
    \/ \E v \in Renewals(c, Sets) : OnSequenceHeader(c, v)
    \/ OnUnknown(c)

Next == \E c \in Connections : OnVideo(c)

Spec == Init /\ [][Next]_vars

-----------------------------------------------------------------------------
(* Correctness.                                                            *)

\* Nothing of a frame is lost or reordered, whatever the sizes of its NAL units
\* and wherever the loop of OnVideo ends, and nothing but parameter sets is put
\* in front of it.
FramesKept ==
    LET n == Len(sample.data) - Len(sample.unit)
    IN  /\ Len(sample.unit) <= Len(sample.data)
        /\ SubSeq(sample.data, n + 1, Len(sample.data)) = sample.unit
        /\ \A i \in 1..n : sample.data[i].id \in Sets

\* The version of set k that a decoder has when it got the sample alone.
Decoded(data, k) ==
    LET those == {i \in DOMAIN data : data[i].id = k}
    IN  IF those = {} THEN 0 ELSE data[Max(those)].version

\* Whoever joins at a key frame can decode it: the sample brings the SPS and the
\* PPS that its client sent last, in a header or in band.  Not so if the client
\* sent one in band without the other, or a header after a PPS in band, whose
\* PPS goes into h.sps while the older one stays in h.pps.
KeyFramesStandAlone ==
    sample.key /\ ~sample.odd /\ (\A k \in Sets : sample.latest[k] > 0) =>
        \A k \in Sets : Decoded(sample.data, k) = sample.latest[k]
=============================================================================
