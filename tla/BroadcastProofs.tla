---------------------------- MODULE BroadcastProofs ----------------------------
(***************************************************************************)
(* Theorems about the cloud service, for any number of streams, publishers *)
(* and viewers and any bound on the link reports.                          *)
(***************************************************************************)
EXTENDS Broadcast, FiniteSetTheorems, TLAPS

-----------------------------------------------------------------------------
(* Type correctness.                                                       *)

\* What the comparison after the switch leaves of the types.
LEMMA CompareTypes ==
    ASSUME TypeOK, NEW p \in Peers, NEW old, NEW new,
           CompareCounters(p, old, new)
    PROVE  /\ sessions' \in [Keys -> Publishers \cup {None}]
           /\ phase' \in [Peers -> {"idle", "load", "store", "notify"}]
           /\ delta' \in [Peers -> -1..1]
           /\ val' \in [Peers -> Int]
<1>1. ASSUME NEW n \in {-1, 1}, CallUpdateCounter(p, n)
      PROVE  /\ phase' \in [Peers -> {"idle", "load", "store", "notify"}]
             /\ delta' \in [Peers -> -1..1]
             /\ val' \in [Peers -> Int]
  <2>1. CASE p \in Viewers
    <3>1. n \in -1..1
          OBVIOUS
    <3>2. QED BY <1>1, <2>1, <3>1 DEF TypeOK, CallUpdateCounter
  <2>2. CASE p \notin Viewers
        BY <1>1, <2>2 DEF TypeOK, CallUpdateCounter, updateVars
  <2>3. QED BY <2>1, <2>2
<1>2. ASSUME RegisterSession(p)
      PROVE  sessions' \in [Keys -> Publishers \cup {None}]
      BY <1>2 DEF TypeOK, RegisterSession
<1>3. QED BY <1>1, <1>2 DEF TypeOK, CompareCounters, updateVars

\* The types of the two ways a link callback changes the counter.
LEMMA CounterTypes ==
    ASSUME NEW n \in 0..(UintMod - 1)
    PROVE  Inc(n) \in 0..(UintMod - 1) /\ Dec(n) \in 0..(UintMod - 1)
BY BroadcastAssumption DEF Inc, Dec

LEMMA TypeInitially == Init => TypeOK
BY BroadcastAssumption DEF Init, TypeOK, CallbackStates, Peers

LEMMA TypeStep == TypeOK /\ [Next]_vars => TypeOK'
<1> SUFFICES ASSUME TypeOK, [Next]_vars PROVE TypeOK'
    OBVIOUS
<1>1. ASSUME NEW p \in Publishers, PublisherOffer(p) PROVE TypeOK'
      BY <1>1 DEF TypeOK, PublisherOffer, agentVars, updateVars, historyVars
<1>2. ASSUME NEW v \in Viewers, ViewerOffer(v) PROVE TypeOK'
      BY <1>2, BroadcastAssumption
      DEF TypeOK, ViewerOffer, agentVars, updateVars, historyVars, Peers
<1>3. ASSUME NEW p \in Peers, AgentLink(p) PROVE TypeOK'
  <2>1. reports' \in [Peers -> 0..MaxReports]
        BY <1>3, BroadcastAssumption DEF TypeOK, AgentLink
  <2>2. ASSUME NEW s \in CallbackStates, Report(p, s)
        PROVE  /\ ice' \in [Peers -> CallbackStates \cup {"checking"}]
               /\ pending' \in [Peers -> [CallbackStates -> Nat]]
        BY <2>2 DEF TypeOK, Report
  <2>3. linked' \in [Peers -> BOOLEAN]
        BY <1>3 DEF TypeOK, AgentLink
  <2>4. QED BY <1>3, <2>1, <2>2, <2>3
            DEF TypeOK, AgentLink, CallbackStates, updateVars, historyVars
<1>4. ASSUME NEW p \in Peers, AgentFails(p) PROVE TypeOK'
      BY <1>4
      DEF TypeOK, AgentFails, Report, CallbackStates, updateVars, historyVars
<1>5. ASSUME NEW p \in Peers, RemoteCloses(p) PROVE TypeOK'
      BY <1>5
      DEF TypeOK, RemoteCloses, Report, CallbackStates, updateVars,
          historyVars
<1>6. ASSUME NEW p \in Peers, NEW s \in {"connected", "disconnected"},
             NEW new \in 0..(UintMod - 1), HandleLink(p, s, new)
      PROVE  TypeOK'
  <2>1. /\ sessions' \in [Keys -> Publishers \cup {None}]
        /\ phase' \in [Peers -> {"idle", "load", "store", "notify"}]
        /\ delta' \in [Peers -> -1..1]
        /\ val' \in [Peers -> Int]
        BY <1>6, CompareTypes DEF HandleLink
  <2>2. pending' \in [Peers -> [CallbackStates -> Nat]]
        BY <1>6 DEF TypeOK, HandleLink, Take, CallbackStates
  <2>3. connectionCounter' \in [Peers -> 0..(UintMod - 1)]
        BY <1>6 DEF TypeOK, HandleLink
  <2>4. QED BY <1>6, <2>1, <2>2, <2>3
            DEF TypeOK, HandleLink, agentVars, historyVars
<1>7. ASSUME NEW p \in Peers, HandleConnected(p) PROVE TypeOK'
      BY <1>6, <1>7, CounterTypes DEF HandleConnected, TypeOK
<1>8. ASSUME NEW p \in Peers, HandleDisconnected(p) PROVE TypeOK'
      BY <1>6, <1>8, CounterTypes DEF HandleDisconnected, TypeOK
<1>9. ASSUME NEW p \in Peers, HandleFailed(p) PROVE TypeOK'
      BY <1>9
      DEF TypeOK, HandleFailed, ClosePeerConnection, Take, CallbackStates, updateVars, historyVars
<1>a. ASSUME NEW p \in Peers, ClosePanics(p) PROVE TypeOK'
      BY <1>a DEF TypeOK, ClosePanics, agentVars, updateVars, historyVars
<1>10. ASSUME NEW p \in Peers, HandleClosed(p) PROVE TypeOK'
      BY <1>10
      DEF TypeOK, HandleClosed, Take, CallbackStates, agentVars, updateVars,
          historyVars
<1>11. ASSUME NEW v \in Viewers, CounterLoad(v) PROVE TypeOK'
  <2>1. v \in Peers /\ KeyOf[v] \in Keys
        BY BroadcastAssumption DEF Peers
  <2>2. counter[KeyOf[v]] \in Int /\ delta[v] \in Int
        BY <2>1 DEF TypeOK
  <2>3. QED BY <1>11, <2>1, <2>2
            DEF TypeOK, CounterLoad, agentVars, historyVars
<1>12. ASSUME NEW v \in Viewers, CounterStore(v) PROVE TypeOK'
  <2>1. v \in Peers /\ KeyOf[v] \in Keys
        BY BroadcastAssumption DEF Peers
  <2>2. raced' \in SUBSET Keys /\ late' \in SUBSET Keys
        BY <1>12, <2>1 DEF TypeOK, CounterStore, MarkIf
  <2>3. QED BY <1>12, <2>1, <2>2 DEF TypeOK, CounterStore, agentVars
<1>13. ASSUME NEW v \in Viewers, NotifySubscriptions(v) PROVE TypeOK'
  <2>1. v \in Peers /\ KeyOf[v] \in Keys
        BY BroadcastAssumption DEF Peers
  <2>2. QED BY <1>13, <2>1
            DEF TypeOK, NotifySubscriptions, agentVars, historyVars
<1>14. ASSUME NEW v \in Viewers, NEW w \in Viewers, MapFault(v, w)
       PROVE  TypeOK'
      BY <1>14 DEF TypeOK, MapFault, agentVars, updateVars, historyVars
<1>15. CASE UNCHANGED vars
      BY <1>15 DEF TypeOK, vars, agentVars, updateVars, historyVars
<1>16. QED
      BY <1>1, <1>2, <1>3, <1>4, <1>5, <1>7, <1>8, <1>9, <1>a, <1>10, <1>11,
         <1>12, <1>13, <1>14, <1>15
      DEF Next, Agent, Handler, Update

\* Every reachable state has the types the code declares.
THEOREM TypeCorrect == Spec => []TypeOK
BY TypeInitially, TypeStep, PTL DEF Spec

-----------------------------------------------------------------------------
(* The callbacks of one peer.  LinkAccounted alone is not inductive: that    *)
(* the unsigned counter can be read as a signed one needs a bound on the     *)
(* callbacks still waiting.                                                 *)

PendingBound ==
    \A p \in Peers :
        pending[p]["connected"] + pending[p]["disconnected"] <= reports[p]

\* The agent's state tells what it reported last.
IceLinked ==
    \A p \in Peers : /\ ice[p] = "connected" => linked[p]
                     /\ ice[p] \in {"checking", "disconnected"} => ~linked[p]

LinkInv == TypeOK /\ PendingBound /\ IceLinked /\ LinkAccounted

\* The sum LinkAccounted speaks of, for one peer.
Balance(p) ==
    Signed(connectionCounter[p])
        + pending[p]["connected"] - pending[p]["disconnected"]

\* The signed reading follows the unsigned counter as long as it stays within
\* the number of reports.
LEMMA SignedSteps ==
    ASSUME NEW n \in 0..(UintMod - 1)
    PROVE  /\ Signed(n) \in Int
           /\ Signed(n) <= MaxReports => Signed(Inc(n)) = Signed(n) + 1
           /\ Signed(n) >= -MaxReports => Signed(Dec(n)) = Signed(n) - 1
           /\ Signed(n) = 0 <=> n = 0
           /\ Signed(n) = 1 <=> n = 1
BY BroadcastAssumption DEF Inc, Dec, Signed

\* The types LinkInv's arithmetic needs, for one peer.
LEMMA LinkTypes ==
    ASSUME TypeOK, NEW p \in Peers
    PROVE  /\ connectionCounter[p] \in 0..(UintMod - 1)
           /\ pending[p]["connected"] \in Nat
           /\ pending[p]["disconnected"] \in Nat
           /\ reports[p] \in Nat /\ reports[p] <= MaxReports
           /\ linked[p] \in BOOLEAN
BY BroadcastAssumption DEF TypeOK, CallbackStates

\* What a step does to one peer's link: nothing, one of the two reports, or
\* one of the two link callbacks.
SameLink(q) ==
    /\ connectionCounter'[q] = connectionCounter[q]
    /\ linked'[q] = linked[q]
    /\ reports'[q] = reports[q]
    /\ ice'[q] \in {ice[q], "failed", "closed"}
    /\ pending'[q]["connected"] = pending[q]["connected"]
    /\ pending'[q]["disconnected"] = pending[q]["disconnected"]

Reported(q, s, other) ==
    /\ connectionCounter'[q] = connectionCounter[q]
    /\ reports'[q] = reports[q] + 1
    /\ ice'[q] = s
    /\ pending'[q][s] = pending[q][s] + 1
    /\ pending'[q][other] = pending[q][other]

Handled(q, s, other) ==
    /\ linked'[q] = linked[q]
    /\ reports'[q] = reports[q]
    /\ ice'[q] = ice[q]
    /\ pending[q][s] > 0
    /\ pending'[q][s] = pending[q][s] - 1
    /\ pending'[q][other] = pending[q][other]

LinkChange(q) ==
    \/ SameLink(q)
    \/ /\ ice[q] \in {"checking", "disconnected"}
       /\ Reported(q, "connected", "disconnected")
       /\ linked'[q] = TRUE
    \/ /\ ice[q] = "connected"
       /\ Reported(q, "disconnected", "connected")
       /\ linked'[q] = FALSE
    \/ /\ Handled(q, "connected", "disconnected")
       /\ connectionCounter'[q] = Inc(connectionCounter[q])
    \/ /\ Handled(q, "disconnected", "connected")
       /\ connectionCounter'[q] = Dec(connectionCounter[q])

LEMMA LinkChanges ==
    ASSUME TypeOK, [Next]_vars, NEW q \in Peers
    PROVE  LinkChange(q)
<1> USE DEF TypeOK, CallbackStates, LinkChange
<1>1. ASSUME UNCHANGED <<agentVars, pending, connectionCounter>>
      PROVE  SameLink(q)
      BY <1>1 DEF SameLink, agentVars
<1>2. ASSUME NEW p \in Peers, AgentLink(p) PROVE LinkChange(q)
  <2>1. CASE p # q
        BY <1>2, <2>1 DEF AgentLink, Report, SameLink
  <2>2. ASSUME NEW s \in {"connected", "disconnected"},
               NEW o \in {"connected", "disconnected"} \ {s},
               AgentLink(q), Report(q, s)
        PROVE  Reported(q, s, o)
        BY <2>2 DEF AgentLink, Report, Reported
  <2>3. CASE p = q
        BY <1>2, <2>2, <2>3 DEF AgentLink
  <2>4. QED BY <2>1, <2>3
<1>3. ASSUME NEW p \in Peers, AgentFails(p) PROVE SameLink(q)
      BY <1>3 DEF AgentFails, Report, SameLink
<1>4. ASSUME NEW p \in Peers, RemoteCloses(p) PROVE SameLink(q)
      BY <1>4 DEF RemoteCloses, Report, SameLink
<1>5. ASSUME NEW p \in Peers, NEW s \in {"connected", "disconnected"},
             NEW o \in {"connected", "disconnected"} \ {s},
             NEW new, HandleLink(p, s, new)
      PROVE  \/ SameLink(q)
             \/ p = q /\ Handled(q, s, o) /\ connectionCounter'[q] = new
      BY <1>5 DEF HandleLink, Take, agentVars, SameLink, Handled
<1>6. ASSUME NEW p \in Peers, HandleConnected(p) PROVE LinkChange(q)
      BY <1>5, <1>6 DEF HandleConnected
<1>7. ASSUME NEW p \in Peers, HandleDisconnected(p) PROVE LinkChange(q)
      BY <1>5, <1>7 DEF HandleDisconnected
<1>8. ASSUME NEW p \in Peers, HandleFailed(p) PROVE SameLink(q)
      BY <1>8 DEF HandleFailed, ClosePeerConnection, SameLink
<1>a. ASSUME NEW p \in Peers, ClosePanics(p) PROVE SameLink(q)
      BY <1>1, <1>a DEF ClosePanics
<1>9. ASSUME NEW p \in Peers, HandleClosed(p) PROVE SameLink(q)
      BY <1>9 DEF HandleClosed, SameLink, agentVars
<1>10. ASSUME NEW p \in Publishers, PublisherOffer(p) PROVE SameLink(q)
      BY <1>1, <1>10 DEF PublisherOffer
<1>11. ASSUME NEW v \in Viewers, ViewerOffer(v) PROVE SameLink(q)
      BY <1>1, <1>11 DEF ViewerOffer
<1>12. ASSUME NEW v \in Viewers, Update(v) PROVE SameLink(q)
      BY <1>1, <1>12 DEF Update, CounterLoad, CounterStore, NotifySubscriptions
<1>13. ASSUME NEW v \in Viewers, NEW w \in Viewers, MapFault(v, w)
       PROVE  SameLink(q)
      BY <1>1, <1>13 DEF MapFault
<1>14. CASE UNCHANGED vars
      BY <1>1, <1>14 DEF vars
<1>15. QED
      BY <1>2, <1>3, <1>4, <1>6, <1>7, <1>8, <1>a, <1>9, <1>10, <1>11, <1>12,
         <1>13, <1>14
      DEF Next, Agent, Handler

LEMMA LinkInitially == Init => LinkInv
<1> SUFFICES ASSUME Init PROVE LinkInv
    OBVIOUS
<1>1. TypeOK
      BY TypeInitially
<1>2. Signed(0) = 0
      BY BroadcastAssumption DEF Signed
<1>3. QED BY <1>1, <1>2
          DEF Init, LinkInv, PendingBound, IceLinked, LinkAccounted,
              CallbackStates

LEMMA LinkStep == LinkInv /\ [Next]_vars => LinkInv'
<1> SUFFICES ASSUME LinkInv, [Next]_vars PROVE LinkInv'
    OBVIOUS
<1>1. TypeOK /\ TypeOK'
      BY TypeStep DEF LinkInv
<1> DEFINE Good(q) ==
        /\ pending[q]["connected"] + pending[q]["disconnected"] <= reports[q]
        /\ ice[q] = "connected" => linked[q]
        /\ ice[q] \in {"checking", "disconnected"} => ~linked[q]
        /\ Balance(q) = IF linked[q] THEN 1 ELSE 0
<1>2. ASSUME NEW q \in Peers PROVE Good(q)'
  <2>1. Good(q)
        BY DEF LinkInv, PendingBound, IceLinked, LinkAccounted, Balance
  <2>2. /\ connectionCounter[q] \in 0..(UintMod - 1)
        /\ pending[q]["connected"] \in Nat
        /\ pending[q]["disconnected"] \in Nat
        /\ reports[q] \in Nat /\ reports[q] <= MaxReports
        /\ linked[q] \in BOOLEAN
        BY <1>1, LinkTypes
  <2>3. /\ connectionCounter'[q] \in 0..(UintMod - 1)
        /\ pending'[q]["connected"] \in Nat
        /\ pending'[q]["disconnected"] \in Nat
        BY <1>1 DEF TypeOK, CallbackStates
  <2>4. LET n == connectionCounter[q] IN
        /\ Signed(n) \in Int
        /\ Signed(n) <= MaxReports => Signed(Inc(n)) = Signed(n) + 1
        /\ Signed(n) >= -MaxReports => Signed(Dec(n)) = Signed(n) - 1
        BY <2>2, SignedSteps
  <2>5. Balance(q)' = Signed(connectionCounter'[q])
            + pending'[q]["connected"] - pending'[q]["disconnected"]
        BY DEF Balance, Signed
  <2>6. CASE SameLink(q)
        BY <2>1, <2>5, <2>6 DEF SameLink, Balance
  <2>7. CASE /\ ice[q] \in {"checking", "disconnected"}
             /\ Reported(q, "connected", "disconnected")
             /\ linked'[q] = TRUE
        BY <2>1, <2>2, <2>4, <2>5, <2>7 DEF Reported, Balance
  <2>8. CASE /\ ice[q] = "connected"
             /\ Reported(q, "disconnected", "connected")
             /\ linked'[q] = FALSE
        BY <2>1, <2>2, <2>4, <2>5, <2>8 DEF Reported, Balance
  <2>9. CASE /\ Handled(q, "connected", "disconnected")
             /\ connectionCounter'[q] = Inc(connectionCounter[q])
        BY <2>1, <2>2, <2>4, <2>5, <2>9, BroadcastAssumption DEF Handled, Balance
  <2>10. CASE /\ Handled(q, "disconnected", "connected")
              /\ connectionCounter'[q] = Dec(connectionCounter[q])
        BY <2>1, <2>2, <2>4, <2>5, <2>10, BroadcastAssumption
        DEF Handled, Balance
  <2>11. LinkChange(q)
        BY <1>1, LinkChanges
  <2>12. QED BY <2>6, <2>7, <2>8, <2>9, <2>10, <2>11 DEF LinkChange
<1>3. PendingBound' /\ IceLinked' /\ LinkAccounted'
      BY <1>2 DEF PendingBound, IceLinked, LinkAccounted, Balance
<1>4. QED BY <1>1, <1>3 DEF LinkInv

\* The callbacks of a peer, handled in any order over a wrapping counter, add
\* up to the link its agent reported last.
THEOREM LinksAreAccounted == Spec => []LinkAccounted
<1>1. LinkInv => LinkAccounted
      BY DEF LinkInv
<1>2. QED BY <1>1, LinkInitially, LinkStep, PTL DEF Spec

-----------------------------------------------------------------------------
(* The count of a stream.  An update in progress must hold the right sum as  *)
(* long as no other viewer of the stream has stored in between.             *)

UpdateInv ==
    \A v \in Viewers :
        /\ phase[v] \in {"load", "store"} =>
              \/ delta[v] = 1 /\ connectionCounter[v] = 1
              \/ delta[v] = -1 /\ connectionCounter[v] = 0
        /\ phase[v] = "store" /\ KeyOf[v] \notin raced =>
              val[v] = counter[KeyOf[v]] + delta[v]

CounterInv == LinkInv /\ UpdateInv /\ CounterExact

\* While a link callback waits, the counter is clear of the point where its
\* signed reading would wrap.
LEMMA LinkBounds ==
    ASSUME LinkInv, NEW p \in Peers
    PROVE  LET n == connectionCounter[p] IN
           /\ n \in 0..(UintMod - 1)
           /\ pending[p]["connected"] > 0 => Signed(n) <= MaxReports
           /\ pending[p]["disconnected"] > 0 => Signed(n) >= -MaxReports
<1>1. /\ connectionCounter[p] \in 0..(UintMod - 1)
      /\ pending[p]["connected"] \in Nat
      /\ pending[p]["disconnected"] \in Nat
      /\ reports[p] \in Nat /\ reports[p] <= MaxReports
      BY LinkTypes DEF LinkInv
<1>2. Signed(connectionCounter[p]) \in Int
      BY <1>1, SignedSteps
<1>3. /\ pending[p]["connected"] + pending[p]["disconnected"] <= reports[p]
      /\ Signed(connectionCounter[p])
            + pending[p]["connected"] - pending[p]["disconnected"]
         = IF linked[p] THEN 1 ELSE 0
      BY DEF LinkInv, PendingBound, LinkAccounted
<1>4. QED BY <1>1, <1>2, <1>3, BroadcastAssumption

\* A link callback never moves a viewer in or out of the count by itself: what
\* it announces, updateCounter does.
LEMMA LinkKeepsCount ==
    ASSUME LinkInv, UpdateInv, NEW v \in Viewers,
           \/ HandleConnected(v)
           \/ HandleDisconnected(v)
    PROVE  /\ InCount(v)' <=> InCount(v)
           /\ phase'[v] # "store"
           /\ phase'[v] = "load" =>
                 \/ delta'[v] = 1 /\ connectionCounter'[v] = 1
                 \/ delta'[v] = -1 /\ connectionCounter'[v] = 0
<1> DEFINE n == connectionCounter[v]
<1>1. v \in Peers /\ v \notin Publishers /\ TypeOK
      BY BroadcastAssumption DEF Peers, LinkInv
<1>2. PICK new \in {Inc(n), Dec(n)} :
          /\ connectionCounter'[v] = new
          /\ CompareCounters(v, n, new)
          /\ phase[v] = "idle"
          /\ new = Inc(n) => Signed(new) = Signed(n) + 1
          /\ new = Dec(n) => Signed(new) = Signed(n) - 1
          /\ Signed(n) \in Int
  <2>1. CASE HandleConnected(v)
    <3>1. /\ connectionCounter'[v] = Inc(n)
          /\ CompareCounters(v, n, Inc(n))
          /\ phase[v] = "idle" /\ pending[v]["connected"] > 0
          BY <1>1, <2>1 DEF HandleConnected, HandleLink, Take, TypeOK
    <3>2. Signed(Inc(n)) = Signed(n) + 1 /\ Signed(n) \in Int
          BY <1>1, <3>1, LinkBounds, SignedSteps
    <3>3. Inc(n) # Dec(n)
          BY <1>1, LinkBounds, BroadcastAssumption DEF Inc, Dec
    <3>4. QED BY <3>1, <3>2, <3>3
  <2>2. CASE HandleDisconnected(v)
    <3>1. /\ connectionCounter'[v] = Dec(n)
          /\ CompareCounters(v, n, Dec(n))
          /\ phase[v] = "idle" /\ pending[v]["disconnected"] > 0
          BY <1>1, <2>2 DEF HandleDisconnected, HandleLink, Take, TypeOK
    <3>2. Signed(Dec(n)) = Signed(n) - 1 /\ Signed(n) \in Int
          BY <1>1, <3>1, LinkBounds, SignedSteps
    <3>3. Inc(n) # Dec(n)
          BY <1>1, LinkBounds, BroadcastAssumption DEF Inc, Dec
    <3>4. QED BY <3>1, <3>2, <3>3
  <2>3. QED BY <2>1, <2>2
<1>3. n \in 0..(UintMod - 1) /\ Inc(n) \in 0..(UintMod - 1)
      /\ Dec(n) \in 0..(UintMod - 1)
      BY <1>1, LinkBounds, CounterTypes
<1>4. \A m \in 0..(UintMod - 1) :
          (Signed(m) = 0 <=> m = 0) /\ (Signed(m) = 1 <=> m = 1)
      BY SignedSteps
<1>5. InCount(v) <=> Signed(n) >= 1
      BY <1>2 DEF InCount
<1>6. InCount(v)' <=> IF phase'[v] \in {"load", "store"} THEN delta'[v] = -1
                      ELSE Signed(connectionCounter'[v]) >= 1
      BY DEF InCount, Signed
<1>7. CASE n = 1 /\ new = 0
  <2>1. phase'[v] = "load" /\ delta'[v] = -1
        BY <1>1, <1>2, <1>7 DEF CompareCounters, CallUpdateCounter, TypeOK
  <2>2. Signed(n) = 1
        BY <1>3, <1>4, <1>7
  <2>3. QED BY <1>2, <1>5, <1>6, <1>7, <2>1, <2>2
<1>8. CASE n = 0 /\ new = 1
  <2>1. phase'[v] = "load" /\ delta'[v] = 1
        BY <1>1, <1>2, <1>8 DEF CompareCounters, CallUpdateCounter, TypeOK
  <2>2. Signed(n) = 0
        BY <1>3, <1>4, <1>8
  <2>3. QED BY <1>2, <1>5, <1>6, <1>8, <2>1, <2>2
<1>9. CASE <<n, new>> \notin {<<1, 0>>, <<0, 1>>}
  <2>1. phase'[v] = "idle"
        BY <1>1, <1>2, <1>9 DEF CompareCounters, updateVars
  <2>2. ~(Signed(n) = 1 /\ Signed(new) = 0) /\ ~(Signed(n) = 0 /\ Signed(new) = 1)
        BY <1>2, <1>3, <1>4, <1>9
  <2>3. QED BY <1>2, <1>5, <1>6, <2>1, <2>2
<1>10. QED BY <1>7, <1>8, <1>9

\* Steps other than a viewer's own link callbacks and counter update leave the
\* viewer's part of the state alone.
LEMMA OthersKeepViewer ==
    ASSUME TypeOK, [Next]_vars, NEW v \in Viewers,
           ~HandleConnected(v), ~HandleDisconnected(v),
           ~CounterLoad(v), ~CounterStore(v), ~NotifySubscriptions(v)
    PROVE  /\ phase'[v] = phase[v]
           /\ delta'[v] = delta[v]
           /\ val'[v] = val[v]
           /\ connectionCounter'[v] = connectionCounter[v]
<1>1. v \in Peers
      BY DEF Peers
<1> USE <1>1 DEF TypeOK
<1>2. ASSUME NEW p \in Peers \ {v}, NEW s, NEW new, HandleLink(p, s, new)
      PROVE  /\ phase'[v] = phase[v]
             /\ delta'[v] = delta[v]
             /\ val'[v] = val[v]
             /\ connectionCounter'[v] = connectionCounter[v]
  <2>1. ASSUME NEW n, CallUpdateCounter(p, n)
        PROVE  /\ phase'[v] = phase[v]
               /\ delta'[v] = delta[v]
               /\ val'[v] = val[v]
        BY <2>1 DEF CallUpdateCounter, updateVars
  <2>2. QED BY <1>2, <2>1 DEF HandleLink, CompareCounters, updateVars
<1>3. ASSUME NEW p \in Peers, Handler(p)
      PROVE  /\ phase'[v] = phase[v]
             /\ delta'[v] = delta[v]
             /\ val'[v] = val[v]
             /\ connectionCounter'[v] = connectionCounter[v]
      BY <1>2, <1>3
      DEF Handler, HandleConnected, HandleDisconnected, HandleFailed,
          ClosePanics, HandleClosed, updateVars
<1>4. ASSUME NEW p \in Peers, Agent(p)
      PROVE  UNCHANGED <<phase, delta, val, connectionCounter>>
      BY <1>4 DEF Agent, AgentLink, AgentFails, RemoteCloses, updateVars
<1>5. ASSUME NEW w \in Viewers, Update(w)
      PROVE  /\ phase'[v] = phase[v]
             /\ delta'[v] = delta[v]
             /\ val'[v] = val[v]
             /\ connectionCounter'[v] = connectionCounter[v]
      BY <1>5, BroadcastAssumption
      DEF Update, CounterLoad, CounterStore, NotifySubscriptions, Peers
<1>6. ASSUME NEW w \in Viewers, NEW x \in Viewers, MapFault(w, x)
      PROVE  UNCHANGED <<phase, delta, val, connectionCounter>>
      BY <1>6 DEF MapFault, updateVars
<1>7. ASSUME NEW p \in Publishers, PublisherOffer(p)
      PROVE  UNCHANGED <<phase, delta, val, connectionCounter>>
      BY <1>7 DEF PublisherOffer, updateVars
<1>8. ASSUME NEW w \in Viewers, ViewerOffer(w)
      PROVE  UNCHANGED <<phase, delta, val, connectionCounter>>
      BY <1>8 DEF ViewerOffer, updateVars
<1>9. CASE UNCHANGED vars
      BY <1>9 DEF vars, updateVars
<1>10. QED BY <1>3, <1>4, <1>5, <1>6, <1>7, <1>8, <1>9 DEF Next

\* Only a store changes the counter and the history of races.
LEMMA StoresOnly ==
    ASSUME [Next]_vars, \A v \in Viewers : ~CounterStore(v)
    PROVE  counter' = counter /\ raced' = raced /\ late' = late
<1> USE DEF historyVars
<1>1. ASSUME NEW p \in Peers, Handler(p)
      PROVE  UNCHANGED <<counter, raced, late>>
      BY <1>1 DEF Handler, HandleConnected, HandleDisconnected, HandleLink,
                  HandleFailed, ClosePanics, HandleClosed
<1>2. ASSUME NEW p \in Peers, Agent(p)
      PROVE  UNCHANGED <<counter, raced, late>>
      BY <1>2 DEF Agent, AgentLink, AgentFails, RemoteCloses
<1>3. ASSUME NEW v \in Viewers, Update(v)
      PROVE  UNCHANGED <<counter, raced, late>>
      BY <1>3 DEF Update, CounterLoad, NotifySubscriptions
<1>4. ASSUME NEW v \in Viewers, NEW w \in Viewers, MapFault(v, w)
      PROVE  UNCHANGED <<counter, raced, late>>
      BY <1>4 DEF MapFault
<1>5. ASSUME NEW p \in Publishers, PublisherOffer(p)
      PROVE  UNCHANGED <<counter, raced, late>>
      BY <1>5 DEF PublisherOffer
<1>6. ASSUME NEW v \in Viewers, ViewerOffer(v)
      PROVE  UNCHANGED <<counter, raced, late>>
      BY <1>6 DEF ViewerOffer
<1>7. CASE UNCHANGED vars
      BY <1>7 DEF vars
<1>8. QED BY <1>1, <1>2, <1>3, <1>4, <1>5, <1>6, <1>7 DEF Next

LEMMA UpdateStep ==
    ASSUME LinkInv, UpdateInv, [Next]_vars
    PROVE  UpdateInv'
<1>1. TypeOK
      BY DEF LinkInv
<1> DEFINE Good(v) ==
        /\ phase[v] \in {"load", "store"} =>
              \/ delta[v] = 1 /\ connectionCounter[v] = 1
              \/ delta[v] = -1 /\ connectionCounter[v] = 0
        /\ phase[v] = "store" /\ KeyOf[v] \notin raced =>
              val[v] = counter[KeyOf[v]] + delta[v]
<1>2. ASSUME NEW v \in Viewers PROVE Good(v)'
  <2>1. Good(v)
        BY DEF UpdateInv
  <2>2. v \in Peers /\ KeyOf[v] \in Keys
        BY BroadcastAssumption DEF Peers
  <2>3. CASE HandleConnected(v) \/ HandleDisconnected(v)
    <3>1. phase'[v] \in {"idle", "load", "store", "notify"}
          BY <1>1, <2>2, TypeStep DEF TypeOK
    <3>2. QED BY <2>3, <3>1, LinkKeepsCount
  <2>4. CASE CounterLoad(v)
        BY <1>1, <2>1, <2>2, <2>4
        DEF CounterLoad, TypeOK, historyVars
  <2>5. CASE CounterStore(v)
        BY <1>1, <2>2, <2>5 DEF CounterStore, TypeOK
  <2>6. CASE NotifySubscriptions(v)
        BY <1>1, <2>2, <2>6 DEF NotifySubscriptions, TypeOK
  <2>7. CASE /\ ~HandleConnected(v) /\ ~HandleDisconnected(v)
             /\ ~CounterLoad(v) /\ ~CounterStore(v) /\ ~NotifySubscriptions(v)
    <3>1. /\ phase'[v] = phase[v]
          /\ delta'[v] = delta[v]
          /\ val'[v] = val[v]
          /\ connectionCounter'[v] = connectionCounter[v]
          BY <1>1, <2>7, OthersKeepViewer
    <3>2. CASE \A w \in Viewers : ~CounterStore(w)
          BY <2>1, <3>1, <3>2, StoresOnly
    <3>3. ASSUME NEW w \in Viewers, CounterStore(w)
          PROVE  Good(v)'
      <4>1. w # v
            BY <2>7, <3>3
      <4>2. CASE KeyOf[w] = KeyOf[v] /\ phase[v] = "store"
        <5>1. Overlaps(w, "store")
              BY <4>1, <4>2 DEF Overlaps
        <5>2. KeyOf[v] \in raced'
              BY <3>3, <4>2, <5>1 DEF CounterStore, MarkIf
        <5>3. QED BY <2>1, <3>1, <5>2
      <4>3. CASE KeyOf[w] # KeyOf[v]
        <5>1. counter'[KeyOf[v]] = counter[KeyOf[v]]
              BY <1>1, <2>2, <3>3, <4>3 DEF CounterStore, TypeOK
        <5>2. KeyOf[v] \in raced => KeyOf[v] \in raced'
              BY <3>3 DEF CounterStore, MarkIf
        <5>3. QED BY <2>1, <3>1, <5>1, <5>2
      <4>4. QED BY <2>1, <3>1, <4>2, <4>3
    <3>4. QED BY <3>2, <3>3
  <2>8. QED BY <2>3, <2>4, <2>5, <2>6, <2>7
<1>3. QED BY <1>2 DEF UpdateInv

Counted(k) == {v \in ViewersOf(k) : InCount(v)}

LEMMA CountedFinite == \A k : IsFiniteSet(Counted(k))
<1> SUFFICES ASSUME NEW k PROVE IsFiniteSet(Counted(k))
    OBVIOUS
<1>1. Counted(k) \subseteq Viewers
      BY DEF Counted, ViewersOf
<1>2. QED BY <1>1, BroadcastAssumption, FS_Subset

\* A store, and nothing else, moves a viewer in or out of the count.
LEMMA OnlyStoreCounts ==
    ASSUME LinkInv, UpdateInv, [Next]_vars, NEW v \in Viewers, ~CounterStore(v)
    PROVE  InCount(v)' <=> InCount(v)
<1>1. TypeOK /\ v \in Peers
      BY DEF LinkInv, Peers
<1>2. InCount(v)' <=> IF phase'[v] \in {"load", "store"} THEN delta'[v] = -1
                      ELSE Signed(connectionCounter'[v]) >= 1
      BY DEF InCount, Signed
<1>3. CASE HandleConnected(v) \/ HandleDisconnected(v)
      BY <1>3, LinkKeepsCount
<1>4. CASE CounterLoad(v)
  <2>1. /\ phase[v] = "load" /\ phase'[v] = "store"
        /\ delta'[v] = delta[v]
        BY <1>1, <1>4 DEF CounterLoad, TypeOK
  <2>2. QED BY <1>2, <2>1 DEF InCount
<1>5. CASE NotifySubscriptions(v)
  <2>1. /\ phase[v] = "notify" /\ phase'[v] = "idle"
        /\ connectionCounter'[v] = connectionCounter[v]
        BY <1>1, <1>5 DEF NotifySubscriptions, TypeOK
  <2>2. QED BY <1>2, <2>1 DEF InCount
<1>6. CASE /\ ~HandleConnected(v) /\ ~HandleDisconnected(v)
           /\ ~CounterLoad(v) /\ ~NotifySubscriptions(v)
  <2>1. /\ phase'[v] = phase[v]
        /\ delta'[v] = delta[v]
        /\ connectionCounter'[v] = connectionCounter[v]
        BY <1>1, <1>6, OthersKeepViewer
  <2>2. QED BY <1>2, <2>1 DEF InCount
<1>7. QED BY <1>3, <1>4, <1>5, <1>6

LEMMA CounterStep ==
    ASSUME CounterInv, [Next]_vars
    PROVE  CounterExact'
<1>1. TypeOK /\ LinkInv /\ UpdateInv /\ TypeOK'
      BY TypeStep DEF CounterInv, LinkInv
<1> SUFFICES ASSUME NEW k \in Keys, k \notin raced'
             PROVE  counter'[k] = Cardinality(Counted(k)')
    BY DEF CounterExact, Counted
<1>2. k \notin raced
      BY <1>1, StoresOnly DEF CounterStore, MarkIf
<1>3. counter[k] = Cardinality(Counted(k)) /\ counter[k] \in Int
      BY <1>1, <1>2 DEF CounterInv, CounterExact, Counted, TypeOK
<1>4. Counted(k)' = {w \in ViewersOf(k) : InCount(w)'}
      BY DEF Counted, ViewersOf
<1>5. CASE \A v \in Viewers : ~CounterStore(v)
  <2>1. Counted(k)' = Counted(k)
        BY <1>1, <1>4, <1>5, OnlyStoreCounts DEF Counted, ViewersOf
  <2>2. counter' = counter
        BY <1>5, StoresOnly
  <2>3. QED BY <1>3, <2>1, <2>2
<1>6. ASSUME NEW v \in Viewers, CounterStore(v)
      PROVE  counter'[k] = Cardinality(Counted(k)')
  <2>1. v \in Peers /\ KeyOf[v] \in Keys
        BY BroadcastAssumption DEF Peers
  <2>2. \A w \in Viewers \ {v} : InCount(w)' <=> InCount(w)
    <3> SUFFICES ASSUME NEW w \in Viewers \ {v}
                 PROVE  InCount(w)' <=> InCount(w)
        OBVIOUS
    <3>1. phase'[w] = phase[w]
          BY <1>1, <1>6, <2>1 DEF CounterStore, TypeOK
    <3>2. /\ delta' = delta
          /\ connectionCounter' = connectionCounter
          BY <1>6 DEF CounterStore
    <3>3. InCount(w)' <=> IF phase'[w] \in {"load", "store"}
                          THEN delta'[w] = -1
                          ELSE Signed(connectionCounter'[w]) >= 1
          BY DEF InCount, Signed
    <3>4. QED BY <3>1, <3>2, <3>3 DEF InCount
  <2>3. CASE KeyOf[v] # k
    <3>1. counter'[k] = counter[k]
          BY <1>1, <1>6, <2>1, <2>3 DEF CounterStore, TypeOK
    <3>2. Counted(k)' = Counted(k)
          BY <1>4, <2>2, <2>3 DEF Counted, ViewersOf
    <3>3. QED BY <1>3, <3>1, <3>2
  <2>4. CASE KeyOf[v] = k
    <3>1. /\ phase[v] = "store" /\ phase'[v] = "notify"
          /\ delta'[v] = delta[v]
          /\ connectionCounter'[v] = connectionCounter[v]
          /\ counter'[k] = val[v]
          BY <1>1, <1>6, <2>1, <2>4 DEF CounterStore, TypeOK
    <3>2. counter'[k] = counter[k] + delta[v]
          BY <1>1, <1>2, <2>4, <3>1 DEF UpdateInv
    <3>3. InCount(v)' <=> Signed(connectionCounter[v]) >= 1
      <4>1. InCount(v)' <=> IF phase'[v] \in {"load", "store"}
                            THEN delta'[v] = -1
                            ELSE Signed(connectionCounter'[v]) >= 1
            BY DEF InCount, Signed
      <4>2. QED BY <3>1, <4>1
    <3>4. connectionCounter[v] \in 0..(UintMod - 1)
          BY <1>1, <2>1 DEF TypeOK
    <3>5. /\ Signed(connectionCounter[v]) = 0 <=> connectionCounter[v] = 0
          /\ Signed(connectionCounter[v]) = 1 <=> connectionCounter[v] = 1
          BY <3>4, SignedSteps
    <3>6. CASE delta[v] = 1 /\ connectionCounter[v] = 1
      <4>1. v \notin Counted(k) /\ InCount(v)'
            BY <3>1, <3>3, <3>5, <3>6 DEF Counted, InCount
      <4>2. Counted(k)' = Counted(k) \cup {v}
            BY <1>4, <2>2, <2>4, <4>1 DEF Counted, ViewersOf
      <4>3. Cardinality(Counted(k)') = Cardinality(Counted(k)) + 1
            BY <4>1, <4>2, CountedFinite, FS_AddElement
      <4>4. QED BY <1>3, <3>2, <3>6, <4>3
    <3>7. CASE delta[v] = -1 /\ connectionCounter[v] = 0
      <4>1. v \in Counted(k) /\ ~InCount(v)'
            BY <2>4, <3>1, <3>3, <3>5, <3>7 DEF Counted, ViewersOf, InCount
      <4>2. Counted(k)' = Counted(k) \ {v}
            BY <1>4, <2>2, <4>1 DEF Counted, ViewersOf
      <4>3. Cardinality(Counted(k)') = Cardinality(Counted(k)) - 1
            BY <4>1, <4>2, CountedFinite, FS_RemoveElement
      <4>4. QED BY <1>3, <3>2, <3>7, <4>3
    <3>8. QED BY <1>1, <3>1, <3>6, <3>7 DEF UpdateInv
  <2>5. QED BY <2>3, <2>4
<1>7. QED BY <1>5, <1>6

LEMMA CounterInitially == Init => CounterInv
<1> SUFFICES ASSUME Init PROVE CounterInv
    OBVIOUS
<1>1. LinkInv
      BY LinkInitially
<1>2. UpdateInv
      BY DEF Init, UpdateInv, Peers
<1>3. ASSUME NEW k \in Keys PROVE counter[k] = Cardinality(Counted(k))
  <2>1. Signed(0) = 0
        BY BroadcastAssumption DEF Signed
  <2>2. Counted(k) = {}
        BY <2>1 DEF Init, Counted, ViewersOf, InCount, Peers
  <2>3. QED BY <2>2, FS_EmptySet DEF Init
<1>4. QED BY <1>1, <1>2, <1>3 DEF CounterInv, CounterExact, Counted

LEMMA CounterInvStep == CounterInv /\ [Next]_vars => CounterInv'
BY LinkStep, UpdateStep, CounterStep DEF CounterInv

LEMMA CounterInvariance == Spec => []CounterInv
<1>1. QED BY CounterInitially, CounterInvStep, PTL DEF Spec

\* The count of a stream is the number of viewers counted in, at every moment,
\* as long as no two read-modify-writes of that stream overlapped.
THEOREM CounterIsExact == Spec => []CounterExact
<1>1. CounterInv => CounterExact
      BY DEF CounterInv
<1>2. QED BY <1>1, CounterInvariance, PTL

LEMMA AbsoluteWhenSettled == CounterInv => AbsoluteCounter
<1> SUFFICES ASSUME CounterInv, NEW k \in Keys \ raced,
                    \A v \in ViewersOf(k) : Settled(v)
             PROVE  counter[k] = Cardinality({v \in ViewersOf(k) : linked[v]})
    BY DEF AbsoluteCounter
<1>1. ASSUME NEW v \in ViewersOf(k) PROVE InCount(v) <=> linked[v]
  <2>1. v \in Peers
        BY DEF ViewersOf, Peers
  <2>2. /\ TypeOK
        /\ Signed(connectionCounter[v])
              + pending[v]["connected"] - pending[v]["disconnected"]
           = IF linked[v] THEN 1 ELSE 0
        BY <2>1 DEF CounterInv, LinkInv, LinkAccounted
  <2>3. Signed(connectionCounter[v]) \in Int /\ linked[v] \in BOOLEAN
        BY <2>1, <2>2, LinkTypes, SignedSteps
  <2>4. /\ phase[v] = "idle"
        /\ pending[v]["connected"] = 0
        /\ pending[v]["disconnected"] = 0
        BY DEF Settled
  <2>5. Signed(connectionCounter[v]) = IF linked[v] THEN 1 ELSE 0
        BY <2>2, <2>3, <2>4
  <2>6. QED BY <2>3, <2>4, <2>5 DEF InCount
<1>2. {v \in ViewersOf(k) : InCount(v)} = {v \in ViewersOf(k) : linked[v]}
      BY <1>1
<1>3. QED BY <1>2 DEF CounterInv, CounterExact

\* What the comment in webrtc.go claims, for every number of viewers: once the
\* callbacks have run, the count is the number of viewers whose last link
\* report was "connected", unless updates overlapped.
THEOREM CounterIsAbsolute == Spec => []AbsoluteCounter
<1>1. QED BY AbsoluteWhenSettled, CounterInvariance, PTL

-----------------------------------------------------------------------------
(* The session table.  A callback that registers has taken a report of its   *)
(* publisher, and nothing removes a session.                                *)

\* What a step does to the table: nothing, or a publisher whose link callback
\* brings its counter from 0 to 1 is stored.
Registers(p) ==
    /\ sessions' = [sessions EXCEPT ![KeyOf[p]] = p]
    /\ connectionCounter[p] = 0 /\ connectionCounter'[p] = 1
    /\ pending[p]["connected"] + pending[p]["disconnected"] > 0

LEMMA SessionChanges ==
    ASSUME TypeOK, [Next]_vars
    PROVE  \/ sessions' = sessions
           \/ \E p \in Publishers : Registers(p)
<1> USE DEF TypeOK, CallbackStates
<1>1. ASSUME NEW p \in Peers, NEW s \in {"connected", "disconnected"}, NEW new,
             HandleLink(p, s, new)
      PROVE  sessions' = sessions \/ (p \in Publishers /\ Registers(p))
  <2>1. /\ pending[p]["connected"] \in Nat /\ pending[p]["disconnected"] \in Nat
        /\ pending[p][s] > 0
        /\ connectionCounter'[p] = new
        /\ CompareCounters(p, connectionCounter[p], new)
        BY <1>1 DEF HandleLink, Take
  <2>2. pending[p]["connected"] + pending[p]["disconnected"] > 0
        BY <2>1
  <2>3. QED BY <2>1, <2>2 DEF CompareCounters, RegisterSession, Registers
<1>2. ASSUME NEW p \in Peers, Handler(p)
      PROVE  sessions' = sessions \/ (p \in Publishers /\ Registers(p))
      BY <1>1, <1>2 DEF Handler, HandleConnected, HandleDisconnected,
                        HandleFailed, ClosePanics, HandleClosed
<1>3. ASSUME NEW p \in Peers, Agent(p) PROVE sessions' = sessions
      BY <1>3 DEF Agent, AgentLink, AgentFails, RemoteCloses
<1>4. ASSUME NEW v \in Viewers, Update(v) \/ ViewerOffer(v)
      PROVE  sessions' = sessions
      BY <1>4 DEF Update, CounterLoad, CounterStore, NotifySubscriptions,
                  ViewerOffer
<1>5. ASSUME NEW v \in Viewers, NEW w \in Viewers, MapFault(v, w)
      PROVE  sessions' = sessions
      BY <1>5 DEF MapFault
<1>6. ASSUME NEW p \in Publishers, PublisherOffer(p) PROVE sessions' = sessions
      BY <1>6 DEF PublisherOffer
<1>7. CASE UNCHANGED vars
      BY <1>7 DEF vars
<1>8. QED BY <1>2, <1>3, <1>4, <1>5, <1>6, <1>7 DEF Next

\* A publisher that is counted in for the first time is registered.
LEMMA CountsInRegisters ==
    ASSUME TypeOK, [Next]_vars, NEW p \in Publishers,
           connectionCounter[p] = 0, connectionCounter'[p] = 1
    PROVE  sessions'[KeyOf[p]] = p
<1>1. p \in Peers /\ KeyOf[p] \in Keys
      BY BroadcastAssumption DEF Peers
<1> USE DEF TypeOK, CallbackStates
<1>2. ASSUME NEW q \in Peers, NEW s, NEW new, HandleLink(q, s, new)
      PROVE  sessions'[KeyOf[p]] = p
  <2>1. p = q /\ new = 1
        BY <1>1, <1>2 DEF HandleLink
  <2>2. RegisterSession(p)
        BY <1>2, <2>1 DEF HandleLink, CompareCounters
  <2>3. QED BY <1>1, <2>2 DEF RegisterSession
<1>3. ASSUME UNCHANGED connectionCounter PROVE FALSE
      BY <1>3
<1>4. ASSUME NEW q \in Peers, Handler(q) PROVE sessions'[KeyOf[p]] = p
      BY <1>2, <1>3, <1>4 DEF Handler, HandleConnected, HandleDisconnected,
                              HandleFailed, ClosePanics, HandleClosed
<1>5. ASSUME NEW q \in Peers, Agent(q) PROVE FALSE
      BY <1>3, <1>5 DEF Agent, AgentLink, AgentFails, RemoteCloses
<1>6. ASSUME NEW v \in Viewers, Update(v) \/ ViewerOffer(v) PROVE FALSE
      BY <1>3, <1>6 DEF Update, CounterLoad, CounterStore, NotifySubscriptions,
                        ViewerOffer
<1>7. ASSUME NEW v \in Viewers, NEW w \in Viewers, MapFault(v, w) PROVE FALSE
      BY <1>3, <1>7 DEF MapFault
<1>8. ASSUME NEW q \in Publishers, PublisherOffer(q) PROVE FALSE
      BY <1>3, <1>8 DEF PublisherOffer
<1>9. CASE UNCHANGED vars
      BY <1>3, <1>9 DEF vars
<1>10. QED BY <1>4, <1>5, <1>6, <1>7, <1>8, <1>9 DEF Next

\* No step takes a registered stream out of the table.
LEMMA SessionsStay ==
    ASSUME TypeOK, [Next]_vars, NEW k \in Keys, sessions[k] # None
    PROVE  sessions'[k] # None
<1>1. ASSUME NEW p \in Publishers, Registers(p) PROVE sessions'[k] # None
  <2>1. p # None
        BY BroadcastAssumption
  <2>2. QED BY <1>1, <2>1 DEF Registers, TypeOK
<1>2. QED BY <1>1, SessionChanges

\* A session, and with it the track a viewer is given, belongs to a publisher of
\* that stream that has reported a link.
HadLink(k, p) == p # None => p \in Publishers /\ KeyOf[p] = k /\ reports[p] > 0

SessionsHadLink == \A k \in Keys : HadLink(k, sessions[k])

\* While the counter of a publisher is above zero, its stream is registered.
CountedRegistered ==
    \A p \in Publishers :
        Signed(connectionCounter[p]) >= 1 => sessions[KeyOf[p]] # None

SessionInv == LinkInv /\ SessionsHadLink /\ TrackHadLink /\ CountedRegistered

\* A peer's reports only become more.
LEMMA ReportsGrow ==
    ASSUME TypeOK, [Next]_vars, NEW p \in Peers
    PROVE  reports[p] \in Nat /\ reports'[p] \in Nat /\ reports'[p] >= reports[p]
<1>1. reports[p] \in Nat
      BY LinkTypes
<1>2. reports'[p] = reports[p] \/ reports'[p] = reports[p] + 1
      BY LinkChanges DEF LinkChange, SameLink, Reported, Handled
<1>3. QED BY <1>1, <1>2

LEMMA SessionInitially == Init => SessionInv
<1> SUFFICES ASSUME Init PROVE SessionInv
    OBVIOUS
<1>1. LinkInv
      BY LinkInitially
<1>2. Signed(0) = 0
      BY BroadcastAssumption DEF Signed
<1>3. QED BY <1>1, <1>2
          DEF Init, SessionInv, SessionsHadLink, HadLink, TrackHadLink,
              CountedRegistered, Peers

\* Only an offer gives a viewer a track, the one in the table.
LEMMA TrackChanges ==
    ASSUME TypeOK, [Next]_vars, NEW v \in Viewers
    PROVE  track'[v] \in {track[v], sessions[KeyOf[v]]}
<1> USE DEF TypeOK
<1>1. ASSUME NEW w \in Viewers, ViewerOffer(w)
      PROVE  track'[v] \in {track[v], sessions[KeyOf[v]]}
      BY <1>1 DEF ViewerOffer
<1>2. ASSUME NEW p \in Peers, Handler(p) \/ Agent(p) PROVE track' = track
      BY <1>2 DEF Handler, HandleConnected, HandleDisconnected, HandleLink,
                  HandleFailed, ClosePanics, HandleClosed, Agent, AgentLink,
                  AgentFails, RemoteCloses
<1>3. ASSUME NEW w \in Viewers, Update(w) PROVE track' = track
      BY <1>3 DEF Update, CounterLoad, CounterStore, NotifySubscriptions
<1>4. ASSUME NEW w \in Viewers, NEW x \in Viewers, MapFault(w, x)
      PROVE  track' = track
      BY <1>4 DEF MapFault
<1>5. ASSUME NEW p \in Publishers, PublisherOffer(p) PROVE track' = track
      BY <1>5 DEF PublisherOffer
<1>6. CASE UNCHANGED vars
      BY <1>6 DEF vars
<1>7. QED BY <1>1, <1>2, <1>3, <1>4, <1>5, <1>6 DEF Next

\* A counter rises above zero by the callback that takes it from 0 to 1.
LEMMA FirstCount ==
    ASSUME LinkInv, [Next]_vars, NEW p \in Publishers,
           ~(Signed(connectionCounter[p]) >= 1),
           Signed(connectionCounter'[p]) >= 1
    PROVE  connectionCounter[p] = 0 /\ connectionCounter'[p] = 1
<1> DEFINE n == connectionCounter[p]
<1>0. p \in Peers /\ TypeOK
      BY DEF Peers, LinkInv
<1>1. /\ n \in 0..(UintMod - 1)
      /\ pending[p]["connected"] > 0 => Signed(n) <= MaxReports
      /\ pending[p]["disconnected"] > 0 => Signed(n) >= -MaxReports
      BY <1>0, LinkBounds
<1>2. /\ Signed(n) \in Int
      /\ Signed(n) <= MaxReports => Signed(Inc(n)) = Signed(n) + 1
      /\ Signed(n) >= -MaxReports => Signed(Dec(n)) = Signed(n) - 1
      /\ Signed(n) = 0 <=> n = 0
      BY <1>1, SignedSteps
<1>3. n = 0 /\ connectionCounter'[p] = Inc(n)
  <2>1. CASE connectionCounter'[p] = n
        BY <1>2, <2>1
  <2>2. CASE pending[p]["disconnected"] > 0 /\ connectionCounter'[p] = Dec(n)
        BY <1>1, <1>2, <2>2
  <2>3. CASE pending[p]["connected"] > 0 /\ connectionCounter'[p] = Inc(n)
        BY <1>1, <1>2, <2>3
  <2>4. QED BY <1>0, <2>1, <2>2, <2>3, LinkChanges
            DEF LinkChange, SameLink, Reported, Handled
<1>4. Inc(0) = 1
      BY BroadcastAssumption DEF Inc
<1>5. QED BY <1>3, <1>4

LEMMA SessionStep == SessionInv /\ [Next]_vars => SessionInv'
<1> SUFFICES ASSUME SessionInv, [Next]_vars PROVE SessionInv'
    OBVIOUS
<1>1. LinkInv /\ TypeOK /\ LinkInv'
      BY LinkStep DEF SessionInv, LinkInv
<1>2. \A p \in Publishers : reports[p] > 0 => reports'[p] > 0
      BY <1>1, ReportsGrow DEF Peers
<1>3. ASSUME NEW p \in Publishers, Registers(p) PROVE reports'[p] > 0
  <2>1. p \in Peers
        BY DEF Peers
  <2>2. /\ pending[p]["connected"] + pending[p]["disconnected"] <= reports[p]
        /\ pending[p]["connected"] \in Nat /\ pending[p]["disconnected"] \in Nat
        /\ reports[p] \in Nat
        BY <1>1, <2>1, LinkTypes DEF LinkInv, PendingBound
  <2>3. reports[p] > 0
        BY <1>3, <2>2 DEF Registers
  <2>4. QED BY <1>2, <2>3
<1>4. SessionsHadLink'
  <2> SUFFICES ASSUME NEW k \in Keys, sessions'[k] # None
               PROVE  /\ sessions'[k] \in Publishers /\ KeyOf[sessions'[k]] = k
                      /\ reports'[sessions'[k]] > 0
      BY DEF SessionsHadLink, HadLink
  <2>1. CASE sessions'[k] = sessions[k]
        BY <1>2, <2>1 DEF SessionInv, SessionsHadLink, HadLink
  <2>2. ASSUME NEW p \in Publishers, Registers(p), sessions'[k] # sessions[k]
        PROVE  sessions'[k] = p /\ KeyOf[p] = k
        BY <1>1, <2>2 DEF Registers, TypeOK
  <2>3. QED BY <1>1, <1>3, <2>1, <2>2, SessionChanges
<1>5. TrackHadLink'
  <2> SUFFICES ASSUME NEW v \in Viewers, track'[v] # None
               PROVE  KeyOf[track'[v]] = KeyOf[v] /\ reports'[track'[v]] > 0
      BY DEF TrackHadLink
  <2>1. KeyOf[v] \in Keys
        BY BroadcastAssumption DEF Peers
  <2>2. CASE track'[v] = track[v]
        BY <1>1, <1>2, <2>2 DEF SessionInv, TrackHadLink, TypeOK
  <2>3. CASE track'[v] = sessions[KeyOf[v]]
        BY <1>2, <2>1, <2>3 DEF SessionInv, SessionsHadLink, HadLink
  <2>4. QED BY <1>1, <2>2, <2>3, TrackChanges
<1>6. CountedRegistered'
  <2> SUFFICES ASSUME NEW p \in Publishers, Signed(connectionCounter'[p]) >= 1
               PROVE  sessions'[KeyOf[p]] # None
      BY DEF CountedRegistered, Signed
  <2>1. p \in Peers /\ KeyOf[p] \in Keys
        BY BroadcastAssumption DEF Peers
  <2>2. CASE sessions[KeyOf[p]] # None
        BY <1>1, <2>1, <2>2, SessionsStay
  <2>3. CASE ~(Signed(connectionCounter[p]) >= 1)
    <3>1. connectionCounter[p] = 0 /\ connectionCounter'[p] = 1
          BY <1>1, <2>3, FirstCount
    <3>2. QED BY <1>1, <3>1, CountsInRegisters, BroadcastAssumption
  <2>4. QED BY <2>2, <2>3
               DEF SessionInv, CountedRegistered
<1>7. QED BY <1>1, <1>4, <1>5, <1>6 DEF SessionInv

LEMMA SessionInvariance == Spec => []SessionInv
BY SessionInitially, SessionStep, PTL DEF Spec

\* Nobody is handed a track that never carried media.
THEOREM TracksHadLinks == Spec => []TrackHadLink
<1>1. SessionInv => TrackHadLink
      BY DEF SessionInv
<1>2. QED BY <1>1, SessionInvariance, PTL

\* No order of its callbacks keeps a connected publisher out of the table.
THEOREM PublishersAreRegistered == Spec => []LinkedPublisherRegistered
<1>1. SessionInv => LinkedPublisherRegistered
  <2> SUFFICES ASSUME SessionInv, NEW p \in Publishers, Settled(p), linked[p]
               PROVE  sessions[KeyOf[p]] # None
      BY DEF LinkedPublisherRegistered
  <2>1. p \in Peers /\ LinkInv
        BY DEF Peers, SessionInv
  <2>2. Signed(connectionCounter[p]) \in Int
        BY <2>1, LinkTypes, SignedSteps DEF LinkInv
  <2>3. Signed(connectionCounter[p])
            + pending[p]["connected"] - pending[p]["disconnected"] = 1
        BY <2>1 DEF LinkInv, LinkAccounted
  <2>4. QED BY <2>2, <2>3 DEF Settled, SessionInv, CountedRegistered
<1>2. QED BY <1>1, SessionInvariance, PTL

-----------------------------------------------------------------------------
(* The edge device that comes back.  A publisher that has not offered has no  *)
(* callback left over, so its first count is still to come; it stores its    *)
(* track, and q, closed with its callbacks run, never stores its own again.  *)

Unoffered ==
    \A p \in Peers : peer[p] = "none" => reports[p] = 0 /\ ~linked[p]

LEMMA UnofferedStep ==
    ASSUME TypeOK, Unoffered, [Next]_vars
    PROVE  Unoffered'
<1> SUFFICES ASSUME NEW q \in Peers, peer'[q] = "none"
             PROVE  reports'[q] = 0 /\ ~linked'[q]
    BY DEF Unoffered
<1> USE DEF TypeOK
<1> DEFINE Kept == /\ peer[q] = "none"
                   /\ reports'[q] = reports[q] /\ linked'[q] = linked[q]
<1>1. ASSUME UNCHANGED <<reports, linked>>, peer' = peer PROVE Kept
      BY <1>1
<1>2. ASSUME NEW p \in Peers, AgentLink(p) PROVE Kept
      BY <1>2 DEF AgentLink
<1>3. ASSUME NEW p \in Peers, AgentFails(p) \/ RemoteCloses(p) PROVE Kept
      BY <1>3 DEF AgentFails, RemoteCloses
<1>4. ASSUME NEW p \in Peers, Handler(p) PROVE Kept
      BY <1>4 DEF Handler, HandleConnected, HandleDisconnected, HandleLink,
                  HandleFailed, ClosePeerConnection, ClosePanics, HandleClosed,
                  agentVars
<1>5. ASSUME NEW v \in Viewers, Update(v) \/ ViewerOffer(v) PROVE Kept
      BY <1>5 DEF Update, CounterLoad, CounterStore, NotifySubscriptions,
                  ViewerOffer, agentVars
<1>6. ASSUME NEW v \in Viewers, NEW w \in Viewers, MapFault(v, w) PROVE Kept
      BY <1>6 DEF MapFault, agentVars
<1>7. ASSUME NEW p \in Publishers, PublisherOffer(p) PROVE Kept
      BY <1>7 DEF PublisherOffer, agentVars
<1>8. ASSUME UNCHANGED vars PROVE Kept
      BY <1>8 DEF vars, agentVars
<1> HIDE DEF Kept, TypeOK
<1>9. Kept
      BY <1>2, <1>3, <1>4, <1>5, <1>6, <1>7, <1>8 DEF Next, Agent
<1>10. QED BY <1>9 DEF Kept, Unoffered

\* A closed peer whose callbacks have run gets no other link callback.
LEMMA GoneStays ==
    ASSUME TypeOK, [Next]_vars, NEW q \in Publishers, Gone(q)
    PROVE  Gone(q)'
<1>1. q \in Peers /\ q \notin Viewers
      BY BroadcastAssumption DEF Peers
<1>2. /\ peer[q] = "closed" /\ phase[q] = "idle"
      /\ pending[q]["connected"] = 0 /\ pending[q]["disconnected"] = 0
      BY DEF Gone, Settled
<1> USE <1>1, <1>2 DEF TypeOK, CallbackStates
<1> DEFINE Same == /\ peer'[q] = "closed" /\ phase'[q] = "idle"
                   /\ pending'[q]["connected"] = 0
                   /\ pending'[q]["disconnected"] = 0
<1>3. ASSUME NEW p \in Peers, Agent(p) PROVE Same
      BY <1>3 DEF Agent, AgentLink, AgentFails, RemoteCloses, Report, updateVars
<1>4. ASSUME NEW p \in Peers, NEW s, NEW new, HandleLink(p, s, new),
             s \in {"connected", "disconnected"}
      PROVE  Same
  <2>1. p # q
        BY <1>4 DEF HandleLink, Take
  <2>2. phase'[q] = "idle"
        BY <1>4, <2>1
        DEF HandleLink, CompareCounters, CallUpdateCounter, updateVars
  <2>3. QED BY <1>4, <2>1, <2>2 DEF HandleLink
<1>5. ASSUME NEW p \in Peers, HandleConnected(p) \/ HandleDisconnected(p)
      PROVE  Same
      BY <1>4, <1>5 DEF HandleConnected, HandleDisconnected
<1>6. ASSUME NEW p \in Peers, HandleFailed(p) PROVE Same
      BY <1>6 DEF HandleFailed, ClosePeerConnection, updateVars
<1>7. ASSUME NEW p \in Peers, ClosePanics(p) \/ HandleClosed(p) PROVE Same
      BY <1>7 DEF ClosePanics, HandleClosed, updateVars
<1>8. ASSUME NEW v \in Viewers, Update(v) PROVE Same
      BY <1>8 DEF Update, CounterLoad, CounterStore, NotifySubscriptions
<1>9. ASSUME NEW v \in Viewers, ViewerOffer(v) PROVE Same
      BY <1>9 DEF ViewerOffer, updateVars
<1>10. ASSUME NEW v \in Viewers, NEW w \in Viewers, MapFault(v, w) PROVE Same
      BY <1>10 DEF MapFault, updateVars
<1>11. ASSUME NEW p \in Publishers, PublisherOffer(p) PROVE Same
      BY <1>11 DEF PublisherOffer, updateVars
<1>12. ASSUME UNCHANGED vars PROVE Same
      BY <1>12 DEF vars, updateVars
<1> HIDE DEF Same, TypeOK, CallbackStates
<1>13. Same
      BY <1>3, <1>5, <1>6, <1>7, <1>8, <1>9, <1>10, <1>11, <1>12
      DEF Next, Handler
<1>14. QED BY <1>13 DEF Same, Gone, Settled

ReplacedInv(p, q) ==
    /\ p # q /\ Gone(q)
    /\ Signed(connectionCounter[p]) >= 1 => sessions[KeyOf[q]] # q

LEMMA ReplacedStarts ==
    ASSUME LinkInv, Unoffered, NEW p \in Publishers, NEW q \in Publishers,
           Gone(q), peer[p] = "none"
    PROVE  ReplacedInv(p, q)
<1>1. p \in Peers /\ p # q
      BY DEF Peers, Gone
<1>2. /\ reports[p] = 0 /\ ~linked[p]
      /\ pending[p]["connected"] \in Nat /\ pending[p]["disconnected"] \in Nat
      /\ connectionCounter[p] \in 0..(UintMod - 1)
      BY <1>1, LinkTypes DEF Unoffered, LinkInv
<1>3. Signed(connectionCounter[p]) \in Int
      BY <1>2, SignedSteps
<1>4. /\ pending[p]["connected"] + pending[p]["disconnected"] <= reports[p]
      /\ Signed(connectionCounter[p])
            + pending[p]["connected"] - pending[p]["disconnected"] = 0
      BY <1>1, <1>2 DEF LinkInv, PendingBound, LinkAccounted
<1>5. Signed(connectionCounter[p]) = 0
      BY <1>2, <1>3, <1>4
<1>6. QED BY <1>1, <1>5 DEF ReplacedInv

LEMMA ReplacedStep ==
    ASSUME LinkInv, [Next]_vars, NEW p \in Publishers, NEW q \in Publishers,
           KeyOf[p] = KeyOf[q], ReplacedInv(p, q)
    PROVE  ReplacedInv(p, q)'
<1>1. TypeOK /\ p # q /\ Gone(q) /\ Gone(q)'
      BY GoneStays DEF LinkInv, ReplacedInv
<1>2. KeyOf[q] \in Keys
      BY BroadcastAssumption DEF Peers
<1>3. SUFFICES ASSUME Signed(connectionCounter'[p]) >= 1
               PROVE  sessions'[KeyOf[q]] # q
      BY <1>1 DEF ReplacedInv, Signed
<1>4. CASE Signed(connectionCounter[p]) >= 1
  <2>1. sessions[KeyOf[q]] # q
        BY <1>4 DEF ReplacedInv
  <2>2. ASSUME NEW r \in Publishers, Registers(r)
        PROVE  sessions'[KeyOf[q]] # q
    <3>1. r # q
          BY <1>1, <2>2 DEF Registers, Gone, Settled
    <3>2. QED BY <1>1, <1>2, <2>1, <2>2, <3>1 DEF Registers, TypeOK
  <2>3. QED BY <1>1, <2>1, <2>2, SessionChanges
<1>5. CASE ~(Signed(connectionCounter[p]) >= 1)
  <2>1. connectionCounter[p] = 0 /\ connectionCounter'[p] = 1
        BY <1>3, <1>5, FirstCount
  <2>2. QED BY <1>1, <2>1, CountsInRegisters
<1>6. QED BY <1>4, <1>5

LEMMA ReplacedSuffices ==
    ASSUME LinkInv, NEW p \in Publishers, NEW q \in Publishers,
           ReplacedInv(p, q)
    PROVE  Replaces(p, q)
<1> SUFFICES ASSUME Settled(p), linked[p] PROVE sessions[KeyOf[q]] # q
    BY DEF Replaces
<1>1. p \in Peers
      BY DEF Peers
<1>2. Signed(connectionCounter[p]) \in Int
      BY <1>1, LinkTypes, SignedSteps DEF LinkInv
<1>3. Signed(connectionCounter[p])
          + pending[p]["connected"] - pending[p]["disconnected"] = 1
      BY <1>1 DEF LinkInv, LinkAccounted
<1>4. QED BY <1>2, <1>3 DEF Settled, ReplacedInv

\* An edge device that offers again after its old peer closed takes the place
\* of its old track in the table as soon as it is connected, and keeps it: no
\* order of the callbacks brings the dead track back.
THEOREM ReturningEdgesReplace == Spec => ReturningEdgeReplaces
<1>1. ASSUME NEW p \in Publishers, NEW q \in Publishers, KeyOf[p] = KeyOf[q]
      PROVE  Spec => [](Gone(q) /\ peer[p] = "none" => []Replaces(p, q))
  <2>1. Init => LinkInv /\ Unoffered
        BY LinkInitially DEF Init, Unoffered
  <2>2. LinkInv /\ Unoffered /\ [Next]_vars => LinkInv' /\ Unoffered'
        BY LinkStep, UnofferedStep DEF LinkInv
  <2>3. LinkInv /\ Unoffered /\ Gone(q) /\ peer[p] = "none" =>
            ReplacedInv(p, q)
        BY ReplacedStarts
  <2>4. LinkInv /\ ReplacedInv(p, q) /\ [Next]_vars => ReplacedInv(p, q)'
        BY <1>1, ReplacedStep
  <2>5. LinkInv /\ ReplacedInv(p, q) => Replaces(p, q)
        BY ReplacedSuffices
  <2>6. QED BY <2>1, <2>2, <2>3, <2>4, <2>5, PTL DEF Spec
<1>2. QED BY <1>1 DEF ReturningEdgeReplaces

-----------------------------------------------------------------------------
(* The count an edge was told last.  As long as no store came between another *)
(* store of the stream and its notice, one viewer at most has a notice to     *)
(* give, and it holds the count.                                            *)

NoticeInv ==
    \A k \in Keys \ late :
        /\ \A v, w \in ViewersOf(k) :
              phase[v] = "notify" /\ phase[w] = "notify" => v = w
        /\ \A v \in ViewersOf(k) : phase[v] = "notify" => val[v] = counter[k]
        /\ (\A v \in ViewersOf(k) : phase[v] # "notify") => notice[k] = counter[k]

\* Only its own store brings a viewer to its notice, and only its own notice
\* takes it on.
LEMMA NotifyPhase ==
    ASSUME TypeOK, [Next]_vars, NEW v \in Viewers
    PROVE  /\ phase'[v] = "notify" /\ ~CounterStore(v) =>
                 phase[v] = "notify" /\ val'[v] = val[v]
           /\ phase[v] = "notify" /\ ~NotifySubscriptions(v) =>
                 phase'[v] = "notify"
<1>1. v \in Peers
      BY DEF Peers
<1>2. CASE HandleConnected(v) \/ HandleDisconnected(v)
      BY <1>1, <1>2 DEF HandleConnected, HandleDisconnected, HandleLink, Take,
          CompareCounters, CallUpdateCounter, updateVars, TypeOK
<1>3. CASE CounterLoad(v)
      BY <1>1, <1>3 DEF CounterLoad, TypeOK
<1>4. CASE CounterStore(v)
      BY <1>1, <1>4 DEF CounterStore, TypeOK
<1>5. CASE NotifySubscriptions(v)
      BY <1>1, <1>5 DEF NotifySubscriptions, TypeOK
<1>6. CASE /\ ~HandleConnected(v) /\ ~HandleDisconnected(v)
           /\ ~CounterLoad(v) /\ ~CounterStore(v) /\ ~NotifySubscriptions(v)
      BY <1>6, OthersKeepViewer
<1>7. QED BY <1>2, <1>3, <1>4, <1>5, <1>6

\* Only a viewer's notice changes what the edge was told.
LEMMA NoticesOnly ==
    ASSUME [Next]_vars, \A v \in Viewers : ~NotifySubscriptions(v)
    PROVE  notice' = notice
<1>1. ASSUME NEW p \in Peers, Handler(p) \/ Agent(p) PROVE notice' = notice
      BY <1>1 DEF Handler, HandleConnected, HandleDisconnected, HandleLink,
                  HandleFailed, ClosePanics, HandleClosed, Agent, AgentLink,
                  AgentFails, RemoteCloses
<1>2. ASSUME NEW v \in Viewers, CounterLoad(v) \/ CounterStore(v) \/ ViewerOffer(v)
      PROVE  notice' = notice
      BY <1>2 DEF CounterLoad, CounterStore, ViewerOffer
<1>3. ASSUME NEW v \in Viewers, NEW w \in Viewers, MapFault(v, w)
      PROVE  notice' = notice
      BY <1>3 DEF MapFault
<1>4. ASSUME NEW p \in Publishers, PublisherOffer(p) PROVE notice' = notice
      BY <1>4 DEF PublisherOffer
<1>5. CASE UNCHANGED vars
      BY <1>5 DEF vars
<1>6. QED BY <1>1, <1>2, <1>3, <1>4, <1>5 DEF Next, Update

LEMMA NoticeStep ==
    ASSUME TypeOK, NoticeInv, [Next]_vars
    PROVE  NoticeInv'
<1> SUFFICES ASSUME NEW k \in Keys \ late'
             PROVE  /\ \A v, w \in ViewersOf(k) :
                          phase'[v] = "notify" /\ phase'[w] = "notify" => v = w
                    /\ \A v \in ViewersOf(k) :
                          phase'[v] = "notify" => val'[v] = counter'[k]
                    /\ (\A v \in ViewersOf(k) : phase'[v] # "notify") =>
                          notice'[k] = counter'[k]
    BY DEF NoticeInv, ViewersOf
<1>1. k \notin late
      BY StoresOnly DEF CounterStore, MarkIf
<1>2. /\ \A v, w \in ViewersOf(k) :
            phase[v] = "notify" /\ phase[w] = "notify" => v = w
      /\ \A v \in ViewersOf(k) : phase[v] = "notify" => val[v] = counter[k]
      /\ (\A v \in ViewersOf(k) : phase[v] # "notify") => notice[k] = counter[k]
      BY <1>1 DEF NoticeInv
<1>3. \A v \in ViewersOf(k) : v \in Viewers /\ v \in Peers /\ KeyOf[v] = k
      BY DEF ViewersOf, Peers
<1>4. ASSUME NEW v \in ViewersOf(k), CounterStore(v)
      PROVE  /\ \A w \in ViewersOf(k) : phase'[w] = "notify" => w = v
             /\ phase'[v] = "notify" /\ val'[v] = counter'[k]
  <2>1. ~Overlaps(v, "notify")
        BY <1>3, <1>4 DEF CounterStore, MarkIf
  <2>2. \A w \in ViewersOf(k) \ {v} : phase[w] # "notify"
        BY <1>3, <2>1 DEF Overlaps
  <2>3. phase' = [phase EXCEPT ![v] = "notify"]
        /\ counter' = [counter EXCEPT ![k] = val[v]] /\ val' = val
        BY <1>3, <1>4 DEF CounterStore
  <2>4. QED BY <1>3, <2>2, <2>3 DEF TypeOK
<1>5. ASSUME NEW v \in ViewersOf(k), NotifySubscriptions(v)
      PROVE  /\ \A w \in ViewersOf(k) : phase'[w] # "notify"
             /\ notice'[k] = counter'[k]
  <2>1. /\ phase[v] = "notify" /\ phase' = [phase EXCEPT ![v] = "idle"]
        /\ notice' = [notice EXCEPT ![k] = val[v]] /\ counter' = counter
        BY <1>3, <1>5 DEF NotifySubscriptions
  <2>2. val[v] = counter[k]
        BY <1>2, <2>1
  <2>3. QED BY <1>2, <1>3, <2>1, <2>2 DEF TypeOK
<1>6. CASE \A v \in ViewersOf(k) : ~CounterStore(v) /\ ~NotifySubscriptions(v)
  <2>1. \A v \in ViewersOf(k) : /\ phase'[v] = "notify" <=> phase[v] = "notify"
                                /\ phase[v] = "notify" => val'[v] = val[v]
        BY <1>3, <1>6, NotifyPhase
  <2>2. counter'[k] = counter[k]
    <3>1. ASSUME NEW w \in Viewers, CounterStore(w) PROVE counter'[k] = counter[k]
      <4>1. KeyOf[w] # k
            BY <1>6, <3>1 DEF ViewersOf
      <4>2. QED BY <3>1, <4>1 DEF CounterStore, TypeOK
    <3>2. QED BY <3>1, StoresOnly
  <2>3. notice'[k] = notice[k]
    <3>1. ASSUME NEW w \in Viewers, NotifySubscriptions(w)
          PROVE  notice'[k] = notice[k]
      <4>1. KeyOf[w] # k
            BY <1>6, <3>1 DEF ViewersOf
      <4>2. QED BY <3>1, <4>1 DEF NotifySubscriptions, TypeOK
    <3>2. QED BY <3>1, NoticesOnly
  <2>4. QED BY <1>2, <2>1, <2>2, <2>3
<1>7. QED BY <1>4, <1>5, <1>6

LEMMA NoticeInitially == Init => NoticeInv
BY DEF Init, NoticeInv, ViewersOf, Peers

LEMMA NoticeSuffices == NoticeInv => LastNoticeCurrent
<1> SUFFICES ASSUME NoticeInv, NEW k \in Keys \ late,
                    \A v \in ViewersOf(k) : phase[v] = "idle"
             PROVE  notice[k] = counter[k]
    BY DEF LastNoticeCurrent
<1>1. QED BY DEF NoticeInv

\* What the edge was told last is the count, once no update is in progress, as
\* long as no store came between a store and its notice.
THEOREM NoticesAreCurrent == Spec => []LastNoticeCurrent
<1>1. TypeOK /\ NoticeInv /\ [Next]_vars => TypeOK' /\ NoticeInv'
      BY TypeStep, NoticeStep
<1>2. QED BY TypeInitially, NoticeInitially, NoticeSuffices, <1>1, PTL DEF Spec
=============================================================================
