--------------------------- MODULE DeliveryProofs ---------------------------
(***************************************************************************)
(* History and live stream put together, for any sets of readers, pages    *)
(* and senders, any limit and any channel capacities.                      *)
(***************************************************************************)
EXTENDS Delivery, HubProofs

HubOK == IInv /\ HeldOK /\ Messages /\ Events /\ Streams /\ LogOK

(* The newest messages among the first n, as many as a reader asks for.    *)
Newest(n) == {id \in 1..n : id > n - HistoryLimit}

(* What a reader got is the history as it was stored then; and recv, which *)
(* asks for it when Connect has returned, has been registered by then, so  *)
(* what its stream will not bring was stored before.                       *)
ReaderOK ==
    /\ reader \in [Clients -> {"closed", "loaded", "connecting", "connected", "showing", "nohistory"}]
    /\ history \in [Clients -> SUBSET Nat] /\ storedAt \in [Clients -> Nat]
    /\ \A s \in Clients :
          /\ regAt[s] <= Len(log)
          /\ history[s] = Newest(storedAt[s])
          /\ reader[s] \in {"connected", "showing", "nohistory"}
                => pump[s] \notin {"idle", "registering"}
          /\ s \notin page /\ reader[s] = "showing"
                => \A k \in 1..regAt[s] : log[k].kind = "message" => log[k].id <= storedAt[s]

-----------------------------------------------------------------------------
(* Every step of a reader is a step of the hub, or none: what is proved of *)
(* the hub holds here.                                                     *)
LEMMA HubSteps == [DeliveryNext]_deliveryVars => [Next]_vars
<1> SUFFICES ASSUME [DeliveryNext]_deliveryVars PROVE [Next]_vars
  OBVIOUS
<1>1. ASSUME NEW s \in Clients, OpenStream(s) PROVE Next
  BY <1>1 DEF OpenStream, Next, PumpStep
<1>2. ASSUME NEW s \in Clients, LoadPage(s) \/ Connected(s) \/ SyncHistory(s) \/ SyncHistoryFails(s)
      PROVE  UNCHANGED vars
  BY <1>2 DEF LoadPage, Connected, SyncHistory, SyncHistoryFails
<1>3. CASE HubStep
  BY <1>3 DEF HubStep
<1>4. CASE UNCHANGED deliveryVars
  BY <1>4 DEF deliveryVars
<1> QED
  BY <1>1, <1>2, <1>3, <1>4 DEF DeliveryNext

LEMMA SpecHub == DeliverySpec => []HubOK /\ [][Next]_vars
<1>1. DeliveryInit => Init
  BY DEF DeliveryInit
<1>2. [DeliveryNext]_deliveryVars => [Next]_vars
  BY HubSteps
<1> QED
  BY <1>1, <1>2, SpecLog, PTL DEF Spec, DeliverySpec, HubOK

(* What Sync returns.                                                      *)
LEMMA SyncNewest == lastId \in Nat => Sync(0, HistoryLimit) = Newest(lastId)
BY LimitAssumption DEF Sync, Newest

-----------------------------------------------------------------------------
(* It holds initially.                                                     *)
LEMMA InitReader == DeliveryInit => ReaderOK
<1> SUFFICES ASSUME DeliveryInit PROVE ReaderOK
  OBVIOUS
<1>1. Newest(0) = {}
  BY DEF Newest
<1> QED
  BY <1>1 DEF DeliveryInit, Init, ReaderOK

(* A step of the hub preserves it: a connection is registered once, and    *)
(* the log only grows.                                                     *)
LEMMA HubKeepsReader ==
    ASSUME HubOK, ReaderOK, [Next]_vars, UNCHANGED <<page, history, storedAt>>,
           reader' = reader \/ \E q \in Clients : reader' = [reader EXCEPT ![q] = "connecting"]
    PROVE  ReaderOK'
<1>types. /\ log \in Seq(Items) /\ regAt \in [Clients -> Nat] /\ pump \in [Clients -> PumpStates]
          /\ Len(log) \in Nat
  BY DEF HubOK, IInv, TypeOK
<1>1. ASSUME NEW s \in Clients
      PROVE  /\ regAt'[s] <= Len(log')
             /\ pump[s] \notin {"idle", "registering"}
                  => regAt'[s] = regAt[s] /\ pump'[s] \notin {"idle", "registering"}
             /\ \A k \in 1..Len(log) : log'[k] = log[k]
  <2>1. CASE RunRegister(s)
    BY <2>1, <1>types DEF RunRegister
  <2>2. CASE RunDeliver(s)
    BY <2>2, <1>types, DeliverStep DEF HubOK, ReaderOK
  <2>3. CASE ~RunRegister(s) /\ ~RunDeliver(s)
    <3>1. /\ regAt'[s] = regAt[s]
          /\ log' = log \/ \E e \in Items : log' = Append(log, e)
          /\ pump'[s] \in {"idle", "registering"} => pump[s] \in {"idle", "registering"}
      BY <2>3, QuietStep DEF HubOK
    <3>2. Len(log') >= Len(log) /\ Len(log') \in Nat /\ \A k \in 1..Len(log) : log'[k] = log[k]
      BY <3>1, <1>types
    <3>3. regAt[s] \in Nat /\ regAt[s] <= Len(log)
      BY <1>types DEF ReaderOK
    <3> QED
      BY <3>1, <3>2, <3>3, <1>types
  <2> QED
    BY <2>1, <2>2, <2>3
<1>2. \A s \in Clients : reader'[s] = reader[s] \/ reader'[s] = "connecting"
  BY DEF ReaderOK
<1>3. ASSUME NEW s \in Clients, reader'[s] = reader[s], reader[s] = "showing", s \notin page
      PROVE  \A k \in 1..regAt'[s] : log'[k].kind = "message" => log'[k].id <= storedAt[s]
  <2>1. regAt'[s] = regAt[s] /\ \A k \in 1..regAt[s] : log'[k] = log[k]
    BY <1>1, <1>3, <1>types DEF ReaderOK
  <2> QED
    BY <2>1, <1>3 DEF ReaderOK
<1>4. reader' \in [Clients -> {"closed", "loaded", "connecting", "connected", "showing", "nohistory"}]
  BY DEF ReaderOK
<1> QED
  BY <1>1, <1>2, <1>3, <1>4 DEF ReaderOK

(* Every step preserves it.                                                *)
LEMMA NextReader == HubOK /\ ReaderOK /\ [DeliveryNext]_deliveryVars => ReaderOK'
<1> SUFFICES ASSUME HubOK, ReaderOK, [DeliveryNext]_deliveryVars PROVE ReaderOK'
  OBVIOUS
<1>types. /\ lastId \in Nat /\ log \in Seq(Items) /\ regAt \in [Clients -> Nat]
          /\ broadcast \in Seq(Items)
  BY BoundsAssumption DEF HubOK, IInv, TypeOK
<1>newest. Sync(0, HistoryLimit) = Newest(lastId) /\ Newest(lastId) \in SUBSET Nat
  BY <1>types, SyncNewest DEF Newest
<1>1. ASSUME NEW s \in Clients, LoadPage(s) PROVE ReaderOK'
  <2>1. /\ page' = page \cup {s} /\ reader' = [reader EXCEPT ![s] = "loaded"]
        /\ history' = [history EXCEPT ![s] = Newest(lastId)]
        /\ storedAt' = [storedAt EXCEPT ![s] = lastId]
        /\ UNCHANGED <<pump, log, regAt>>
    BY <1>1, <1>newest DEF LoadPage, vars, pumpVars, histVars
  <2> QED
    BY <2>1, <1>types, <1>newest DEF ReaderOK
<1>2. ASSUME NEW s \in Clients, OpenStream(s) PROVE ReaderOK'
  <2>1. /\ reader' = [reader EXCEPT ![s] = "connecting"] /\ UNCHANGED <<page, history, storedAt>>
    BY <1>2 DEF OpenStream
  <2> QED
    BY <2>1, HubSteps, HubKeepsReader
<1>3. ASSUME NEW s \in Clients, Connected(s) PROVE ReaderOK'
  <2>1. /\ UNCHANGED <<page, history, storedAt, pump, log, regAt, out>> /\ reader[s] = "connecting"
        /\ Written(s) # {}
        /\ reader' = [reader EXCEPT ![s] = IF s \in page THEN "showing" ELSE "connected"]
    BY <1>3 DEF Connected, HeadersArrived, vars, pumpVars, histVars
  <2>2. Stream(s) # <<>>
    <3>1. out[s] \in Seq(Frames) /\ send[s] \in Seq(Frames)
      BY DEF HubOK, IInv, TypeOK
    <3>2. out[s] # <<>>
      BY <2>1, <3>1 DEF Written
    <3> QED
      BY <3>1, <3>2 DEF Stream
  <2>3. pump[s] \notin {"idle", "registering"}
    BY <2>2 DEF HubOK, Streams
  <2> QED
    BY <2>1, <2>3 DEF ReaderOK
<1>4. ASSUME NEW s \in Clients, SyncHistory(s) PROVE ReaderOK'
  <2>1. /\ reader[s] = "connected" /\ reader' = [reader EXCEPT ![s] = "showing"]
        /\ history' = [history EXCEPT ![s] = Newest(lastId)]
        /\ storedAt' = [storedAt EXCEPT ![s] = lastId]
        /\ UNCHANGED <<page, pump, log, regAt>>
    BY <1>4, <1>newest DEF SyncHistory, vars, pumpVars, histVars
  <2>2. \A k \in 1..Len(log) : log[k].kind = "message" => log[k].id <= lastId
    <3>1. \A k \in 1..Len(log) : k \in DOMAIN Broadcasted /\ Broadcasted[k] = log[k]
      BY <1>types DEF Broadcasted
    <3> QED
      BY <3>1, <1>types DEF HubOK, Messages, PostedOK
  <2>3. \A k \in 1..regAt[s] : k \in 1..Len(log)
    BY <1>types DEF ReaderOK
  <2> QED
    BY <2>1, <2>2, <2>3, <1>types, <1>newest DEF ReaderOK
<1>5. ASSUME NEW s \in Clients, SyncHistoryFails(s) PROVE ReaderOK'
  <2>1. /\ reader[s] = "connected" /\ reader' = [reader EXCEPT ![s] = "nohistory"]
        /\ UNCHANGED <<page, history, storedAt, pump, log, regAt>>
    BY <1>5 DEF SyncHistoryFails, vars, pumpVars, histVars
  <2> QED
    BY <2>1 DEF ReaderOK
<1>6. CASE HubStep
  BY <1>6, HubSteps, HubKeepsReader DEF HubStep, readerVars
<1>7. CASE UNCHANGED deliveryVars
  BY <1>7, HubSteps, HubKeepsReader DEF deliveryVars, readerVars
<1> QED
  BY <1>1, <1>2, <1>3, <1>4, <1>5, <1>6, <1>7 DEF DeliveryNext

(* It holds in every reachable state.                                      *)
LEMMA SpecReader == DeliverySpec => [](HubOK /\ ReaderOK)
<1>1. DeliveryInit => ReaderOK
  BY InitReader
<1>2. HubOK /\ ReaderOK /\ [DeliveryNext]_deliveryVars => ReaderOK'
  BY NextReader
<1> QED
  BY <1>1, <1>2, SpecHub, PTL DEF DeliverySpec

-----------------------------------------------------------------------------
(* A stored message is on its way to a subscriber, on its stream, dropped  *)
(* for it, or was taken off broadcast before the registration.             *)
LEMMA MessageSomewhere ==
    ASSUME HubOK, NEW s \in subscribers, NEW id \in 1..lastId
    PROVE  \/ id \in OnTheWay(s) \/ id \in Live(s) \/ id \in IdsOf(dropped[s])
           \/ \E k \in 1..regAt[s] : k \in 1..Len(log) /\ log[k].kind = "message" /\ log[k].id = id
<1>types. /\ broadcast \in Seq(Items) /\ log \in Seq(Items) /\ s \in Clients
          /\ regAt[s] \in Nat /\ Len(log) \in Nat /\ Len(broadcast) \in Nat
          /\ out[s] \in Seq(Frames) /\ send[s] \in Seq(Frames)
  BY DEF HubOK, IInv, TypeOK
<1>1. CASE Owed(id)
  BY <1>1 DEF Owed, OnTheWay
<1>2. CASE Posted(id)
  <2>1. PICK i \in DOMAIN Broadcasted : Broadcasted[i].kind = "message" /\ Broadcasted[i].id = id
    BY <1>2 DEF Posted
  <2>2. \/ i \in 1..Len(log) /\ Broadcasted[i] = log[i]
        \/ i - Len(log) \in 1..Len(broadcast) /\ Broadcasted[i] = broadcast[i - Len(log)]
    BY <1>types DEF Broadcasted
  <2>3. CASE i - Len(log) \in 1..Len(broadcast) /\ Broadcasted[i] = broadcast[i - Len(log)]
    <3>1. Broadcasted[i] \in Elements(broadcast)
      BY <2>3 DEF Elements
    <3>2. id \in IdsOf(Elements(broadcast))
      BY <2>1, <3>1 DEF IdsOf
    <3> QED
      BY <3>2 DEF OnTheWay
  <2>4. CASE i \in 1..Len(log) /\ Broadcasted[i] = log[i]
    <3>1. CASE i <= regAt[s]
      BY <2>1, <2>4, <3>1, <1>types
    <3>2. CASE regAt[s] < i /\ i <= Served(s)
      <4>1. i \in (regAt[s] + 1)..Served(s)
        BY <2>4, <3>2, <1>types DEF Served
      <4>2. CASE log[i] \in dropped[s]
        BY <2>1, <2>4, <4>2 DEF IdsOf
      <4>3. CASE \E j \in DOMAIN Stream(s) : Stream(s)[j].item = log[i]
        <5>1. PICK j \in DOMAIN Stream(s) : Stream(s)[j].item = log[i]
          BY <4>3
        <5>2. Stream(s) \in Seq(Frames)
          BY <1>types DEF Stream
        <5>3. log[i] \in Elements(ItemsOf(Stream(s)))
          BY <5>1, <5>2 DEF Elements, ItemsOf
        <5> QED
          BY <2>1, <2>4, <5>3 DEF Live, IdsOf
      <4>4. (\E j \in DOMAIN Stream(s) : Stream(s)[j].item = log[i]) <=> log[i] \notin dropped[s]
        BY <1>types, <4>1 DEF HubOK, LogOK
      <4> QED
        BY <4>2, <4>3, <4>4
    <3>3. CASE i > Served(s)
      <4>1. run = "deliver" /\ s \in todo /\ i = Len(log)
        BY <2>4, <3>3, <1>types DEF Served
      <4>2. frame.item = log[i]
        BY <4>1 DEF HubOK, HeldOK
      <4>3. id \in IdsOf({frame.item})
        BY <2>1, <2>4, <4>2 DEF IdsOf
      <4> QED
        BY <4>1, <4>3 DEF OnTheWay
    <3>4. Served(s) \in Int
      BY <1>types, ServedType
    <3> QED
      BY <3>1, <3>2, <3>3, <3>4, <1>types, <2>4
  <2> QED
    BY <2>2, <2>3, <2>4
<1> QED
  BY <1>1, <1>2 DEF HubOK, Messages, PostedOK

(* grunt recv misses no message between the history and its stream: the    *)
(* order connect, then sync, closes the race for every interleaving, every *)
(* limit and every channel capacity.                                       *)
THEOREM RecvComplete == DeliverySpec => []RecvMissesNothing
<1>1. HubOK /\ ReaderOK => RecvMissesNothing
  <2> SUFFICES ASSUME HubOK, ReaderOK, NEW s \in subscribers, s \notin page, reader[s] = "showing",
                      NEW id \in Missing(s)
               PROVE  id \in TooOld(s)
    BY DEF RecvMissesNothing
  <2>1. id \in 1..lastId /\ id \notin history[s] /\ s \in Clients /\ storedAt[s] \in Nat
    BY DEF Missing, HubOK, IInv, TypeOK, ReaderOK
  <2>2. \E k \in 1..regAt[s] : log[k].kind = "message" /\ log[k].id = id
    <3>1. id \notin OnTheWay(s) /\ id \notin Live(s) /\ id \notin IdsOf(dropped[s])
      BY DEF Missing
    <3> QED
      BY <2>1, <3>1, MessageSomewhere
  <2>3. id <= storedAt[s]
    BY <2>1, <2>2 DEF ReaderOK
  <2>4. id \notin Newest(storedAt[s])
    BY <2>1 DEF ReaderOK
  <2> QED
    BY <2>1, <2>3, <2>4, LimitAssumption DEF TooOld, Newest
<1> QED
  BY <1>1, SpecReader, PTL

(* A page misses only what was stored after it was loaded and broadcast    *)
(* before its stream was registered, for every interleaving.               *)
THEOREM PageComplete == DeliverySpec => []PageMissesOnlyWhileOpening
<1>1. HubOK /\ ReaderOK => PageMissesOnlyWhileOpening
  <2> SUFFICES ASSUME HubOK, ReaderOK, NEW s \in subscribers, NEW id \in Missing(s), id \notin TooOld(s)
               PROVE  /\ id \in IdsOf(Elements(SubSeq(log, 1, regAt[s])))
                      /\ id \notin 1..storedAt[s]
    BY DEF PageMissesOnlyWhileOpening
  <2>1. /\ id \in 1..lastId /\ id \notin history[s] /\ s \in Clients /\ storedAt[s] \in Nat
        /\ log \in Seq(Items) /\ regAt[s] \in Nat /\ regAt[s] <= Len(log)
    BY DEF Missing, HubOK, IInv, TypeOK, ReaderOK
  <2>2. PICK k \in 1..regAt[s] : log[k].kind = "message" /\ log[k].id = id
    <3>1. id \notin OnTheWay(s) /\ id \notin Live(s) /\ id \notin IdsOf(dropped[s])
      BY DEF Missing
    <3> QED
      BY <2>1, <3>1, MessageSomewhere
  <2>3. id \notin 1..storedAt[s]
    <3>1. id \notin Newest(storedAt[s])
      BY <2>1 DEF ReaderOK
    <3> QED
      BY <2>1, <3>1, LimitAssumption DEF TooOld, Newest
  <2>4. log[k] \in Elements(SubSeq(log, 1, regAt[s]))
    <3>1. Len(SubSeq(log, 1, regAt[s])) = regAt[s] /\ SubSeq(log, 1, regAt[s])[k] = log[k]
      BY <2>1
    <3> QED
      BY <3>1 DEF Elements
  <2> QED
    BY <2>2, <2>3, <2>4 DEF IdsOf
<1> QED
  BY <1>1, SpecReader, PTL
=============================================================================
