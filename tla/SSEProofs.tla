----------------------------- MODULE SSEProofs -----------------------------
(***************************************************************************)
(* Proofs about module SSE, for any page of elements, any number of        *)
(* EventSource objects, messages and faults: the variables keep their      *)
(* types, an element has one connection at most, a source whose element    *)
(* has left the body ends with its first event, every element hears each   *)
(* event once, and the page shows the stream but for what was lost.        *)
(***************************************************************************)
EXTENDS SSE, SequenceTheorems, TLAPS

(* An element's internal data names a source made for that element.        *)
Owned == \A e \in Elements : data[e] # NoSource => source[data[e]].elt = e

(* A connection was made for an element with sse-connect ...               *)
Placed == \A s \in Slots : Live(s) => source[s].elt \in Connects

(* ... when that element was processed, or later.                          *)
Unprocessed ==
    \A e \in Elements \ processed :
        /\ timers[e] = <<>>
        /\ \A s \in Slots : Live(s) => source[s].elt # e

(* OneConnection is inductive together with these.                         *)
Connections == OneConnection /\ Owned /\ Placed /\ Unprocessed

(* What the arguments about connections look at.                           *)
Alike(p, q) == p.elt = q.elt /\ p.state = q.state /\ p.inbox = q.inbox

-----------------------------------------------------------------------------
(* registerSSE changes nothing but the number of listeners.                *)
LEMMA RegisterType ==
    ASSUME NEW src \in [Slots -> Sources], NEW dat, NEW D
    PROVE  /\ RegisterSSE(src, dat, D) \in [Slots -> Sources]
           /\ \A s \in Slots : Alike(RegisterSSE(src, dat, D)[s], src[s])
<1> SUFFICES ASSUME NEW s \in Slots
             PROVE  /\ RegisterSSE(src, dat, D)[s] \in Sources
                    /\ Alike(RegisterSSE(src, dat, D)[s], src[s])
  BY DEF RegisterSSE
<1> DEFINE c == [l \in Listeners |->
                    IF l[1] \in D /\ ClosestSource(dat, l[1]) = s
                      THEN src[s].count[l] + 1 ELSE src[s].count[l]]
<1>1. src[s] \in Sources /\ src[s].count \in [Listeners -> Nat]
  BY DEF Sources
<1>2. c \in [Listeners -> Nat]
  BY <1>1
<1>3. RegisterSSE(src, dat, D)[s] = [src[s] EXCEPT !.count = c]
  BY DEF RegisterSSE
<1> HIDE DEF c
<1> QED
  BY <1>1, <1>2, <1>3 DEF Sources, Alike

(* A new source has the type, and is a connection of its element.          *)
LEMMA NewSourceType ==
    ASSUME NEW e \in Elements \cup {NoElement}, NEW r \in Retries
    PROVE  NewSource(e, r) \in Sources /\ NewSource(e, r).elt = e
BY DEF NewSource, Sources

(* ensureEventSourceOnElement registers listeners, and makes a source in   *)
(* no use so far the element's own if it has sse-connect.                  *)
LEMMA EnsureMeans ==
    ASSUME TypeOK, NEW e \in Elements, NEW r \in Retries, EnsureEventSourceOnElement(e, r)
    PROVE  /\ source' \in [Slots -> Sources]
           /\ data' \in [Elements -> Slots \cup {NoSource}]
           /\ \/ /\ e \notin Connects /\ data' = data
                 /\ \A s \in Slots : Alike(source'[s], source[s])
              \/ /\ e \in Connects
                 /\ \E t \in FreeSlots :
                       /\ data' = [data EXCEPT ![e] = t]
                       /\ source'[t].elt = e
                       /\ \A s \in Slots \ {t} : Alike(source'[s], source[s])
<1> USE DEF TypeOK
<1>1. CASE e \in Connects
  <2>1. PICK t \in FreeSlots : /\ data' = [data EXCEPT ![e] = t]
                               /\ source' = RegisterSSE([source EXCEPT ![t] = NewSource(e, r)],
                                                        data', {e})
    BY <1>1 DEF EnsureEventSourceOnElement
  <2>2. t \in Slots
    BY DEF FreeSlots
  <2> DEFINE made == [source EXCEPT ![t] = NewSource(e, r)]
  <2>3. made \in [Slots -> Sources]
    BY <2>2, NewSourceType
  <2>4. \A s \in Slots : Alike(source'[s], made[s])
    BY <2>1, <2>3, RegisterType
  <2>5. source' \in [Slots -> Sources]
    BY <2>1, <2>3, RegisterType
  <2>6. source'[t].elt = e
    BY <2>2, <2>4, NewSourceType DEF Alike
  <2>7. \A s \in Slots \ {t} : Alike(source'[s], source[s])
    BY <2>2, <2>4
  <2> QED
    BY <1>1, <2>1, <2>2, <2>5, <2>6, <2>7
<1>2. CASE e \notin Connects
  <2> DEFINE t == ClosestSource(data, e)
  <2> DEFINE joining == IF t = NoSource THEN source
                                        ELSE [source EXCEPT ![t].joined = @ \cup {e}]
  <2>1. source' = RegisterSSE(joining, data, {e}) /\ data' = data
    BY <1>2 DEF EnsureEventSourceOnElement
  <2>2. t \in Slots \cup {NoSource}
    BY ElementsAssumption DEF ClosestSource
  <2>3. joining \in [Slots -> Sources] /\ \A s \in Slots : Alike(joining[s], source[s])
    <3>1. \A s \in Slots : /\ [source[s] EXCEPT !.joined = @ \cup {e}] \in Sources
                           /\ Alike([source[s] EXCEPT !.joined = @ \cup {e}], source[s])
      BY DEF Sources, Alike
    <3>2. CASE t = NoSource
      BY <3>2 DEF Alike
    <3>3. CASE t \in Slots
      BY <3>1, <3>3, SlotsAssumption DEF Alike
    <3> QED
      BY <2>2, <3>2, <3>3
  <2> HIDE DEF joining
  <2>4. source' \in [Slots -> Sources] /\ \A s \in Slots : Alike(source'[s], joining[s])
    BY <2>1, <2>3, RegisterType
  <2>5. \A s \in Slots : Alike(source'[s], source[s])
    BY <2>3, <2>4 DEF Alike
  <2> QED
    BY <1>2, <2>1, <2>4, <2>5
<1> QED
  BY <1>1, <1>2

-----------------------------------------------------------------------------
(* Type correctness.                                                       *)

(* A source stays one when it is closed, or when its fields change within  *)
(* their types.                                                            *)
LEMMA SourceTypes ==
    ASSUME NEW src \in Sources
    PROVE  /\ \A st \in {"connecting", "open", "closed"} : [src EXCEPT !.state = st] \in Sources
           /\ \A r \in Retries : [src EXCEPT !.retry = r] \in Sources
           /\ \A q \in Seq(1..MaxMessages) : [src EXCEPT !.inbox = q] \in Sources
           /\ \A c \in [Listeners -> Nat] : [src EXCEPT !.count = c] \in Sources
           /\ Closed(src) \in Sources
<1>1. \A st \in {"connecting", "open", "closed"} : [src EXCEPT !.state = st] \in Sources
  BY DEF Sources
<1>2. \A r \in Retries : [src EXCEPT !.retry = r] \in Sources
  BY DEF Sources
<1>3. ASSUME NEW q \in Seq(1..MaxMessages), NEW old \in Sources
      PROVE  [old EXCEPT !.inbox = q] \in Sources
  BY DEF Sources
<1>4. \A c \in [Listeners -> Nat] : [src EXCEPT !.count = c] \in Sources
  BY DEF Sources
<1>5. Closed(src) \in Sources
  <2> DEFINE ended == [src EXCEPT !.state = "closed"]
  <2>1. ended \in Sources /\ <<>> \in Seq(1..MaxMessages)
    BY <1>1
  <2>2. Closed(src) = [ended EXCEPT !.inbox = <<>>]
    BY DEF Closed
  <2> HIDE DEF ended
  <2> QED
    BY <1>3, <2>1, <2>2
<1> QED
  BY <1>1, <1>2, <1>3, <1>4, <1>5

(* Closing one of the sources, if there is one of that name.               *)
LEMMA ClosingType ==
    ASSUME NEW src \in [Slots -> Sources], NEW t
    PROVE  [src EXCEPT ![t] = Closed(@)] \in [Slots -> Sources]
<1>1. \A s \in Slots : src[s] \in Sources /\ Closed(src[s]) \in Sources
  BY SourceTypes
<1> QED
  BY <1>1

LEMMA InitType == Init => TypeOK
<1> SUFFICES ASSUME Init PROVE TypeOK
  OBVIOUS
<1>1. 0 \in Retries
  BY SlotsAssumption DEF Retries
<1>2. Unused \in Sources
  BY <1>1, NewSourceType, SourceTypes DEF Unused
<1> QED
  BY <1>1, <1>2, BoundsAssumption DEF Init, TypeOK

(* What onopen does to its source.                                         *)
LEMMA OpenedType ==
    ASSUME TypeOK, NEW s \in Slots
    PROVE  [source EXCEPT ![s].state = "open", ![s].retry = 0] \in [Slots -> Sources]
<1> DEFINE ready  == [source[s] EXCEPT !.state = "open"]
           opened == [source EXCEPT ![s].state = "open", ![s].retry = 0]
<1>1. /\ source \in [Slots -> Sources] /\ source[s] \in Sources
      /\ 0 \in Retries
  BY SlotsAssumption DEF TypeOK, Retries
<1>2. ready \in Sources
  BY <1>1, SourceTypes
<1>3. opened = [source EXCEPT ![s] = [ready EXCEPT !.retry = 0]]
  BY <1>1 DEF Sources
<1>4. [ready EXCEPT !.retry = 0] \in Sources
  <2> HIDE DEF ready
  <2> QED
    BY <1>1, <1>2, SourceTypes
<1> HIDE DEF ready, opened
<1>5. opened \in [Slots -> Sources]
  BY <1>1, <1>3, <1>4
<1> QED
  BY <1>5 DEF opened

(* What is counted as missed was sent.                                     *)
LEMMA LosingType ==
    ASSUME TypeOK, NEW s \in Slots
    PROVE  Losing(s) \in [Connects -> SUBSET (1..MaxMessages)]
<1>1. source[s].inbox \in Seq(1..MaxMessages)
  BY DEF TypeOK, Sources
<1>2. ASSUME NEW S, NEW q \in Seq(S) PROVE Values(q) \subseteq S
  <2>1. DOMAIN q = 1..Len(q) /\ \A i \in 1..Len(q) : q[i] \in S
    BY <1>2, ElementOfSeq
  <2> QED
    BY <2>1 DEF Values
<1>3. Values(source[s].inbox) \subseteq 1..MaxMessages
  BY <1>1, <1>2
<1> QED
  BY <1>3 DEF TypeOK, Losing

(* Every step keeps the types.                                             *)
LEMMA NextType == TypeOK /\ [Next]_vars => TypeOK'
<1> SUFFICES ASSUME TypeOK, [Next]_vars PROVE TypeOK'
  OBVIOUS
<1> USE DEF TypeOK
<1>1. ASSUME NEW e \in Elements, Insert(e) PROVE TypeOK'
  BY <1>1 DEF Insert
<1>2. ASSUME NEW e \in Elements, ProcessNode(e) PROVE TypeOK'
  <2>1. 0 \in Retries
    BY SlotsAssumption DEF Retries
  <2>2. source' \in [Slots -> Sources] /\ data' \in [Elements -> Slots \cup {NoSource}]
    BY <1>2, <2>1, EnsureMeans DEF ProcessNode
  <2> QED
    BY <1>2, <2>2 DEF ProcessNode
<1>3. ASSUME NEW e \in Elements, Reconnect(e) PROVE TypeOK'
  <2>1. Head(timers[e]) \in Retries /\ Tail(timers[e]) \in Seq(Retries)
    BY <1>3 DEF Reconnect
  <2>2. source' \in [Slots -> Sources] /\ data' \in [Elements -> Slots \cup {NoSource}]
    BY <1>3, <2>1, EnsureMeans DEF Reconnect
  <2>3. timers' \in [Elements -> Seq(Retries)]
    BY <1>3, <2>1 DEF Reconnect
  <2> QED
    BY <1>3, <2>2, <2>3 DEF Reconnect
<1>4. ASSUME NEW e \in Elements, NEW cleaned \in BOOLEAN, RemoveElement(e, cleaned)
      PROVE  TypeOK'
  <2>1. source' \in [Slots -> Sources]
    <3>1. \A s \in Slots : source[s] \in Sources /\ Closed(source[s]) \in Sources
      BY SourceTypes
    <3> QED
      BY <1>4, <3>1 DEF RemoveElement
  <2>3. data' \in [Elements -> Slots \cup {NoSource}]
    BY <1>4 DEF RemoveElement
  <2>2. place' \in [Elements -> {"absent", "body", "detached"}]
    BY <1>4 DEF RemoveElement
  <2> QED
    BY <1>4, <2>1, <2>2, <2>3 DEF RemoveElement
<1>5. ASSUME NEW s \in Slots, OnOpen(s) PROVE TypeOK'
  <2> DEFINE opened == [source EXCEPT ![s].state = "open", ![s].retry = 0]
  <2>1. opened \in [Slots -> Sources]
    BY OpenedType
  <2>2. source' \in [Slots -> Sources]
    <3> HIDE DEF opened
    <3>1. \/ source' = opened
          \/ source' = RegisterSSE(opened, data,
                           {d \in Under(source[s].elt) : place[d] # "absent"})
      BY <1>5 DEF OnOpen, opened
    <3> QED
      BY <2>1, <3>1, RegisterType
  <2> QED
    BY <1>5, <2>2 DEF OnOpen
<1>6. ASSUME NEW s \in Slots, OnErrorConnecting(s) PROVE TypeOK'
  <2> DEFINE broken  == [source[s] EXCEPT !.state = "connecting"]
             dropped == [source EXCEPT ![s].state = "connecting", ![s].inbox = <<>>]
  <2>1. dropped \in [Slots -> Sources]
    <3>0. source[s] \in Sources /\ <<>> \in Seq(1..MaxMessages)
      OBVIOUS
    <3>1. broken \in Sources
      BY <3>0, SourceTypes
    <3>2. dropped = [source EXCEPT ![s] = [broken EXCEPT !.inbox = <<>>]]
      BY DEF Sources
    <3> HIDE DEF broken, dropped
    <3> QED
      BY <3>0, <3>1, <3>2, SourceTypes
  <2>2. source' \in [Slots -> Sources]
    <3> HIDE DEF dropped
    <3>1. \/ source' = dropped
          \/ source' = [dropped EXCEPT ![data[source[s].elt]] = Closed(@)]
      BY <1>6 DEF OnErrorConnecting, dropped
    <3> QED
      BY <2>1, <3>1, ClosingType
  <2>3. missed' \in [Connects -> SUBSET (1..MaxMessages)]
    BY <1>6, LosingType DEF OnErrorConnecting
  <2>4. faults' \in 0..MaxFaults
    BY <1>6, BoundsAssumption DEF OnErrorConnecting
  <2> QED
    BY <1>6, <2>2, <2>3, <2>4 DEF OnErrorConnecting
<1>7. ASSUME NEW s \in Slots, OnErrorClosed(s) PROVE TypeOK'
  <2> DEFINE failed == [source EXCEPT ![s] = Closed(@)]
             r == NextRetry(source[s].retry)
  <2>1. failed \in [Slots -> Sources]
    BY SourceTypes
  <2>2. r \in Retries
    BY SlotsAssumption DEF Sources, Retries, NextRetry
  <2>3. source' \in [Slots -> Sources] /\ timers' \in [Elements -> Seq(Retries)]
    <3> HIDE DEF failed, r
    <3>1. \/ source' = [failed EXCEPT ![data[source[s].elt]] = Closed(@)] /\ timers' = timers
          \/ /\ source' = [failed EXCEPT ![s].retry = r]
             /\ timers' = [timers EXCEPT ![source[s].elt] = Append(@, r)]
      BY <1>7 DEF OnErrorClosed, failed, r
    <3>2. \A t \in Slots : failed[t] \in Sources /\ [failed[t] EXCEPT !.retry = r] \in Sources
      BY <2>1, <2>2, SourceTypes
    <3>3. source' \in [Slots -> Sources]
      <4>1. CASE source' = [failed EXCEPT ![data[source[s].elt]] = Closed(@)]
        BY <2>1, <4>1, ClosingType
      <4>2. CASE source' = [failed EXCEPT ![s].retry = r]
        BY <2>1, <3>2, <4>2
      <4> QED
        BY <3>1, <4>1, <4>2
    <3>4. \A e \in Elements : Append(timers[e], r) \in Seq(Retries)
      BY <2>2, AppendProperties
    <3>5. [timers EXCEPT ![source[s].elt] = Append(@, r)] \in [Elements -> Seq(Retries)]
      BY <3>4
    <3>6. timers' \in [Elements -> Seq(Retries)]
      BY <3>1, <3>5
    <3> QED
      BY <3>3, <3>6
  <2>4. faults' \in 0..MaxFaults
    BY <1>7, BoundsAssumption DEF OnErrorClosed
  <2> QED
    BY <1>7, <2>3, <2>4 DEF OnErrorClosed
<1>8. ASSUME NEW s \in Slots, OnMessage(s) PROVE TypeOK'
  <2> DEFINE n == Head(source[s].inbox)
             gone == MaybeCloses(source[s].elt)
             c == [l \in Listeners |->
                     IF ~gone /\ ~InBody(l[1]) THEN 0 ELSE source[s].count[l]]
             taken == [source EXCEPT ![s].inbox = Tail(@), ![s].count = c]
  <2>0. /\ source[s].inbox \in Seq(1..MaxMessages) /\ source[s].inbox # <<>>
        /\ source[s].count \in [Listeners -> Nat]
    BY <1>8 DEF OnMessage, Sources
  <2>1. /\ n \in 1..MaxMessages /\ Tail(source[s].inbox) \in Seq(1..MaxMessages)
        /\ source[s].count \in [Listeners -> Nat]
    BY <2>0, HeadTailProperties
  <2>2. c \in [Listeners -> Nat]
    BY <2>1
  <2>3. taken \in [Slots -> Sources]
    <3> DEFINE left == [source[s] EXCEPT !.inbox = Tail(source[s].inbox)]
    <3> HIDE DEF c
    <3>1. source[s] \in Sources
      OBVIOUS
    <3>2. left \in Sources
      BY <2>1, <3>1, SourceTypes
    <3>3. taken = [source EXCEPT ![s] = [left EXCEPT !.count = c]]
      BY <3>1 DEF Sources
    <3> HIDE DEF left, taken
    <3> QED
      BY <2>2, <3>2, <3>3, SourceTypes
  <2>4. \/ source' = taken
        \/ source' = [taken EXCEPT ![data[source[s].elt]] = Closed(@)]
    BY <1>8 DEF OnMessage
  <2>5. source' \in [Slots -> Sources]
    <3> HIDE DEF taken
    <3> QED
      BY <2>3, <2>4, ClosingType
  <2>6. got' \in [Listeners -> Seq(1..MaxMessages)]
    <3> HIDE DEF n
    <3>1. \A k \in Nat : [i \in 1..k |-> n] \in Seq(1..MaxMessages)
      BY <2>1
    <3>2. ASSUME NEW l \in Listeners
          PROVE  got[l] \o [i \in 1..source[s].count[l] |-> n] \in Seq(1..MaxMessages)
      <4>1. /\ [i \in 1..source[s].count[l] |-> n] \in Seq(1..MaxMessages)
            /\ got[l] \in Seq(1..MaxMessages)
        BY <2>1, <3>1
      <4> DEFINE more == [i \in 1..source[s].count[l] |-> n]
      <4> HIDE DEF more
      <4>2. more \in Seq(1..MaxMessages)
        BY <4>1 DEF more
      <4>3. got[l] \o more \in Seq(1..MaxMessages)
        BY <4>1, <4>2
      <4> QED
        BY <4>3 DEF more
    <3>3. \A l \in Listeners : got[l] \in Seq(1..MaxMessages)
      OBVIOUS
    <3> QED
      BY <1>8, <3>2, <3>3 DEF OnMessage, n
  <2> QED
    BY <1>8, <2>5, <2>6 DEF OnMessage
<1>9. ASSUME NEW s \in Slots, OnCloseEvent(s) PROVE TypeOK'
  <2>1. source' \in [Slots -> Sources]
    BY <1>9, SourceTypes DEF OnCloseEvent
  <2>2. missed' \in [Connects -> SUBSET (1..MaxMessages)]
    BY <1>9, LosingType DEF OnCloseEvent
  <2> QED
    BY <1>9, <2>1, <2>2, ElementsAssumption DEF OnCloseEvent
<1>10. ASSUME Publish PROVE TypeOK'
  <2>1. published + 1 \in 1..MaxMessages
    BY <1>10, BoundsAssumption DEF Publish
  <2>2. source' \in [Slots -> Sources]
    <3>1. \A s \in Slots : Append(source[s].inbox, published + 1) \in Seq(1..MaxMessages)
      BY <2>1 DEF Sources
    <3> QED
      BY <1>10, <3>1, SourceTypes DEF Publish
  <2>3. missed' \in [Connects -> SUBSET (1..MaxMessages)]
    BY <1>10, <2>1 DEF Publish
  <2> QED
    BY <1>10, <2>1, <2>2, <2>3 DEF Publish
<1>11. CASE UNCHANGED vars
  BY <1>11 DEF vars
<1> QED
  BY <1>1, <1>2, <1>3, <1>4, <1>5, <1>6, <1>7, <1>8, <1>9, <1>10, <1>11 DEF Next

(* Every variable keeps its type and the delay between attempts its cap.   *)
THEOREM TypeCorrect == Spec => []TypeOK
<1>1. Init => TypeOK
  BY InitType
<1>2. TypeOK /\ [Next]_vars => TypeOK'
  BY NextType
<1> QED
  BY <1>1, <1>2, PTL DEF Spec
-----------------------------------------------------------------------------
(* One connection.                                                         *)

(* No source changes its element, and none opens: the steps that make no   *)
(* source, ask for none and empty no element's data keep Connections.      *)
LEMMA StillConnected ==
    ASSUME TypeOK, Connections, data' = data, processed \subseteq processed',
           \A e \in Elements : timers'[e] = timers[e] \/ timers'[e] = <<>>,
           \A s \in Slots : /\ source'[s].elt = source[s].elt
                            /\ Live(s)' => Live(s)
    PROVE  Connections'
<1>1. OneConnection'
  <2>1. ASSUME NEW e \in Elements PROVE Len(timers'[e]) <= 1
    BY <2>1 DEF Connections, OneConnection
  <2>2. ASSUME NEW e \in Elements, NEW s \in Slots, Live(s)', source'[s].elt = e
        PROVE  data'[e] = s /\ timers'[e] = <<>>
    BY <2>2 DEF Connections, OneConnection
  <2> QED
    BY <2>1, <2>2 DEF OneConnection
<1>2. Owned'
  BY DEF TypeOK, Connections, Owned
<1>3. Placed'
  BY DEF Connections, Placed
<1>4. Unprocessed'
  BY DEF Connections, Unprocessed
<1> QED
  BY <1>1, <1>2, <1>3, <1>4 DEF Connections

(* A source is made for an element that has no connection and keeps no     *)
(* timer: when it is processed, or when its only timer fires.              *)
LEMMA NewlyConnected ==
    ASSUME TypeOK, Connections, NEW e \in Elements, NEW r \in Retries,
           EnsureEventSourceOnElement(e, r),
           \A s \in Slots : Live(s) => source[s].elt # e,
           e \in processed', processed \subseteq processed',
           timers'[e] = <<>>, \A d \in Elements \ {e} : timers'[d] = timers[d]
    PROVE  Connections'
<1>1. CASE /\ e \notin Connects /\ data' = data
           /\ \A s \in Slots : Alike(source'[s], source[s])
  BY <1>1, StillConnected DEF Alike, Live
<1>2. CASE e \in Connects /\ \E t \in FreeSlots :
              /\ data' = [data EXCEPT ![e] = t]
              /\ source'[t].elt = e
              /\ \A s \in Slots \ {t} : Alike(source'[s], source[s])
  <2>1. PICK t \in FreeSlots : /\ data' = [data EXCEPT ![e] = t]
                               /\ source'[t].elt = e
                               /\ \A s \in Slots \ {t} : Alike(source'[s], source[s])
    BY <1>2
  <2>2. /\ t \in Slots /\ ~Live(t) /\ \A d \in Elements : data[d] # t
    BY DEF FreeSlots
  <2>3. /\ data'[e] = t
        /\ \A d \in Elements \ {e} : data'[d] = data[d]
    BY <2>1 DEF TypeOK
  <2>4. \A s \in Slots \ {t} :
           /\ source'[s].elt = source[s].elt
           /\ Live(s)' => Live(s) /\ source'[s].elt # e
    BY <2>1 DEF Alike, Live
  <2>5. OneConnection'
    <3>1. ASSUME NEW d \in Elements PROVE Len(timers'[d]) <= 1
      BY <3>1 DEF Connections, OneConnection
    <3>2. ASSUME NEW d \in Elements, NEW s \in Slots, Live(s)', source'[s].elt = d
          PROVE  data'[d] = s /\ timers'[d] = <<>>
      <4>1. CASE s = t
        BY <2>1, <2>3, <3>2, <4>1
      <4>2. CASE s # t
        <5>1. Live(s) /\ source[s].elt = d /\ d # e
          BY <2>4, <3>2, <4>2 DEF Live
        <5>2. data[d] = s /\ timers[d] = <<>>
          BY <5>1 DEF Connections, OneConnection
        <5> QED
          BY <2>3, <5>1, <5>2
      <4> QED
        BY <4>1, <4>2
    <3> QED
      BY <3>1, <3>2 DEF OneConnection
  <2>6. Owned'
    <3> SUFFICES ASSUME NEW d \in Elements, data'[d] # NoSource
                 PROVE  source'[data'[d]].elt = d
      BY DEF Owned
    <3>1. CASE d = e
      BY <2>1, <2>3, <3>1
    <3>2. CASE d # e
      <4>1. /\ data'[d] = data[d] /\ data[d] # t
            /\ data[d] \in Slots /\ source[data[d]].elt = d
        BY <2>2, <2>3, <3>2 DEF TypeOK, Connections, Owned
      <4>2. source'[data[d]].elt = source[data[d]].elt
        BY <2>4, <4>1
      <4> QED
        BY <4>1, <4>2
    <3> QED
      BY <3>1, <3>2
  <2>7. Placed'
    <3> SUFFICES ASSUME NEW s \in Slots, Live(s)' PROVE source'[s].elt \in Connects
      BY DEF Placed
    <3> QED
      BY <1>2, <2>1, <2>4 DEF Connections, Placed, Live
  <2>8. Unprocessed'
    <3> SUFFICES ASSUME NEW d \in Elements \ processed'
                 PROVE  timers'[d] = <<>> /\ \A s \in Slots : Live(s)' => source'[s].elt # d
      BY DEF Unprocessed
    <3>1. d # e /\ d \notin processed
      OBVIOUS
    <3>2. timers[d] = <<>> /\ \A s \in Slots : Live(s) => source[s].elt # d
      BY <3>1 DEF Connections, Unprocessed
    <3> QED
      BY <2>1, <2>4, <3>1, <3>2 DEF Live
  <2> QED
    BY <2>5, <2>6, <2>7, <2>8 DEF Connections
<1> QED
  BY <1>1, <1>2, EnsureMeans

LEMMA InitConnections == Init => Connections
BY SlotsAssumption
   DEF Init, Connections, OneConnection, Owned, Placed, Unprocessed, Live, Unused, NewSource

(* Every step keeps Connections.                                           *)
LEMMA NextConnections == TypeOK /\ Connections /\ [Next]_vars => Connections'
<1> SUFFICES ASSUME TypeOK, Connections, [Next]_vars PROVE Connections'
  OBVIOUS
<1>0. \A s \in Slots : source[s] \in Sources
  BY DEF TypeOK
<1>1. ASSUME NEW e \in Elements, Insert(e) PROVE Connections'
  BY <1>1, StillConnected DEF Insert, Live
<1>2. ASSUME NEW e \in Elements, ProcessNode(e) PROVE Connections'
  <2>1. 0 \in Retries
    BY SlotsAssumption DEF Retries
  <2>2. timers[e] = <<>> /\ \A s \in Slots : Live(s) => source[s].elt # e
    BY <1>2 DEF ProcessNode, Connections, Unprocessed
  <2> QED
    BY <1>2, <2>1, <2>2, NewlyConnected DEF ProcessNode
<1>3. ASSUME NEW e \in Elements, Reconnect(e) PROVE Connections'
  <2>1. timers[e] \in Seq(Retries) /\ timers[e] # <<>> /\ Len(timers[e]) <= 1
    BY <1>3 DEF Reconnect, TypeOK, Connections, OneConnection
  <2>2. Head(timers[e]) \in Retries /\ Tail(timers[e]) = <<>>
    BY <2>1, HeadTailProperties, EmptySeq
  <2>3. e \in processed /\ \A s \in Slots : Live(s) => source[s].elt # e
    BY <2>1 DEF Connections, OneConnection, Unprocessed
  <2>4. timers'[e] = <<>> /\ \A d \in Elements \ {e} : timers'[d] = timers[d]
    BY <1>3, <2>2 DEF Reconnect, TypeOK
  <2> QED
    BY <1>3, <2>2, <2>3, <2>4, NewlyConnected DEF Reconnect
<1>4. ASSUME NEW e \in Elements, NEW cleaned \in BOOLEAN, RemoveElement(e, cleaned)
      PROVE  Connections'
  <2> DEFINE gone == {d \in SelfAndUnder(e) : InBody(d)}
  <2>1. CASE ~cleaned
    BY <1>4, <2>1, StillConnected DEF RemoveElement, Live
  <2>2. CASE cleaned
    <3>1. /\ source' = [s \in Slots |-> IF \E d \in gone : data[d] = s
                                          THEN Closed(source[s]) ELSE source[s]]
          /\ data' = [d \in Elements |-> IF d \in gone THEN NoSource ELSE data[d]]
          /\ timers' = timers /\ processed' = processed
      BY <1>4, <2>2 DEF RemoveElement
    <3> HIDE DEF gone
    <3>2. ASSUME NEW s \in Slots
          PROVE  /\ source'[s].elt = source[s].elt
                 /\ Live(s)' => Live(s) /\ \A d \in gone : data[d] # s
      BY <1>0, <3>1 DEF Closed, Live, Sources
    <3>3. OneConnection'
      <4>1. ASSUME NEW d \in Elements PROVE Len(timers'[d]) <= 1
        BY <3>1, <4>1 DEF Connections, OneConnection
      <4>2. ASSUME NEW d \in Elements, NEW s \in Slots, Live(s)', source'[s].elt = d
            PROVE  data'[d] = s /\ timers'[d] = <<>>
        BY <3>1, <3>2, <4>2 DEF Connections, OneConnection
      <4> QED
        BY <4>1, <4>2 DEF OneConnection
    <3>4. Owned'
      BY <3>1, <3>2 DEF TypeOK, Connections, Owned
    <3>5. Placed' /\ Unprocessed'
      BY <3>1, <3>2 DEF Connections, Placed, Unprocessed
    <3> QED
      BY <3>3, <3>4, <3>5 DEF Connections
  <2> QED
    BY <2>1, <2>2
<1>5. ASSUME NEW s \in Slots, OnOpen(s) PROVE Connections'
  <2> DEFINE opened == [source EXCEPT ![s].state = "open", ![s].retry = 0]
  <2>1. \/ source' = opened
        \/ source' = RegisterSSE(opened, data,
                         {d \in Under(source[s].elt) : place[d] # "absent"})
    BY <1>5 DEF OnOpen
  <2>2. \A t \in Slots : opened[t].elt = source[t].elt
                        /\ (opened[t].state # "closed" => Live(t))
    BY <1>0, <1>5 DEF OnOpen, Live, Sources, TypeOK
  <2>3. opened \in [Slots -> Sources]
    BY OpenedType
  <2> HIDE DEF opened
  <2>4. \A t \in Slots : source'[t].elt = opened[t].elt /\ source'[t].state = opened[t].state
    BY <2>1, <2>3, RegisterType DEF Alike
  <2> QED
    BY <1>5, <2>2, <2>4, StillConnected DEF OnOpen, Live
<1>6. ASSUME NEW s \in Slots, OnErrorConnecting(s) PROVE Connections'
  <2>1. \A t \in Slots : source'[t].elt = source[t].elt /\ (Live(t)' => Live(t))
    BY <1>0, <1>6 DEF OnErrorConnecting, Live, Sources, TypeOK, Closed
  <2> QED
    BY <1>6, <2>1, StillConnected DEF OnErrorConnecting
<1>7. ASSUME NEW s \in Slots, OnErrorClosed(s) PROVE Connections'
  <2> DEFINE e == source[s].elt
             r == NextRetry(source[s].retry)
  <2>1. e \in Connects /\ e \in Elements /\ Live(s)
    BY <1>7, ElementsAssumption DEF OnErrorClosed, Live, Connections, Placed
  <2>2. /\ e \in processed /\ timers[e] = <<>> /\ data[e] = s
        /\ \A t \in Slots \ {s} : Live(t) => source[t].elt # e
    BY <2>1 DEF Connections, OneConnection, Unprocessed
  <2>3. \A t \in Slots : source'[t].elt = source[t].elt /\ (Live(t)' => Live(t) /\ t # s)
    <3> DEFINE failed == [source EXCEPT ![s] = Closed(@)]
    <3>1. \/ source' = [failed EXCEPT ![data[e]] = Closed(@)]
          \/ source' = [failed EXCEPT ![s].retry = r]
      BY <1>7 DEF OnErrorClosed
    <3>2. failed \in [Slots -> Sources]
      BY ClosingType DEF TypeOK
    <3>3. \A t \in Slots : failed[t].elt = source[t].elt
                          /\ (failed[t].state # "closed" => Live(t) /\ t # s)
      BY <1>0 DEF Live, Sources, TypeOK, Closed
    <3> HIDE DEF failed, e, r
    <3>4. \A t \in Slots : failed[t] \in Sources
      BY <3>2
    <3> QED
      <4>1. CASE source' = [failed EXCEPT ![data[e]] = Closed(@)]
        BY <3>2, <3>3, <3>4, <4>1 DEF Live, Sources, Closed
      <4>2. CASE source' = [failed EXCEPT ![s].retry = r]
        BY <3>2, <3>3, <3>4, <4>2 DEF Live, Sources
      <4> QED
        BY <3>1, <4>1, <4>2
  <2>4. /\ \A d \in Elements \ {e} : timers'[d] = timers[d]
        /\ Len(timers'[e]) <= 1
        /\ data' = data /\ processed' = processed
    <3>1. Len(<<>>) = 0 /\ Len(Append(<<>>, r)) = 1
      OBVIOUS
    <3>2. \/ timers' = timers \/ timers' = [timers EXCEPT ![e] = Append(@, r)]
      BY <1>7 DEF OnErrorClosed
    <3>3. Len(timers'[e]) <= 1
      <4> HIDE DEF e, r
      <4> QED
        <5>1. CASE timers' = timers
          BY <2>2, <3>1, <5>1
        <5>2. CASE timers' = [timers EXCEPT ![e] = Append(@, r)]
          <6>1. timers'[e] = Append(timers[e], r)
            BY <2>1, <5>2 DEF TypeOK
          <6> QED
            BY <2>2, <3>1, <6>1
        <5> QED
          BY <3>2, <5>1, <5>2
    <3> QED
      BY <1>7, <2>1, <3>2, <3>3 DEF OnErrorClosed, TypeOK
  <2> HIDE DEF e, r
  <2>5. OneConnection'
    <3>1. ASSUME NEW d \in Elements PROVE Len(timers'[d]) <= 1
      <4>1. CASE d = e
        BY <2>4, <4>1
      <4>2. CASE d # e
        BY <2>4, <4>2 DEF Connections, OneConnection
      <4> QED
        BY <4>1, <4>2
    <3>2. ASSUME NEW d \in Elements, NEW t \in Slots, Live(t)', source'[t].elt = d
          PROVE  data'[d] = t /\ timers'[d] = <<>>
      <4>1. Live(t) /\ source[t].elt = d /\ t # s /\ d # e
        BY <2>2, <2>3, <3>2
      <4> QED
        BY <2>4, <4>1 DEF Connections, OneConnection
    <3> QED
      BY <3>1, <3>2 DEF OneConnection
  <2>6. Owned'
    BY <2>3, <2>4 DEF TypeOK, Connections, Owned
  <2>7. Placed'
    BY <2>3 DEF Connections, Placed
  <2>8. Unprocessed'
    BY <2>2, <2>3, <2>4 DEF Connections, Unprocessed
  <2> QED
    BY <2>5, <2>6, <2>7, <2>8 DEF Connections
<1>8. ASSUME NEW s \in Slots, OnMessage(s) PROVE Connections'
  <2>1. \A t \in Slots : source'[t].elt = source[t].elt /\ (Live(t)' => Live(t))
    BY <1>0, <1>8 DEF OnMessage, Live, Sources, TypeOK, Closed
  <2> QED
    BY <1>8, <2>1, StillConnected DEF OnMessage
<1>9. ASSUME NEW s \in Slots, OnCloseEvent(s) PROVE Connections'
  <2>1. \A t \in Slots : source'[t].elt = source[t].elt /\ (Live(t)' => Live(t))
    BY <1>0, <1>9 DEF OnCloseEvent, Live, Sources, TypeOK, Closed
  <2> QED
    BY <1>9, <2>1, StillConnected DEF OnCloseEvent
<1>10. ASSUME Publish PROVE Connections'
  <2>1. \A t \in Slots : source'[t].elt = source[t].elt /\ (Live(t)' => Live(t))
    BY <1>0, <1>10 DEF Publish, Live, Sources
  <2> QED
    BY <1>10, <2>1, StillConnected DEF Publish
<1>11. CASE UNCHANGED vars
  BY <1>11, StillConnected DEF vars, Live
<1> QED
  BY <1>1, <1>2, <1>3, <1>4, <1>5, <1>6, <1>7, <1>8, <1>9, <1>10, <1>11 DEF Next

(* An element has at most one connection, the one in its internal data, or *)
(* one timer that will make it, never both: on any page, whatever is       *)
(* inserted, removed and processed, and however its sources fail.          *)
THEOREM NeverTwoConnections == Spec => []OneConnection
<1>1. Init => TypeOK /\ Connections
  BY InitType, InitConnections
<1>2. TypeOK /\ Connections /\ [Next]_vars => (TypeOK /\ Connections)'
  BY NextType, NextConnections
<1>3. Connections => OneConnection
  BY DEF Connections
<1> QED
  BY <1>1, <1>2, <1>3, PTL DEF Spec

-----------------------------------------------------------------------------
(* A source whose element is gone ends with its first event.               *)

(* Such a source is the one in its element's data, so the event closes it. *)
LEMMA OrphanIsFound ==
    ASSUME TypeOK, Connections, NEW s \in Slots, Live(s), ~InBody(source[s].elt)
    PROVE  /\ source[s].elt \in Elements /\ data[source[s].elt] = s
           /\ MaybeCloses(source[s].elt)
<1>1. source[s].elt \in Elements
  BY ElementsAssumption DEF Connections, Placed
<1>2. data[source[s].elt] = s
  BY <1>1 DEF Connections, OneConnection
<1> QED
  BY <1>1, <1>2, SlotsAssumption DEF MaybeCloses

(* A step that leaves a source's messages and the faults alone is no event *)
(* of that source.                                                         *)
LEMMA NoEvent ==
    ASSUME TypeOK, NEW s \in Slots, source'[s].inbox = source[s].inbox, faults' = faults
    PROVE  OrphanEnds(s)
<1>1. source[s].inbox \in Seq(1..MaxMessages) /\ faults \in Nat
  BY BoundsAssumption DEF TypeOK, Sources
<1> QED
  BY <1>1 DEF OrphanEnds

(* Nor is a step in which the source does not change.                      *)
LEMMA NotItsEvent ==
    ASSUME TypeOK, NEW s \in Slots, source'[s] = source[s]
    PROVE  OrphanEnds(s)
<1>1. source[s].inbox \in Seq(1..MaxMessages)
  BY DEF TypeOK, Sources
<1> QED
  BY <1>1 DEF OrphanEnds

LEMMA StepEndsOrphan ==
    ASSUME TypeOK, Connections, Next, NEW s \in Slots
    PROVE  OrphanEnds(s)
<1>0. source \in [Slots -> Sources] /\ source[s] \in Sources
  BY DEF TypeOK
<1> SUFFICES ASSUME Live(s), ~InBody(source[s].elt) PROVE OrphanEnds(s)
  BY DEF OrphanEnds
<1> DEFINE me == source[s].elt
<1>a. me \in Elements /\ data[me] = s /\ MaybeCloses(me)
  BY OrphanIsFound
<1>b. ASSUME NEW t \in Slots, Live(t), t # s PROVE data[source[t].elt] # s
  BY <1>b, ElementsAssumption DEF Connections, OneConnection, Placed
<1>1. ASSUME NEW e \in Elements, Insert(e) PROVE OrphanEnds(s)
  BY <1>1, NotItsEvent DEF Insert
<1>2. ASSUME NEW e \in Elements, NEW r \in Retries, EnsureEventSourceOnElement(e, r),
             faults' = faults
      PROVE  OrphanEnds(s)
  <2>1. Alike(source'[s], source[s])
    BY <1>2, EnsureMeans DEF FreeSlots
  <2> QED
    BY <1>2, <2>1, NoEvent DEF Alike
<1>3. ASSUME NEW e \in Elements, ProcessNode(e) PROVE OrphanEnds(s)
  <2>1. 0 \in Retries
    BY SlotsAssumption DEF Retries
  <2> QED
    BY <1>2, <1>3, <2>1 DEF ProcessNode
<1>4. ASSUME NEW e \in Elements, Reconnect(e) PROVE OrphanEnds(s)
  <2>1. timers[e] \in Seq(Retries) /\ timers[e] # <<>>
    BY <1>4 DEF Reconnect, TypeOK
  <2>2. Head(timers[e]) \in Retries
    BY <2>1, HeadTailProperties
  <2> QED
    BY <1>2, <1>4, <2>2 DEF Reconnect
<1>5. ASSUME NEW e \in Elements, NEW cleaned \in BOOLEAN, RemoveElement(e, cleaned)
      PROVE  OrphanEnds(s)
  <2>1. \A d \in Elements : InBody(d) => data[d] # s
    BY SlotsAssumption DEF Connections, Owned
  <2>2. \A d \in SelfAndUnder(e) : d \in Elements
    BY DEF SelfAndUnder, Under
  <2>3. source'[s] = source[s]
    BY <1>5, <2>1, <2>2 DEF RemoveElement
  <2> QED
    BY <2>3, NotItsEvent
<1>6. ASSUME NEW t \in Slots, OnOpen(t) PROVE OrphanEnds(s)
  <2> DEFINE opened == [source EXCEPT ![t].state = "open", ![t].retry = 0]
  <2>1. \/ source' = opened
        \/ source' = RegisterSSE(opened, data,
                         {d \in Under(source[t].elt) : place[d] # "absent"})
    BY <1>6 DEF OnOpen
  <2>2. opened \in [Slots -> Sources]
    BY OpenedType
  <2>3. opened[s].inbox = source[s].inbox
    BY <1>0 DEF Sources
  <2> HIDE DEF opened
  <2>4. source'[s].inbox = opened[s].inbox
    BY <2>1, <2>2, RegisterType DEF Alike
  <2> QED
    BY <1>6, <2>3, <2>4, NoEvent DEF OnOpen
<1>7. ASSUME NEW t \in Slots, OnErrorConnecting(t) PROVE OrphanEnds(s)
  <2>1. CASE t = s
    <3>1. source'[s].state = "closed" /\ timers' = timers /\ got' = got
      BY <1>0, <1>7, <1>a, <2>1 DEF OnErrorConnecting, Closed, Sources
    <3> QED
      BY <3>1 DEF OrphanEnds
  <2>2. CASE t # s
    <3>1. data[source[t].elt] # s
      BY <1>7, <1>b, <2>2 DEF OnErrorConnecting
    <3>2. source'[s] = source[s]
      BY <1>0, <1>7, <2>2, <3>1 DEF OnErrorConnecting
    <3> QED
      BY <3>2, NotItsEvent
  <2> QED
    BY <2>1, <2>2
<1>8. ASSUME NEW t \in Slots, OnErrorClosed(t) PROVE OrphanEnds(s)
  <2>1. CASE t = s
    <3>1. source'[s].state = "closed" /\ timers' = timers /\ got' = got
      <4> DEFINE failed == [source EXCEPT ![s] = Closed(@)]
      <4>1. source' = [failed EXCEPT ![s] = Closed(@)] /\ timers' = timers /\ got' = got
        BY <1>8, <1>a, <2>1 DEF OnErrorClosed
      <4>2. failed \in [Slots -> Sources]
        BY <1>0, ClosingType
      <4> HIDE DEF failed
      <4> QED
        BY <4>1, <4>2 DEF Closed, Sources
    <3> QED
      BY <3>1 DEF OrphanEnds
  <2>2. CASE t # s
    <3>1. Live(t)
      BY <1>8 DEF OnErrorClosed, Live
    <3>2. data[source[t].elt] # s
      BY <1>b, <2>2, <3>1
    <3>3. source'[s] = source[s]
      BY <1>0, <1>8, <2>2, <3>2 DEF OnErrorClosed
    <3> QED
      BY <3>3, NotItsEvent
  <2> QED
    BY <2>1, <2>2
<1>9. ASSUME NEW t \in Slots, OnMessage(t) PROVE OrphanEnds(s)
  <2>1. CASE t = s
    <3>0. faults' = faults /\ faults \in Nat
      BY <1>9, BoundsAssumption DEF OnMessage, TypeOK
    <3> SUFFICES ASSUME \E l \in Listeners : source[s].count[l] > 0
                 PROVE  source'[s].state = "closed" /\ timers' = timers /\ got' = got
      BY <3>0 DEF OrphanEnds
    <3>1. source'[s].state = "closed"
      BY <1>0, <1>9, <1>a, <2>1 DEF OnMessage, Closed, Sources
    <3>2. got' = got
      BY <1>9, <1>a, <2>1 DEF OnMessage, TypeOK
    <3> QED
      BY <1>9, <3>1, <3>2 DEF OnMessage
  <2>2. CASE t # s
    <3>1. Live(t)
      BY <1>9 DEF OnMessage, Live
    <3>2. data[source[t].elt] # s
      BY <1>b, <2>2, <3>1
    <3>3. source'[s] = source[s]
      BY <1>0, <1>9, <2>2, <3>2 DEF OnMessage
    <3> QED
      BY <3>3, NotItsEvent
  <2> QED
    BY <2>1, <2>2
<1>10. ASSUME NEW t \in Slots, OnCloseEvent(t) PROVE OrphanEnds(s)
  <2>1. CASE t = s
    BY <1>0, <1>10, <2>1 DEF OnCloseEvent, Closed, Sources, OrphanEnds
  <2>2. CASE t # s
    BY <1>0, <1>10, <2>2, NotItsEvent DEF OnCloseEvent
  <2> QED
    BY <2>1, <2>2
<1>11. ASSUME Publish PROVE OrphanEnds(s)
  <2>1. source[s].inbox \in Seq(1..MaxMessages) /\ published + 1 \in 1..MaxMessages
    BY <1>0, <1>11, BoundsAssumption DEF Publish, TypeOK, Sources
  <2>2. \/ source'[s] = source[s]
        \/ source'[s].inbox = Append(source[s].inbox, published + 1)
    BY <1>0, <1>11 DEF Publish, Sources
  <2>3. Len(Append(source[s].inbox, published + 1)) = Len(source[s].inbox) + 1
    BY <2>1, AppendProperties
  <2>4. Len(source[s].inbox) \in Nat /\ faults' = faults /\ faults \in Nat
    BY <1>11, <2>1, BoundsAssumption DEF Publish, TypeOK
  <2> QED
    BY <2>2, <2>3, <2>4 DEF OrphanEnds
<1> QED
  BY <1>1, <1>3, <1>4, <1>5, <1>6, <1>7, <1>8, <1>9, <1>10, <1>11 DEF Next

(* The first error, or message for some listener, of a source whose        *)
(* element has left the body closes it, without anything swapped in and    *)
(* without a timer for another source.                                     *)
THEOREM OrphansEnd == Spec => FirstEventEndsOrphan
<1>1. Init => TypeOK /\ Connections
  BY InitType, InitConnections
<1>2. TypeOK /\ Connections /\ [Next]_vars => (TypeOK /\ Connections)'
  BY NextType, NextConnections
<1>3. TypeOK /\ Connections /\ [Next]_vars => [\A s \in Slots : OrphanEnds(s)]_vars
  BY StepEndsOrphan
<1> QED
  BY <1>1, <1>2, <1>3, PTL DEF Spec, FirstEventEndsOrphan
-----------------------------------------------------------------------------
(* Who listens.                                                            *)

(* Elements enter the page under their parents and are processed after     *)
(* them; only those with sse-connect have a source or a timer, and a       *)
(* timer's retryCount is never 0.                                          *)
PageOK ==
    /\ \A e \in Elements : Parent[e] \in Elements /\ InBody(e) => InBody(Parent[e])
    /\ \A e \in processed : place[e] # "absent"
    /\ \A e \in processed : Parent[e] \in Elements => Parent[e] \in processed
    /\ \A e \in Elements : data[e] # NoSource => e \in Connects
    /\ \A e \in Elements : timers[e] # <<>> => e \in Connects /\ Head(timers[e]) > 0

(* How often a listener is registered on a source: once if it is the       *)
(* source's own element's, never if its element is not below that one.     *)
(* Below it, on the first source once from when it is processed; on one    *)
(* that replaces a failed source not before onopen, unless it joined, and  *)
(* after onopen once more than that.                                       *)
CountOK(src, l) ==
    LET n == src.count[l]
        e == l[1]
    IN /\ e = src.elt => n = 1
       /\ e # src.elt /\ Parent[e] # src.elt => n = 0
       /\ Parent[e] = src.elt /\ ~src.again => n = IF e \in processed THEN 1 ELSE 0
       /\ Parent[e] = src.elt /\ src.again /\ src.retry > 0 =>
             n = IF e \in src.joined THEN 1 ELSE 0
       /\ Parent[e] = src.elt /\ src.again /\ src.retry = 0 =>
             /\ e \notin processed => n \in 0..1
             /\ e \in processed /\ e \in src.joined => n \in 1..2
             /\ e \in processed /\ e \notin src.joined => n = 1

(* A retryCount above 0 is that of a source not open yet.                  *)
Listens(s) ==
    /\ source[s].retry > 0 => source[s].again /\ source[s].state = "connecting"
    /\ source[s].joined \subseteq processed
    /\ \A l \in Listeners : place[l[1]] # "detached" => CountOK(source[s], l)

ListenOK == \A s \in Slots : Live(s) => Listens(s)

(* What ListenOK looks at besides a source's state.                        *)
Same(p, q) == /\ p.elt = q.elt /\ p.retry = q.retry /\ p.again = q.again
              /\ p.joined = q.joined /\ p.count = q.count

(* registerSSE adds one to the listeners that belong to the source.        *)
Registers(new, old, dat, D, s) ==
    /\ Alike(new, old)
    /\ new.retry = old.retry /\ new.again = old.again /\ new.joined = old.joined
    /\ new.count = [l \in Listeners |->
                      IF l[1] \in D /\ ClosestSource(dat, l[1]) = s
                        THEN old.count[l] + 1 ELSE old.count[l]]

LEMMA RegisterCounts ==
    ASSUME NEW src \in [Slots -> Sources], NEW dat, NEW D
    PROVE  \A s \in Slots : Registers(RegisterSSE(src, dat, D)[s], src[s], dat, D, s)
<1> SUFFICES ASSUME NEW s \in Slots
             PROVE  Registers(RegisterSSE(src, dat, D)[s], src[s], dat, D, s)
  OBVIOUS
<1> DEFINE c == [l \in Listeners |->
                    IF l[1] \in D /\ ClosestSource(dat, l[1]) = s
                      THEN src[s].count[l] + 1 ELSE src[s].count[l]]
<1>1. RegisterSSE(src, dat, D)[s] = [src[s] EXCEPT !.count = c]
  BY DEF RegisterSSE
<1> HIDE DEF c
<1>2. src[s] \in Sources
  OBVIOUS
<1>3. LET new == RegisterSSE(src, dat, D)[s]
      IN /\ Alike(new, src[s])
         /\ new.retry = src[s].retry /\ new.again = src[s].again
         /\ new.joined = src[s].joined
         /\ new.count = c
  BY <1>1, <1>2 DEF Sources, Alike
<1> QED
  BY <1>3 DEF c, Registers

(* A listener's element is one of the page's.                              *)
LEMMA ListenerElement == \A l \in Listeners : l[1] \in Elements
BY ElementsAssumption DEF Listeners

(* The new source of an element with sse-connect hears with that element's *)
(* own listeners only.                                                     *)
LEMMA ConnectCounts ==
    ASSUME TypeOK, NEW e \in Connects, NEW r \in Retries, EnsureEventSourceOnElement(e, r)
    PROVE  \E t \in FreeSlots :
              /\ data' = [data EXCEPT ![e] = t]
              /\ source'[t].elt = e /\ source'[t].state = "connecting"
              /\ source'[t].retry = r /\ source'[t].inbox = <<>>
              /\ source'[t].again = (r > 0) /\ source'[t].joined = {}
              /\ \A l \in Listeners : source'[t].count[l] = IF l[1] = e THEN 1 ELSE 0
              /\ \A s \in Slots \ {t} : Same(source'[s], source[s]) /\ Alike(source'[s], source[s])
<1>1. e \in Elements
  BY ElementsAssumption
<1>2. PICK t \in FreeSlots : /\ data' = [data EXCEPT ![e] = t]
                             /\ source' = RegisterSSE([source EXCEPT ![t] = NewSource(e, r)],
                                                      data', {e})
  BY DEF EnsureEventSourceOnElement
<1>3. t \in Slots /\ t # NoSource
  BY SlotsAssumption DEF FreeSlots
<1> DEFINE made == [source EXCEPT ![t] = NewSource(e, r)]
<1>4. made \in [Slots -> Sources] /\ made[t] = NewSource(e, r)
      /\ \A s \in Slots \ {t} : made[s] = source[s]
  BY <1>1, <1>3, NewSourceType DEF TypeOK
<1>0. PICK dat : dat = data'
  OBVIOUS
<1>5. source' = RegisterSSE(made, dat, {e})
  BY <1>0, <1>2
<1> HIDE DEF made
<1>6. ClosestSource(dat, e) = t
  BY <1>0, <1>1, <1>2, <1>3 DEF ClosestSource, TypeOK
<1>7. Registers(source'[t], made[t], dat, {e}, t)
  BY <1>3, <1>4, <1>5, RegisterCounts
<1>8. /\ made[t].elt = e /\ made[t].state = "connecting" /\ made[t].retry = r
      /\ made[t].inbox = <<>> /\ made[t].again = (r > 0) /\ made[t].joined = {}
      /\ \A l \in Listeners : made[t].count[l] = 0
  BY <1>4 DEF NewSource
<1>9. \A l \in Listeners : source'[t].count[l] = IF l[1] = e THEN 1 ELSE 0
  BY <1>6, <1>7, <1>8 DEF Registers
<1>10. ASSUME NEW s \in Slots \ {t}
       PROVE  Same(source'[s], source[s]) /\ Alike(source'[s], source[s])
  <2>1. Registers(source'[s], source[s], dat, {e}, s)
    BY <1>4, <1>5, RegisterCounts
  <2>2. source[s].count \in [Listeners -> Nat]
    BY DEF TypeOK, Sources
  <2>3. source'[s].count = source[s].count
    BY <1>6, <2>1, <2>2 DEF Registers
  <2> QED
    BY <2>1, <2>3 DEF Same, Alike, Registers
<1>11. /\ source'[t].elt = e /\ source'[t].state = "connecting"
       /\ source'[t].retry = r /\ source'[t].inbox = <<>>
       /\ source'[t].again = (r > 0) /\ source'[t].joined = {}
  BY <1>7, <1>8 DEF Alike, Registers
<1> QED
  BY <1>2, <1>9, <1>10, <1>11

(* Any other element joins the source of the closest element that has one. *)
LEMMA JoinCounts ==
    ASSUME TypeOK, NEW e \in Elements \ Connects, NEW r, EnsureEventSourceOnElement(e, r)
    PROVE  /\ data' = data
           /\ \A s \in Slots :
                 /\ Alike(source'[s], source[s])
                 /\ source'[s].retry = source[s].retry /\ source'[s].again = source[s].again
                 /\ ClosestSource(data, e) # s => Same(source'[s], source[s])
                 /\ ClosestSource(data, e) = s =>
                       /\ source'[s].joined = source[s].joined \cup {e}
                       /\ \A l \in Listeners :
                             source'[s].count[l] = IF l[1] = e THEN source[s].count[l] + 1
                                                               ELSE source[s].count[l]
<1> DEFINE t == ClosestSource(data, e)
<1> DEFINE joining == IF t = NoSource THEN source
                                      ELSE [source EXCEPT ![t].joined = @ \cup {e}]
<1>1. source' = RegisterSSE(joining, data, {e}) /\ data' = data
  BY DEF EnsureEventSourceOnElement
<1>2. t \in Slots \cup {NoSource}
  BY ElementsAssumption DEF ClosestSource, TypeOK
<1>3. source \in [Slots -> Sources]
  BY DEF TypeOK
<1> HIDE DEF t
<1>4. \A s \in Slots : joining[s] = IF s = t THEN [source[s] EXCEPT !.joined = @ \cup {e}]
                                             ELSE source[s]
  BY <1>2, <1>3, SlotsAssumption
<1>5. \A s \in Slots : [source[s] EXCEPT !.joined = @ \cup {e}] \in Sources
  BY <1>3 DEF Sources
<1>6. joining \in [Slots -> Sources]
  BY <1>2, <1>3, <1>5
<1> HIDE DEF joining
<1> SUFFICES ASSUME NEW s \in Slots
             PROVE  /\ Alike(source'[s], source[s])
                    /\ source'[s].retry = source[s].retry /\ source'[s].again = source[s].again
                    /\ t # s => Same(source'[s], source[s])
                    /\ t = s =>
                          /\ source'[s].joined = source[s].joined \cup {e}
                          /\ \A l \in Listeners :
                                source'[s].count[l] = IF l[1] = e THEN source[s].count[l] + 1
                                                                  ELSE source[s].count[l]
  BY <1>1 DEF t
<1>7. Registers(source'[s], joining[s], data, {e}, s)
  BY <1>1, <1>6, RegisterCounts
<1>8. source[s] \in Sources /\ source[s].count \in [Listeners -> Nat]
  BY <1>3 DEF Sources
<1>9. /\ Alike(joining[s], source[s]) /\ joining[s].count = source[s].count
      /\ joining[s].retry = source[s].retry /\ joining[s].again = source[s].again
      /\ joining[s].joined = IF s = t THEN source[s].joined \cup {e} ELSE source[s].joined
  BY <1>4, <1>8 DEF Sources, Alike
<1>10. source'[s].count = [l \in Listeners |-> IF l[1] = e /\ t = s
                              THEN source[s].count[l] + 1 ELSE source[s].count[l]]
  BY <1>7, <1>9 DEF t, Registers
<1>11. t # s => source'[s].count = source[s].count
  BY <1>8, <1>10
<1> QED
  BY <1>7, <1>9, <1>10, <1>11 DEF Alike, Same, Registers

(* The page's tree, and who may have a source or a timer.                  *)
LEMMA InitPage == Init => PageOK
BY DEF Init, PageOK, InBody

LEMMA NextPage == TypeOK /\ Connections /\ PageOK /\ [Next]_vars => PageOK'
<1> SUFFICES ASSUME TypeOK, Connections, PageOK, [Next]_vars PROVE PageOK'
  OBVIOUS
(* Where an element is concerns the body and the processed only.           *)
<1>a. ASSUME \A e \in Elements : Parent[e] \in Elements /\ InBody(e)' => InBody(Parent[e])',
             \A e \in Elements : place[e] # "absent" => place'[e] # "absent",
             processed' = processed, data' = data, timers' = timers
      PROVE  PageOK'
  BY <1>a DEF PageOK, TypeOK
(* Sources and timers come with sse-connect.                               *)
<1>b. ASSUME place' = place, processed' = processed,
             \A e \in Elements : data'[e] # NoSource => e \in Connects,
             \A e \in Elements : timers'[e] # <<>> => e \in Connects /\ Head(timers'[e]) > 0
      PROVE  PageOK'
  BY <1>b DEF PageOK, InBody
<1>c. ASSUME NEW e \in Elements, NEW r \in Retries, EnsureEventSourceOnElement(e, r)
      PROVE  \A d \in Elements : data'[d] # NoSource => d \in Connects
  <2>1. CASE e \in Connects
    <3>1. PICK t \in FreeSlots : data' = [data EXCEPT ![e] = t]
      BY <1>c, <2>1, ConnectCounts
    <3> QED
      BY <2>1, <3>1 DEF PageOK, TypeOK
  <2>2. CASE e \notin Connects
    BY <1>c, <2>2, JoinCounts DEF PageOK
  <2> QED
    BY <2>1, <2>2
<1>1. ASSUME NEW e \in Elements, Insert(e) PROVE PageOK'
  <2>1. \A d \in Elements : Parent[d] \in Elements /\ InBody(d)' => InBody(Parent[d])'
    BY <1>1, ElementsAssumption DEF Insert, InBody, PageOK, TypeOK
  <2> QED
    BY <1>1, <1>a, <2>1 DEF Insert, TypeOK
<1>2. ASSUME NEW e \in Elements, ProcessNode(e) PROVE PageOK'
  <2>1. 0 \in Retries
    BY SlotsAssumption DEF Retries
  <2>2. \A d \in Elements : data'[d] # NoSource => d \in Connects
    BY <1>2, <1>c, <2>1 DEF ProcessNode
  <2> QED
    BY <1>2, <2>2, ElementsAssumption DEF ProcessNode, PageOK, InBody
<1>3. ASSUME NEW e \in Elements, Reconnect(e) PROVE PageOK'
  <2>1. timers[e] \in Seq(Retries) /\ timers[e] # <<>> /\ Len(timers[e]) <= 1
    BY <1>3 DEF Reconnect, TypeOK, Connections, OneConnection
  <2>2. Head(timers[e]) \in Retries /\ Tail(timers[e]) = <<>>
    BY <2>1, HeadTailProperties, EmptySeq
  <2>3. \A d \in Elements : data'[d] # NoSource => d \in Connects
    BY <1>3, <1>c, <2>2 DEF Reconnect
  <2>4. timers'[e] = <<>> /\ \A d \in Elements \ {e} : timers'[d] = timers[d]
    BY <1>3, <2>2 DEF Reconnect, TypeOK
  <2>5. \A d \in Elements : timers'[d] # <<>> => d \in Connects /\ Head(timers'[d]) > 0
    BY <2>4 DEF PageOK
  <2> QED
    BY <1>3, <1>b, <2>3, <2>5 DEF Reconnect
<1>4. ASSUME NEW e \in Elements, NEW cleaned \in BOOLEAN, RemoveElement(e, cleaned)
      PROVE  PageOK'
  <2> DEFINE gone == {d \in SelfAndUnder(e) : InBody(d)}
  <2>1. /\ place' = [d \in Elements |-> IF d \in gone THEN "detached" ELSE place[d]]
        /\ timers' = timers /\ processed' = processed
        /\ \A d \in Elements : data'[d] # NoSource => data[d] # NoSource
    BY <1>4 DEF RemoveElement, TypeOK
  <2>2. ASSUME NEW d \in Elements, Parent[d] \in Elements, InBody(d)'
        PROVE  InBody(Parent[d])'
    <3>1. d \notin gone /\ InBody(d)
      BY <2>1, <2>2 DEF InBody
    <3>2. InBody(Parent[d]) /\ d # e /\ Parent[d] # e
      BY <2>2, <3>1 DEF PageOK, SelfAndUnder, Under
    <3>3. Parent[Parent[d]] # e
      BY <1>4, <2>2, ElementsAssumption
    <3>4. Parent[d] \notin gone
      BY <3>2, <3>3 DEF SelfAndUnder, Under
    <3> QED
      BY <2>1, <2>2, <3>2, <3>4 DEF InBody
  <2>3. \A d \in Elements : place[d] # "absent" => place'[d] # "absent"
    BY <2>1
  <2> QED
    BY <2>1, <2>2, <2>3 DEF PageOK, TypeOK
<1>5. ASSUME NEW s \in Slots, OnErrorClosed(s) PROVE PageOK'
  <2> DEFINE e == source[s].elt
             r == NextRetry(source[s].retry)
  <2>1. Live(s) /\ e \in Connects /\ e \in Elements
    BY <1>5, ElementsAssumption DEF OnErrorClosed, Live, Connections, Placed
  <2>2. timers[e] = <<>>
    BY <2>1 DEF Connections, OneConnection
  <2>3. r \in Retries /\ r > 0
    BY SlotsAssumption DEF TypeOK, Sources, Retries, NextRetry
  <2>4. \/ timers' = timers \/ timers' = [timers EXCEPT ![e] = Append(@, r)]
    BY <1>5 DEF OnErrorClosed
  <2>5. place' = place /\ processed' = processed /\ data' = data
    BY <1>5 DEF OnErrorClosed
  <2> HIDE DEF e, r
  <2>6. Head(Append(<<>>, r)) = r
    OBVIOUS
  <2>7. \A d \in Elements : timers'[d] # <<>> => d \in Connects /\ Head(timers'[d]) > 0
    <3>1. CASE timers' = timers
      BY <3>1 DEF PageOK
    <3>2. CASE timers' = [timers EXCEPT ![e] = Append(@, r)]
      <4>1. timers'[e] = Append(<<>>, r) /\ \A d \in Elements \ {e} : timers'[d] = timers[d]
        BY <2>1, <2>2, <3>2 DEF TypeOK
      <4> QED
        BY <2>1, <2>3, <2>6, <4>1 DEF PageOK
    <3> QED
      BY <2>4, <3>1, <3>2
  <2>8. \A d \in Elements : data'[d] # NoSource => d \in Connects
    BY <2>5 DEF PageOK
  <2> QED
    BY <1>b, <2>5, <2>7, <2>8
<1>6. ASSUME UNCHANGED <<place, processed, data, timers>> PROVE PageOK'
  BY <1>6 DEF PageOK, InBody
<1>7. ASSUME NEW s \in Slots,
             OnOpen(s) \/ OnErrorConnecting(s) \/ OnMessage(s) \/ OnCloseEvent(s)
      PROVE  PageOK'
  BY <1>6, <1>7 DEF OnOpen, OnErrorConnecting, OnMessage, OnCloseEvent
<1>8. CASE Publish \/ UNCHANGED vars
  BY <1>6, <1>8 DEF Publish, vars
<1> QED
  BY <1>1, <1>2, <1>3, <1>4, <1>5, <1>7, <1>8 DEF Next

-----------------------------------------------------------------------------
(* A source whose listeners do not change goes on being listened to, if no *)
(* more elements are processed and none becomes one that counts.           *)
LEMMA StillListens ==
    ASSUME ListenOK, NEW s \in Slots, Live(s), Same(source'[s], source[s]),
           \/ source'[s].state = source[s].state \/ source'[s].state = "connecting"
           \/ source[s].retry = 0,
           source[s].retry \in Nat,
           processed' = processed,
           \A e \in Elements : place'[e] # "detached" => place[e] # "detached"
    PROVE  Listens(s)'
<1>1. Listens(s)
  BY DEF ListenOK
<1>2. source'[s].retry > 0 => source'[s].again /\ source'[s].state = "connecting"
  BY <1>1 DEF Listens, Same
<1>3. source'[s].joined \subseteq processed'
  BY <1>1 DEF Listens, Same
<1>4. ASSUME NEW l \in Listeners, place'[l[1]] # "detached" PROVE CountOK(source[s], l)
  BY <1>1, <1>4, ListenerElement DEF Listens
<1>5. ASSUME NEW l \in Listeners, CountOK(source[s], l) PROVE CountOK(source[s], l)'
  <2> DEFINE p == source[s]
  <2>1. PICK q : q = source'[s]
    OBVIOUS
  <2>2. q.count = p.count /\ q.elt = p.elt /\ q.again = p.again /\ q.retry = p.retry
        /\ q.joined = p.joined
    BY <2>1 DEF Same
  <2> QED
    BY <1>5, <2>1, <2>2 DEF CountOK
<1> QED
  BY <1>2, <1>3, <1>4, <1>5 DEF Listens

(* A new source, of an element with sse-connect: processed just now, with  *)
(* nothing processed below it, or before, with a source that replaces one. *)
LEMMA ConnectListens ==
    ASSUME TypeOK, Connections, PageOK, ListenOK, NEW e \in Connects, NEW r \in Retries,
           EnsureEventSourceOnElement(e, r), place' = place,
           processed' = processed \cup {e},
           r > 0 \/ e \notin processed
    PROVE  ListenOK'
<1>1. PICK t \in FreeSlots :
              /\ source'[t].elt = e /\ source'[t].state = "connecting"
              /\ source'[t].retry = r
              /\ source'[t].again = (r > 0) /\ source'[t].joined = {}
              /\ \A l \in Listeners : source'[t].count[l] = IF l[1] = e THEN 1 ELSE 0
              /\ \A s \in Slots \ {t} : Same(source'[s], source[s]) /\ Alike(source'[s], source[s])
  BY ConnectCounts
<1>2. r \in Nat /\ e \in Elements
  BY ElementsAssumption, SlotsAssumption DEF Retries
<1>3. Listens(t)'
  <2>1. source'[t].retry > 0 => source'[t].again /\ source'[t].state = "connecting"
    BY <1>1
  <2>2. source'[t].joined \subseteq processed'
    BY <1>1
  <2>3. ASSUME NEW l \in Listeners PROVE CountOK(source[t], l)'
    <3>0. l[1] \in Elements
      BY ListenerElement
    <3>1. Parent[l[1]] = e /\ r = 0 => l[1] \notin processed'
      BY <1>2, <3>0, ElementsAssumption DEF PageOK
    <3>2. Parent[l[1]] = e => l[1] # e
      BY <3>0, ElementsAssumption
    <3> DEFINE q == source'[t]
    <3>3. /\ q.elt = e /\ q.retry = r /\ (q.again <=> r > 0) /\ q.joined = {}
          /\ q.count[l] = IF l[1] = e THEN 1 ELSE 0
      BY <1>1
    <3>4. PICK p : p = q
      OBVIOUS
    <3> QED
      BY <1>2, <3>1, <3>2, <3>3, <3>4 DEF CountOK
  <2> QED
    BY <2>1, <2>2, <2>3 DEF Listens
<1>4. ASSUME NEW s \in Slots \ {t}, Live(s)' PROVE Listens(s)'
  <2>1. Same(source'[s], source[s]) /\ Alike(source'[s], source[s])
    BY <1>1
  <2>2. Live(s)
    BY <1>4, <2>1 DEF Live, Alike
  <2>3. Listens(s)
    BY <2>2 DEF ListenOK
  <2>4. source[s].elt \in Connects /\ source[s].elt \in Elements
    BY <2>2, ElementsAssumption DEF Connections, Placed
  <2>5. \A l \in Listeners : Parent[l[1]] = source[s].elt => l[1] # e
    BY <2>4, NestingAssumption
  <2>6. source'[s].retry > 0 => source'[s].again /\ source'[s].state = "connecting"
    BY <2>1, <2>3 DEF Listens, Same, Alike
  <2>7. source'[s].joined \subseteq processed'
    BY <2>1, <2>3 DEF Listens, Same
  <2>8. ASSUME NEW l \in Listeners, place'[l[1]] # "detached" PROVE CountOK(source[s], l)'
    <3>1. CountOK(source[s], l)
      BY <2>3, <2>8 DEF Listens
    <3>2. PICK p : p = source[s]
      OBVIOUS
    <3>3. PICK q : q = source'[s]
      OBVIOUS
    <3>4. q.count = p.count /\ q.elt = p.elt /\ q.again = p.again /\ q.retry = p.retry
          /\ q.joined = p.joined
      BY <2>1, <3>2, <3>3 DEF Same
    <3>5. Parent[l[1]] = p.elt => (l[1] \in processed' <=> l[1] \in processed)
      BY <2>5, <3>2
    <3> QED
      BY <3>1, <3>2, <3>3, <3>4, <3>5 DEF CountOK
  <2> QED
    BY <2>6, <2>7, <2>8 DEF Listens
<1> QED
  BY <1>3, <1>4 DEF ListenOK

(* An element without sse-connect, processed: it joins the source of the   *)
(* element above it, if that has one.                                      *)
LEMMA JoinListens ==
    ASSUME TypeOK, Connections, PageOK, ListenOK, NEW e \in Elements \ Connects,
           EnsureEventSourceOnElement(e, 0), place' = place,
           e \notin processed, processed' = processed \cup {e}
    PROVE  ListenOK'
<1> SUFFICES ASSUME NEW s \in Slots, Live(s)' PROVE Listens(s)'
  BY DEF ListenOK
<1> DEFINE t == ClosestSource(data, e)
<1>1. /\ Alike(source'[s], source[s])
      /\ source'[s].retry = source[s].retry /\ source'[s].again = source[s].again
      /\ t # s => Same(source'[s], source[s])
      /\ t = s =>
            /\ source'[s].joined = source[s].joined \cup {e}
            /\ \A l \in Listeners :
                  source'[s].count[l] = IF l[1] = e THEN source[s].count[l] + 1
                                                    ELSE source[s].count[l]
  BY JoinCounts
<1>2. Live(s)
  BY <1>1 DEF Alike, Live
<1>3. Listens(s)
  BY <1>2 DEF ListenOK
<1>4. source[s].elt \in Connects /\ source[s].elt \in Elements /\ data[source[s].elt] = s
  BY <1>2, ElementsAssumption DEF Connections, Placed, OneConnection
<1>5. e # source[s].elt /\ data[e] = NoSource
  BY <1>4 DEF PageOK
<1>6. t = s => Parent[e] = source[s].elt
  <2>1. ASSUME t = s PROVE Parent[e] \in Elements /\ data[Parent[e]] = s
    BY <1>5, <2>1, ElementsAssumption, SlotsAssumption DEF ClosestSource
  <2> QED
    BY <2>1, SlotsAssumption DEF Connections, Owned
<1>7. Parent[e] = source[s].elt => t = s
  BY <1>4, <1>5, ElementsAssumption, SlotsAssumption DEF ClosestSource
<1> HIDE DEF t
<1>8. source'[s].retry > 0 => source'[s].again /\ source'[s].state = "connecting"
  BY <1>1, <1>3 DEF Listens, Alike
<1>9. source'[s].joined \subseteq processed'
  <2>1. CASE t = s
    BY <1>1, <1>3, <2>1 DEF Listens
  <2>2. CASE t # s
    BY <1>1, <1>3, <2>2 DEF Listens, Same
  <2> QED
    BY <2>1, <2>2
<1>10. ASSUME NEW l \in Listeners, place'[l[1]] # "detached" PROVE CountOK(source[s], l)'
  <2>1. CountOK(source[s], l) /\ source[s].joined \subseteq processed
    BY <1>3, <1>10 DEF Listens
  <2>2. PICK p : p = source[s]
    OBVIOUS
  <2>3. PICK q : q = source'[s]
    OBVIOUS
  <2>4. /\ q.elt = p.elt /\ q.again = p.again /\ q.retry = p.retry
        /\ p.count \in [Listeners -> Nat]
    BY <1>1, <2>2, <2>3 DEF Alike, TypeOK, Sources
  <2>5. CASE t # s
    <3>1. q.count = p.count /\ q.joined = p.joined
      BY <1>1, <2>2, <2>3, <2>5 DEF Same
    <3>2. Parent[l[1]] = p.elt => (l[1] \in processed' <=> l[1] \in processed)
      BY <1>7, <2>2, <2>5
    <3> QED
      BY <2>1, <2>2, <2>3, <2>4, <3>1, <3>2 DEF CountOK
  <2>6. CASE t = s
    <3>1. /\ q.joined = p.joined \cup {e}
          /\ q.count[l] = IF l[1] = e THEN p.count[l] + 1 ELSE p.count[l]
      BY <1>1, <2>2, <2>3, <2>6
    <3>2. CASE l[1] # e
      BY <2>1, <2>2, <2>3, <2>4, <3>1, <3>2 DEF CountOK
    <3>3. CASE l[1] = e
      <4>1. Parent[l[1]] = p.elt /\ l[1] # p.elt /\ l[1] \notin p.joined
            /\ l[1] \notin processed /\ l[1] \in processed' /\ l[1] \in q.joined
        BY <1>5, <1>6, <2>1, <2>2, <2>6, <3>1, <3>3
      <4>2. q.count[l] = p.count[l] + 1 /\ p.count[l] \in Nat
        BY <2>4, <3>1, <3>3
      <4>3. CountOK(p, l)
        BY <2>1, <2>2
      <4> QED
        BY <2>3, <2>4, <4>1, <4>2, <4>3 DEF CountOK
    <3> QED
      BY <3>2, <3>3
  <2> QED
    BY <2>5, <2>6
<1> QED
  BY <1>8, <1>9, <1>10 DEF Listens

(* onopen of a source that replaces one registers what is below its        *)
(* element once more, and nothing of another source.                       *)
LEMMA OpenListens ==
    ASSUME TypeOK, Connections, PageOK, ListenOK, NEW s \in Slots, OnOpen(s)
    PROVE  ListenOK'
<1> DEFINE opened == [source EXCEPT ![s].state = "open", ![s].retry = 0]
           e == source[s].elt
           below == {d \in Under(e) : place[d] # "absent"}
<1>0. /\ \A t \in Slots : source[t] \in Sources /\ source[t].retry \in Nat
      /\ source[s].count \in [Listeners -> Nat]
  BY SlotsAssumption DEF TypeOK, Sources, Retries
<1>1. Live(s) /\ place' = place /\ processed' = processed
  BY <1>0 DEF OnOpen, Live
<1>2. e \in Connects /\ e \in Elements /\ data[e] = s
  BY <1>1, ElementsAssumption DEF Connections, Placed, OneConnection
<1>3. Listens(s)
  BY <1>1 DEF ListenOK
<1>4. opened \in [Slots -> Sources]
  BY OpenedType
<1>5. /\ opened[s].elt = e /\ opened[s].retry = 0 /\ opened[s].again = source[s].again
      /\ opened[s].joined = source[s].joined /\ opened[s].count = source[s].count
      /\ \A t \in Slots \ {s} : opened[t] = source[t]
  BY <1>0 DEF Sources, TypeOK
<1>6. source' = IF source[s].retry > 0 THEN RegisterSSE(opened, data, below) ELSE opened
  BY DEF OnOpen
<1> HIDE DEF opened
<1>7. \A d \in below : /\ ClosestSource(data, d) = s /\ d \in Elements
                       /\ Parent[d] = e /\ d # e
  BY <1>2, NestingAssumption, ElementsAssumption, SlotsAssumption
     DEF PageOK, ClosestSource, Under
<1>8. ASSUME NEW t \in Slots \ {s}
      PROVE  Same(source'[t], source[t]) /\ source'[t].state = source[t].state
  <2>1. CASE source[s].retry > 0
    <3>1. source' = RegisterSSE(opened, data, below)
      BY <1>6, <2>1
    <3> HIDE DEF below, e
    <3>2. Registers(source'[t], opened[t], data, below, t)
      BY <1>4, <3>1, RegisterCounts
    <3>3. source[t].count \in [Listeners -> Nat]
      BY DEF TypeOK, Sources
    <3>4. source'[t].count = source[t].count
      BY <1>5, <1>7, <3>2, <3>3 DEF Registers
    <3> QED
      BY <1>5, <3>2, <3>4 DEF Same, Alike, Registers
  <2>2. CASE ~(source[s].retry > 0)
    BY <1>5, <1>6, <2>2 DEF Same
  <2> QED
    BY <2>1, <2>2
<1>9. ASSUME NEW t \in Slots \ {s}, Live(t)' PROVE Listens(t)'
  BY <1>0, <1>1, <1>8, <1>9, StillListens DEF Live
<1>10. Listens(s)'
  <2>1. CASE source[s].retry > 0
    <3>1. source' = RegisterSSE(opened, data, below)
      BY <1>6, <2>1
    <3> HIDE DEF below
    <3>2. Registers(source'[s], opened[s], data, below, s)
      BY <1>4, <3>1, RegisterCounts
    <3>3. source[s].again /\ source[s].joined \subseteq processed
      BY <1>3, <2>1 DEF Listens
    <3>4. /\ source'[s].elt = e /\ source'[s].retry = 0 /\ source'[s].again
          /\ source'[s].joined = source[s].joined
          /\ \A l \in Listeners : source'[s].count[l] =
                IF l[1] \in below THEN source[s].count[l] + 1 ELSE source[s].count[l]
      BY <1>5, <1>7, <3>2, <3>3 DEF Alike, Registers
    <3>5. ASSUME NEW l \in Listeners, place'[l[1]] # "detached" PROVE CountOK(source[s], l)'
      <4>1. CountOK(source[s], l) /\ source[s].count[l] \in Nat /\ l[1] \in Elements
        BY <1>0, <1>1, <1>3, <3>5, ListenerElement DEF Listens
      <4>2. PICK p : p = source[s]
        OBVIOUS
      <4>3. PICK q : q = source'[s]
        OBVIOUS
      <4>4. /\ p.elt = e /\ q.elt = e /\ q.retry = 0 /\ q.again /\ q.joined = p.joined
            /\ p.again /\ p.retry > 0 /\ p.count[l] \in Nat
            /\ q.count[l] = IF l[1] \in below THEN p.count[l] + 1 ELSE p.count[l]
        BY <2>1, <3>3, <3>4, <4>1, <4>2, <4>3
      <4>5. /\ l[1] \in below => Parent[l[1]] = e /\ l[1] # e
            /\ Parent[l[1]] = e /\ l[1] \notin below =>
                  l[1] \notin processed /\ l[1] \notin p.joined /\ l[1] # e
        BY <1>2, <1>7, <3>3, <4>1, <4>2, ElementsAssumption DEF below, Under, PageOK
      <4>6. CountOK(p, l) /\ processed' = processed /\ p.joined \subseteq processed
        BY <1>1, <3>3, <4>1, <4>2
      <4>7. CASE l[1] \in below
        BY <4>3, <4>4, <4>5, <4>6, <4>7 DEF CountOK
      <4>8. CASE l[1] \notin below
        BY <4>3, <4>4, <4>5, <4>6, <4>8 DEF CountOK
      <4> QED
        BY <4>7, <4>8
    <3>6. source'[s].joined \subseteq processed' /\ ~(source'[s].retry > 0)
      BY <1>1, <3>3, <3>4
    <3> QED
      BY <3>5, <3>6 DEF Listens
  <2>2. CASE ~(source[s].retry > 0)
    <3>1. source[s].retry = 0
      BY <1>0, <2>2
    <3>2. Same(source'[s], source[s])
      BY <1>5, <1>6, <2>2, <3>1 DEF Same
    <3> QED
      BY <1>0, <1>1, <3>1, <3>2, StillListens
  <2> QED
    BY <2>1, <2>2
<1> QED
  BY <1>9, <1>10 DEF ListenOK

(* What a message event does to its source and the others.                 *)
LEMMA MessageMeans ==
    ASSUME TypeOK, Connections, NEW s \in Slots, OnMessage(s)
    PROVE  /\ Live(s) /\ source[s].elt \in Connects /\ data[source[s].elt] = s
           /\ source[s].elt \in processed
           /\ \A t \in Slots \ {s} : source'[t] = source[t]
           /\ Live(s)' =>
                 /\ source'[s].elt = source[s].elt /\ source'[s].state = "open"
                 /\ source'[s].retry = source[s].retry /\ source'[s].again = source[s].again
                 /\ source'[s].joined = source[s].joined
                 /\ source'[s].inbox = Tail(source[s].inbox)
                 /\ \A l \in Listeners :
                       \/ source'[s].count[l] = source[s].count[l]
                       \/ source'[s].count[l] = 0 /\ ~InBody(l[1])
           /\ InBody(source[s].elt) => Live(s)'
           /\ ~Live(s)' => source'[s].inbox = <<>>
<1> DEFINE e == source[s].elt
           gone == MaybeCloses(e)
           c == [l \in Listeners |->
                   IF ~gone /\ ~InBody(l[1]) THEN 0 ELSE source[s].count[l]]
           taken == [source EXCEPT ![s].inbox = Tail(@), ![s].count = c]
<1>0. \A t \in Slots : source[t] \in Sources
  BY DEF TypeOK
<1>1. Live(s) /\ source[s].state = "open"
  BY DEF OnMessage, Live
<1>2. e \in Connects /\ e \in Elements /\ data[e] = s /\ e \in processed
  BY <1>1, ElementsAssumption DEF Connections, Placed, OneConnection, Unprocessed
<1>3. /\ \A t \in Slots \ {s} : taken[t] = source[t]
      /\ taken[s].elt = e /\ taken[s].state = "open" /\ taken[s].retry = source[s].retry
      /\ taken[s].again = source[s].again /\ taken[s].joined = source[s].joined
      /\ taken[s].inbox = Tail(source[s].inbox) /\ taken[s].count = c
      /\ DOMAIN taken = Slots
  <2> HIDE DEF c
  <2> QED
    BY <1>0, <1>1 DEF Sources, TypeOK
<1>4. \/ source' = taken
      \/ source' = [taken EXCEPT ![s] = Closed(@)] /\ gone
  BY <1>2 DEF OnMessage
<1>5. \A l \in Listeners : \/ c[l] = source[s].count[l]
                           \/ c[l] = 0 /\ ~InBody(l[1])
  OBVIOUS
<1>6. /\ [taken EXCEPT ![s] = Closed(@)][s].state = "closed"
      /\ [taken EXCEPT ![s] = Closed(@)][s].inbox = <<>>
  <2> HIDE DEF taken
  <2>2. taken \in [Slots -> Sources] => /\ Closed(taken[s]).state = "closed"
                                       /\ Closed(taken[s]).inbox = <<>>
    BY DEF Closed, Sources
  <2>3. taken \in [Slots -> Sources]
    <3> DEFINE left == [source[s] EXCEPT !.inbox = Tail(source[s].inbox)]
    <3>1. c \in [Listeners -> Nat] /\ Tail(source[s].inbox) \in Seq(1..MaxMessages)
      <4>1. /\ source[s].inbox \in Seq(1..MaxMessages) /\ source[s].inbox # <<>>
            /\ source[s].count \in [Listeners -> Nat]
        BY <1>0 DEF OnMessage, Sources
      <4> QED
        BY <4>1, HeadTailProperties
    <3> HIDE DEF c
    <3>2. left \in Sources
      BY <1>0, <3>1, SourceTypes
    <3>3. taken = [source EXCEPT ![s] = [left EXCEPT !.count = c]]
      BY <1>0 DEF Sources, taken
    <3> HIDE DEF left
    <3> QED
      BY <1>0, <3>1, <3>2, <3>3, SourceTypes DEF TypeOK
  <2> QED
    BY <1>3, <2>2, <2>3
<1> HIDE DEF taken, c
<1>7. \A t \in Slots \ {s} : source'[t] = source[t]
  BY <1>3, <1>4
<1>8. Live(s)' => source' = taken
  BY <1>4, <1>6 DEF Live
<1>9. InBody(e) => source' = taken
  BY <1>4 DEF MaybeCloses
<1>10. ~Live(s)' => source'[s].inbox = <<>>
  BY <1>3, <1>4, <1>6 DEF Live
<1> QED
  BY <1>1, <1>2, <1>3, <1>5, <1>7, <1>8, <1>9, <1>10 DEF Live

(* A message is no reason for a listener whose element is in the body, or  *)
(* not there yet, to be registered more or less often.                     *)
LEMMA MessageListens ==
    ASSUME TypeOK, Connections, PageOK, ListenOK, NEW s \in Slots, OnMessage(s)
    PROVE  ListenOK'
<1> SUFFICES ASSUME NEW t \in Slots, Live(t)' PROVE Listens(t)'
  BY DEF ListenOK
<1>0. /\ \A u \in Slots : source[u].retry \in Nat
      /\ place' = place /\ processed' = processed
  BY SlotsAssumption DEF TypeOK, Sources, Retries, OnMessage
<1>1. CASE t # s
  <2>1. source'[t] = source[t]
    BY <1>1, MessageMeans
  <2> QED
    BY <1>0, <2>1, StillListens DEF Live, Same
<1>2. CASE t = s
  <2>1. /\ Live(s) /\ source[s].elt \in processed
        /\ source'[s].elt = source[s].elt /\ source'[s].state = "open"
        /\ source'[s].retry = source[s].retry /\ source'[s].again = source[s].again
        /\ source'[s].joined = source[s].joined
        /\ \A l \in Listeners :
              \/ source'[s].count[l] = source[s].count[l]
              \/ source'[s].count[l] = 0 /\ ~InBody(l[1])
    BY <1>2, MessageMeans
  <2>2. Listens(s) /\ source[s].state = "open"
    BY <2>1 DEF ListenOK, OnMessage
  <2>3. source[s].retry = 0
    BY <1>0, <2>2 DEF Listens
  <2>4. source'[s].joined \subseteq processed' /\ ~(source'[s].retry > 0)
    BY <1>0, <2>1, <2>2, <2>3 DEF Listens
  <2>5. ASSUME NEW l \in Listeners, place'[l[1]] # "detached" PROVE CountOK(source[s], l)'
    <3>1. CountOK(source[s], l) /\ l[1] \in Elements
      BY <1>0, <2>2, <2>5, ListenerElement DEF Listens
    <3>2. ~InBody(l[1]) => l[1] \notin processed
      BY <1>0, <2>5, <3>1 DEF InBody, PageOK, TypeOK
    <3>3. PICK p : p = source[s]
      OBVIOUS
    <3>4. PICK q : q = source'[s]
      OBVIOUS
    <3>5. /\ q.elt = p.elt /\ q.retry = 0 /\ q.again = p.again /\ q.joined = p.joined
          /\ p.retry = 0 /\ p.elt \in processed
          /\ q.count[l] = p.count[l] \/ (q.count[l] = 0 /\ l[1] \notin processed)
      BY <2>1, <2>3, <3>2, <3>3, <3>4
    <3>6. CountOK(p, l) /\ processed' = processed
      BY <1>0, <3>1, <3>3
    <3> QED
      BY <3>4, <3>5, <3>6 DEF CountOK
  <2> QED
    BY <1>2, <2>4, <2>5 DEF Listens
<1> QED
  BY <1>1, <1>2

LEMMA InitListen == Init => ListenOK
BY DEF Init, ListenOK, Live, Unused, NewSource

(* Every step keeps ListenOK.                                              *)
LEMMA NextListen == TypeOK /\ Connections /\ PageOK /\ ListenOK /\ [Next]_vars => ListenOK'
<1> SUFFICES ASSUME TypeOK, Connections, PageOK, ListenOK, [Next]_vars PROVE ListenOK'
  OBVIOUS
<1>0. \A t \in Slots : source[t] \in Sources /\ source[t].retry \in Nat
  BY SlotsAssumption DEF TypeOK, Sources, Retries
(* The steps that register nobody.                                         *)
<1>a. ASSUME \A t \in Slots : Live(t)' =>
                /\ Live(t) /\ Same(source'[t], source[t])
                /\ source'[t].state = source[t].state \/ source'[t].state = "connecting",
             processed' = processed,
             \A e \in Elements : place'[e] # "detached" => place[e] # "detached"
      PROVE  ListenOK'
  <2> SUFFICES ASSUME NEW t \in Slots, Live(t)' PROVE Listens(t)'
    BY DEF ListenOK
  <2> QED
    BY <1>0, <1>a, StillListens
<1>1. ASSUME NEW e \in Elements, Insert(e) PROVE ListenOK'
  BY <1>1, <1>a DEF Insert, Same, Live, TypeOK
<1>2. ASSUME NEW e \in Elements, ProcessNode(e) PROVE ListenOK'
  <2>1. 0 \in Retries
    BY SlotsAssumption DEF Retries
  <2>2. CASE e \in Connects
    BY <1>2, <2>1, <2>2, ConnectListens DEF ProcessNode
  <2>3. CASE e \notin Connects
    BY <1>2, <2>3, JoinListens DEF ProcessNode
  <2> QED
    BY <2>2, <2>3
<1>3. ASSUME NEW e \in Elements, Reconnect(e) PROVE ListenOK'
  <2>1. timers[e] \in Seq(Retries) /\ timers[e] # <<>>
    BY <1>3 DEF Reconnect, TypeOK
  <2>2. Head(timers[e]) \in Retries /\ Head(timers[e]) > 0
    BY <2>1, HeadTailProperties DEF PageOK
  <2>3. e \in Connects /\ e \in processed
    BY <2>1 DEF PageOK, Connections, Unprocessed
  <2>4. /\ EnsureEventSourceOnElement(e, Head(timers[e]))
        /\ place' = place /\ processed' = processed \cup {e}
    BY <1>3, <2>3 DEF Reconnect
  <2> QED
    BY <2>2, <2>3, <2>4, ConnectListens
<1>4. ASSUME NEW e \in Elements, NEW cleaned \in BOOLEAN, RemoveElement(e, cleaned)
      PROVE  ListenOK'
  <2>1. \A t \in Slots : Live(t)' => source'[t] = source[t]
    <3>1. \A t \in Slots : source'[t] = source[t] \/ source'[t] = Closed(source[t])
      BY <1>4 DEF RemoveElement
    <3>2. \A t \in Slots : Closed(source[t]).state = "closed"
      BY <1>0 DEF Closed, Sources
    <3> QED
      BY <3>1, <3>2 DEF Live
  <2>2. \A d \in Elements : place'[d] # "detached" => place[d] # "detached"
    BY <1>4 DEF RemoveElement
  <2> QED
    BY <1>4, <1>a, <2>1, <2>2 DEF RemoveElement, Same, Live
<1>5. ASSUME NEW s \in Slots, OnErrorConnecting(s) PROVE ListenOK'
  <2>1. \A t \in Slots : Live(t)' =>
           /\ Live(t) /\ Same(source'[t], source[t])
           /\ source'[t].state = source[t].state \/ source'[t].state = "connecting"
    BY <1>0, <1>5 DEF OnErrorConnecting, Live, Sources, TypeOK, Closed, Same
  <2> QED
    BY <1>5, <1>a, <2>1 DEF OnErrorConnecting
<1>6. ASSUME NEW s \in Slots, OnErrorClosed(s) PROVE ListenOK'
  <2> DEFINE e == source[s].elt
             failed == [source EXCEPT ![s] = Closed(@)]
             r == NextRetry(source[s].retry)
  <2>1. \/ source' = [failed EXCEPT ![data[e]] = Closed(@)]
        \/ source' = [failed EXCEPT ![s].retry = r]
    BY <1>6 DEF OnErrorClosed
  <2>2. failed \in [Slots -> Sources]
    BY ClosingType DEF TypeOK
  <2>3. failed[s].state = "closed" /\ \A t \in Slots \ {s} : failed[t] = source[t]
    BY <1>0 DEF TypeOK, Closed, Sources
  <2> HIDE DEF failed, e, r
  <2>4. \A t \in Slots : Live(t)' => source'[t] = source[t]
    <3>1. \A t \in Slots : failed[t] \in Sources
      BY <2>2
    <3>2. CASE source' = [failed EXCEPT ![data[e]] = Closed(@)]
      BY <2>2, <2>3, <3>1, <3>2 DEF Live, Sources, Closed
    <3>3. CASE source' = [failed EXCEPT ![s].retry = r]
      BY <2>2, <2>3, <3>1, <3>3 DEF Live, Sources
    <3> QED
      BY <2>1, <3>2, <3>3
  <2> QED
    BY <1>6, <1>a, <2>4 DEF OnErrorClosed, Same, Live
<1>7. ASSUME NEW s \in Slots, OnCloseEvent(s) PROVE ListenOK'
  <2>1. \A t \in Slots : Live(t)' => source'[t] = source[t]
    BY <1>0, <1>7 DEF OnCloseEvent, Live, Sources, TypeOK, Closed
  <2> QED
    BY <1>7, <1>a, <2>1 DEF OnCloseEvent, Same, Live
<1>8. ASSUME Publish PROVE ListenOK'
  <2>1. \A t \in Slots : Same(source'[t], source[t]) /\ source'[t].state = source[t].state
    BY <1>0, <1>8 DEF Publish, Same, Sources
  <2> QED
    BY <1>8, <1>a, <2>1 DEF Publish, Live
<1>9. CASE UNCHANGED vars
  BY <1>9, <1>a DEF vars, Same, Live
<1> QED
  BY <1>1, <1>2, <1>3, <1>4, <1>5, <1>6, <1>7, <1>8, <1>9, OpenListens, MessageListens
     DEF Next

(* ListenOK answers ListensOnce: the source of the closest element is that *)
(* of the listener's element or of the one above.                          *)
LEMMA ListenMeans == TypeOK /\ Connections /\ ListenOK => ListensOnce
<1> SUFFICES ASSUME TypeOK, Connections, ListenOK,
                    NEW s \in Slots, source[s].state = "open", InBody(source[s].elt),
                    NEW l \in Listeners, l[1] \in processed, InBody(l[1]),
                    ClosestSource(data, l[1]) = s
             PROVE  \/ source[s].count[l] = 1
                    \/ source[s].again /\ l[1] \in source[s].joined /\ source[s].count[l] \in 1..2
  BY DEF ListensOnce
<1>1. Listens(s)
  BY DEF ListenOK, Live
<1>2. CountOK(source[s], l)
  BY <1>1 DEF Listens, InBody
<1>3. source[s].retry = 0
  BY <1>1, SlotsAssumption DEF Listens, TypeOK, Sources, Retries
<1>4. l[1] \in Elements
  BY ListenerElement
<1>5. source[s].elt = l[1] \/ source[s].elt = Parent[l[1]]
  BY <1>4, SlotsAssumption, ElementsAssumption DEF ClosestSource, Connections, Owned
<1>6. source[s].again \in BOOLEAN
  BY DEF TypeOK, Sources
<1> QED
  BY <1>2, <1>3, <1>5, <1>6 DEF CountOK

LEMMA SpecListen == Spec => [](TypeOK /\ Connections /\ PageOK /\ ListenOK)
<1>1. Init => TypeOK /\ Connections /\ PageOK /\ ListenOK
  BY InitType, InitConnections, InitPage, InitListen
<1>2. TypeOK /\ Connections /\ PageOK /\ ListenOK /\ [Next]_vars
         => (TypeOK /\ Connections /\ PageOK /\ ListenOK)'
  BY NextType, NextConnections, NextPage, NextListen
<1> QED
  BY <1>1, <1>2, PTL DEF Spec

(* Every element of the page hears each event of its stream exactly once,  *)
(* through any number of reconnections, removals and insertions, but for   *)
(* one that joins while a replacement source exists: twice at most.        *)
THEOREM HeardOnce == Spec => []ListensOnce
<1>1. TypeOK /\ Connections /\ PageOK /\ ListenOK => ListensOnce
  BY ListenMeans
<1> QED
  BY <1>1, SpecListen, PTL

-----------------------------------------------------------------------------
(* What the page has swapped in.                                           *)

Waiting(e)      == IF data[e] = NoSource THEN <<>> ELSE source[data[e]].inbox
Increasing(seq) == \A i, j \in DOMAIN seq : i < j => seq[i] < seq[j]

(* Of the messages 1..k, those shown come first and in order, then those   *)
(* received and not yet handled; every other one is lost, and only those.  *)
Shows(shown, waiting, lost, k) ==
    /\ Increasing(shown) /\ Increasing(waiting)
    /\ \A i \in DOMAIN shown, j \in DOMAIN waiting : shown[i] < waiting[j]
    /\ Values(shown) \cup Values(waiting) \cup lost = 1..k
    /\ (Values(shown) \cup Values(waiting)) \cap lost = {}

(* Messages wait at an open source only, and the page shows the stream; an *)
(* element that has left the body is of no interest any more.              *)
ShownOK ==
    /\ \A s \in Slots : source[s].state # "open" => source[s].inbox = <<>>
    /\ \A e \in Connects \cap Swappers : place[e] # "detached" =>
           Shows(got[<<e, "swap">>], Waiting(e), missed[e], published)

LEMMA ValuesAppend ==
    ASSUME NEW S, NEW q \in Seq(S), NEW x \in S
    PROVE  Values(Append(q, x)) = Values(q) \cup {x}
<1>1. /\ DOMAIN q = 1..Len(q) /\ Len(q) \in Nat
      /\ DOMAIN Append(q, x) = 1..(Len(q) + 1)
      /\ \A i \in 1..Len(q) : Append(q, x)[i] = q[i]
      /\ Append(q, x)[Len(q) + 1] = x
  BY AppendProperties, LenProperties
<1>2. \A i \in 1..(Len(q) + 1) : i \in 1..Len(q) \/ i = Len(q) + 1
  BY <1>1
<1>3. Len(q) + 1 \in 1..(Len(q) + 1) /\ 1..Len(q) \subseteq 1..(Len(q) + 1)
  BY <1>1
<1> QED
  BY <1>1, <1>2, <1>3 DEF Values

LEMMA ValuesTail ==
    ASSUME NEW S, NEW q \in Seq(S), q # <<>>
    PROVE  Values(q) = {Head(q)} \cup Values(Tail(q))
<1>1. /\ DOMAIN q = 1..Len(q) /\ Len(q) \in Nat \ {0}
      /\ DOMAIN Tail(q) = 1..(Len(q) - 1)
      /\ \A i \in 1..(Len(q) - 1) : Tail(q)[i] = q[i + 1]
      /\ Head(q) = q[1]
  BY HeadTailProperties, LenProperties, EmptySeq
<1>2. \A i \in 1..Len(q) : i = 1 \/ (i - 1 \in 1..(Len(q) - 1) /\ (i - 1) + 1 = i)
  BY <1>1
<1>3. 1 \in 1..Len(q) /\ \A i \in 1..(Len(q) - 1) : i + 1 \in 1..Len(q)
  BY <1>1
<1>4. PICK left : left = Tail(q)
  OBVIOUS
<1>5. \A i \in DOMAIN q : q[i] = Head(q) \/ \E j \in DOMAIN left : q[i] = left[j]
  BY <1>1, <1>2, <1>4
<1>6. /\ \E i \in DOMAIN q : q[i] = Head(q)
      /\ \A j \in DOMAIN left : \E i \in DOMAIN q : q[i] = left[j]
  BY <1>1, <1>3, <1>4
<1>7. Values(q) = {Head(q)} \cup Values(left)
  BY <1>5, <1>6 DEF Values
<1> QED
  BY <1>4, <1>7

(* The oldest message waiting is swapped in.                               *)
LEMMA ShowsHandled ==
    ASSUME NEW shown \in Seq(Nat), NEW waiting \in Seq(Nat), waiting # <<>>, NEW lost, NEW k,
           Shows(shown, waiting, lost, k)
    PROVE  Shows(Append(shown, Head(waiting)), Tail(waiting), lost, k)
<1> DEFINE n == Head(waiting)
           more == Append(shown, n)
           left == Tail(waiting)
<1>1. /\ DOMAIN waiting = 1..Len(waiting) /\ Len(waiting) \in Nat \ {0}
      /\ DOMAIN left = 1..(Len(waiting) - 1) /\ left \in Seq(Nat)
      /\ \A i \in 1..(Len(waiting) - 1) : left[i] = waiting[i + 1]
      /\ n = waiting[1] /\ n \in Nat
  BY HeadTailProperties, LenProperties, EmptySeq
<1>2. /\ DOMAIN shown = 1..Len(shown) /\ Len(shown) \in Nat
      /\ DOMAIN more = 1..(Len(shown) + 1)
      /\ \A i \in 1..Len(shown) : more[i] = shown[i]
      /\ more[Len(shown) + 1] = n
  BY <1>1, AppendProperties, LenProperties
<1>3. Values(more) = Values(shown) \cup {n} /\ Values(waiting) = {n} \cup Values(left)
  BY <1>1, ValuesAppend, ValuesTail
<1> HIDE DEF n, more, left
<1>4. \A i \in 1..Len(shown) : shown[i] < n
  <2>1. 1 \in DOMAIN waiting
    BY <1>1
  <2>2. \A i \in DOMAIN shown : shown[i] < waiting[1]
    BY <2>1 DEF Shows
  <2> QED
    BY <1>1, <1>2, <2>2
<1>5. \A i \in 1..(Len(waiting) - 1) : n < left[i]
  <2> SUFFICES ASSUME NEW i \in 1..(Len(waiting) - 1) PROVE n < left[i]
    OBVIOUS
  <2>1. 1 \in DOMAIN waiting /\ i + 1 \in DOMAIN waiting /\ 1 < i + 1
    BY <1>1
  <2> QED
    BY <1>1, <2>1 DEF Shows, Increasing
<1>6. Increasing(more)
  <2> SUFFICES ASSUME NEW i \in 1..(Len(shown) + 1), NEW j \in 1..(Len(shown) + 1), i < j
               PROVE  more[i] < more[j]
    BY <1>2 DEF Increasing
  <2>1. i \in 1..Len(shown)
    BY <1>2
  <2>2. CASE j \in 1..Len(shown)
    BY <1>2, <2>1, <2>2 DEF Shows, Increasing
  <2>3. CASE j = Len(shown) + 1
    BY <1>2, <1>4, <2>1, <2>3
  <2> QED
    BY <1>2, <2>2, <2>3
<1>7. Increasing(left)
  <2> SUFFICES ASSUME NEW i \in 1..(Len(waiting) - 1), NEW j \in 1..(Len(waiting) - 1), i < j
               PROVE  left[i] < left[j]
    BY <1>1 DEF Increasing
  <2>1. i + 1 \in DOMAIN waiting /\ j + 1 \in DOMAIN waiting /\ i + 1 < j + 1
    BY <1>1
  <2> QED
    BY <1>1, <2>1 DEF Shows, Increasing
<1>8. ASSUME NEW i \in 1..(Len(shown) + 1), NEW j \in 1..(Len(waiting) - 1)
      PROVE  more[i] < left[j]
  <2>1. CASE i \in 1..Len(shown)
    <3>1. j + 1 \in DOMAIN waiting /\ left[j] = waiting[j + 1]
      BY <1>1
    <3> QED
      BY <1>2, <2>1, <3>1 DEF Shows
  <2>2. CASE i = Len(shown) + 1
    BY <1>2, <1>5, <2>2
  <2> QED
    BY <1>2, <2>1, <2>2
<1>9. Values(more) \cup Values(left) = Values(shown) \cup Values(waiting)
  BY <1>3
<1>10. Shows(more, left, lost, k)
  BY <1>1, <1>2, <1>6, <1>7, <1>8, <1>9 DEF Shows
<1> QED
  BY <1>10 DEF more, left, n

(* What waits is lost with the connection.                                 *)
LEMMA ShowsLost ==
    ASSUME NEW shown \in Seq(Nat), NEW waiting \in Seq(Nat), NEW lost, NEW k,
           Shows(shown, waiting, lost, k)
    PROVE  Shows(shown, <<>>, lost \cup Values(waiting), k)
<1>1. Values(<<>>) = {} /\ DOMAIN <<>> = {}
  BY DEF Values
<1>2. Increasing(<<>>)
  BY <1>1 DEF Increasing
<1>3. Values(shown) \cap Values(waiting) = {}
  <2>1. \A i \in DOMAIN shown, j \in DOMAIN waiting : shown[i] \in Nat /\ waiting[j] \in Nat
    OBVIOUS
  <2>2. \A i \in DOMAIN shown, j \in DOMAIN waiting : shown[i] < waiting[j]
    BY DEF Shows
  <2>3. \A i \in DOMAIN shown, j \in DOMAIN waiting : shown[i] # waiting[j]
    BY <2>1, <2>2
  <2> QED
    BY <2>3 DEF Values
<1> QED
  BY <1>1, <1>2, <1>3 DEF Shows

(* A message reaches the source.                                           *)
LEMMA ShowsSent ==
    ASSUME NEW shown \in Seq(Nat), NEW waiting \in Seq(Nat), NEW lost, NEW k \in Nat,
           Shows(shown, waiting, lost, k)
    PROVE  Shows(shown, Append(waiting, k + 1), lost, k + 1)
<1> DEFINE more == Append(waiting, k + 1)
<1>1. /\ DOMAIN waiting = 1..Len(waiting) /\ Len(waiting) \in Nat
      /\ DOMAIN more = 1..(Len(waiting) + 1)
      /\ \A i \in 1..Len(waiting) : more[i] = waiting[i]
      /\ more[Len(waiting) + 1] = k + 1
  BY AppendProperties, LenProperties
<1>2. Values(more) = Values(waiting) \cup {k + 1}
  BY ValuesAppend
<1> HIDE DEF more
<1>0. \A j \in 1..(Len(waiting) + 1) : j \in 1..Len(waiting) \/ j = Len(waiting) + 1
  BY <1>1
<1>3. 1..(k + 1) = (1..k) \cup {k + 1} /\ k + 1 \notin 1..k
  OBVIOUS
<1>4. \A i \in DOMAIN shown : shown[i] \in 1..k
  BY DEF Shows, Values
<1>5. \A i \in DOMAIN waiting : waiting[i] \in 1..k
  BY DEF Shows, Values
<1>6. Increasing(more)
  <2> SUFFICES ASSUME NEW i \in 1..(Len(waiting) + 1), NEW j \in 1..(Len(waiting) + 1), i < j
               PROVE  more[i] < more[j]
    BY <1>1 DEF Increasing
  <2>1. i \in 1..Len(waiting)
    BY <1>1
  <2>2. CASE j \in 1..Len(waiting)
    BY <1>1, <2>1, <2>2 DEF Shows, Increasing
  <2>3. CASE j = Len(waiting) + 1
    <3>1. waiting[i] \in 1..k
      BY <1>1, <1>5, <2>1
    <3> QED
      BY <1>1, <2>1, <2>3, <3>1
  <2> QED
    BY <1>0, <2>2, <2>3
<1>7. ASSUME NEW i \in DOMAIN shown, NEW j \in 1..(Len(waiting) + 1)
      PROVE  shown[i] < more[j]
  <2>1. CASE j \in 1..Len(waiting)
    BY <1>1, <2>1 DEF Shows
  <2>2. CASE j = Len(waiting) + 1
    <3>1. shown[i] \in 1..k
      BY <1>4
    <3> QED
      BY <1>1, <2>2, <3>1
  <2> QED
    BY <1>0, <2>1, <2>2
<1>8. /\ Values(shown) \cup Values(more) \cup lost = 1..(k + 1)
      /\ (Values(shown) \cup Values(more)) \cap lost = {}
  <2>1. lost \subseteq 1..k
    BY DEF Shows
  <2> QED
    BY <1>2, <1>3, <2>1 DEF Shows
<1>9. Shows(shown, more, lost, k + 1)
  BY <1>1, <1>6, <1>7, <1>8 DEF Shows
<1> QED
  BY <1>9 DEF more

(* A message that has no source to go to.                                  *)
LEMMA ShowsUnsent ==
    ASSUME NEW shown, NEW waiting, NEW lost, NEW k \in Nat, Shows(shown, waiting, lost, k)
    PROVE  Shows(shown, waiting, lost \cup {k + 1}, k + 1)
<1>1. 1..(k + 1) = (1..k) \cup {k + 1} /\ k + 1 \notin 1..k
  OBVIOUS
<1>2. Values(shown) \subseteq 1..k /\ Values(waiting) \subseteq 1..k
  BY DEF Shows
<1> QED
  BY <1>1, <1>2 DEF Shows

-----------------------------------------------------------------------------
(* Histories and inboxes hold numbers.                                     *)
LEMMA Numbers ==
    ASSUME TypeOK
    PROVE  /\ \A s \in Slots : source[s].inbox \in Seq(Nat)
           /\ \A l \in Listeners : got[l] \in Seq(Nat)
           /\ \A e \in Elements : Waiting(e) \in Seq(Nat)
           /\ published \in Nat
<1>1. \A q \in Seq(1..MaxMessages) : q \in Seq(Nat)
  BY BoundsAssumption
<1>2. \A s \in Slots : source[s].inbox \in Seq(1..MaxMessages)
  BY DEF TypeOK, Sources
<1>3. \A l \in Listeners : got[l] \in Seq(1..MaxMessages)
  BY DEF TypeOK
<1>4. \A e \in Elements : data[e] = NoSource \/ data[e] \in Slots
  BY DEF TypeOK
<1>5. published \in Nat
  BY BoundsAssumption DEF TypeOK
<1>6. <<>> \in Seq(Nat)
  OBVIOUS
<1> QED
  BY <1>1, <1>2, <1>3, <1>4, <1>5, <1>6 DEF Waiting

LEMMA SwapListener == \A e \in Swappers : <<e, "swap">> \in Listeners
BY DEF Listeners

(* A step that leaves the messages of an element alone.                    *)
LEMMA StillShows ==
    ASSUME ShownOK, got' = got, missed' = missed, published' = published,
           \A s \in Slots : source'[s].state # "open" => source'[s].inbox = <<>>,
           \A e \in Connects \cap Swappers : place'[e] # "detached" =>
               place[e] # "detached" /\ Waiting(e)' = Waiting(e)
    PROVE  ShownOK'
BY DEF ShownOK

(* A source made for an element without connection: it has no messages, as *)
(* the one before had none any more.                                       *)
LEMMA ConnectShows ==
    ASSUME TypeOK, Connections, ShownOK, NEW e \in Elements, NEW r \in Retries,
           EnsureEventSourceOnElement(e, r),
           \A s \in Slots : Live(s) => source[s].elt # e
    PROVE  /\ \A s \in Slots : source'[s].state # "open" => source'[s].inbox = <<>>
           /\ \A d \in Elements : Waiting(d)' = Waiting(d)
<1>1. CASE e \in Connects
  <2>1. PICK t \in FreeSlots :
              /\ data' = [data EXCEPT ![e] = t]
              /\ source'[t].state = "connecting" /\ source'[t].inbox = <<>>
              /\ \A s \in Slots \ {t} : Alike(source'[s], source[s])
    BY <1>1, ConnectCounts
  <2>2. t \in Slots /\ t # NoSource /\ \A d \in Elements : data[d] # t
    BY SlotsAssumption DEF FreeSlots
  <2>3. data'[e] = t /\ \A d \in Elements \ {e} : data'[d] = data[d]
    BY <2>1 DEF TypeOK
  <2>4. \A s \in Slots : source'[s].state # "open" => source'[s].inbox = <<>>
    BY <2>1 DEF Alike, ShownOK
  <2>5. ASSUME NEW d \in Elements PROVE Waiting(d)' = Waiting(d)
    <3>1. CASE d = e
      <4>1. Waiting(d)' = <<>>
        BY <2>1, <2>2, <2>3, <3>1 DEF Waiting
      <4>2. data[e] # NoSource => data[e] \in Slots /\ ~Live(data[e])
        BY DEF TypeOK, Connections, Owned
      <4>3. Waiting(d) = <<>>
        BY <3>1, <4>2 DEF Waiting, Live, ShownOK
      <4> QED
        BY <4>1, <4>3
    <3>2. CASE d # e
      <4>1. data'[d] = data[d] /\ data[d] # t /\ (data[d] = NoSource \/ data[d] \in Slots)
        BY <2>2, <2>3, <3>2 DEF TypeOK
      <4> QED
        BY <2>1, <4>1 DEF Waiting, Alike
    <3> QED
      BY <3>1, <3>2
  <2> QED
    BY <2>4, <2>5
<1>2. CASE e \notin Connects
  <2>1. data' = data /\ \A s \in Slots : Alike(source'[s], source[s])
    BY <1>2, JoinCounts
  <2>2. \A d \in Elements : data[d] = NoSource \/ data[d] \in Slots
    BY DEF TypeOK
  <2> QED
    BY <2>1, <2>2 DEF Alike, Waiting, ShownOK
<1> QED
  BY <1>1, <1>2

(* A source loses its connection and the messages on their way.            *)
LEMMA DropShows ==
    ASSUME TypeOK, Connections, ShownOK, NEW s \in Slots, Live(s),
           source'[s].inbox = <<>>, source'[s].state # "open",
           \A t \in Slots \ {s} : source'[t] = source[t],
           place' = place, data' = data, got' = got, published' = published,
           missed' = Losing(s)
    PROVE  ShownOK'
<1>1. source[s].elt \in Connects /\ source[s].elt \in Elements /\ data[source[s].elt] = s
  BY ElementsAssumption DEF Connections, Placed, OneConnection
<1>2. \A t \in Slots : source'[t].state # "open" => source'[t].inbox = <<>>
  BY DEF ShownOK
<1>3. ASSUME NEW e \in Connects \cap Swappers, place'[e] # "detached"
      PROVE  Shows(got[<<e, "swap">>], Waiting(e), missed[e], published)'
  <2>0. e \in Elements /\ <<e, "swap">> \in Listeners
    BY ElementsAssumption, SwapListener
  <2>1. Shows(got[<<e, "swap">>], Waiting(e), missed[e], published)
    BY <1>3 DEF ShownOK
  <2>2. CASE e = source[s].elt
    <3>1. Waiting(e) = source[s].inbox /\ Waiting(e)' = <<>>
      BY <1>1, <2>2, SlotsAssumption DEF Waiting
    <3>2. missed'[e] = missed[e] \cup Values(Waiting(e))
      BY <1>1, <2>2, <3>1 DEF Losing
    <3>3. Shows(got[<<e, "swap">>], <<>>, missed[e] \cup Values(Waiting(e)), published)
      BY <2>0, <2>1, Numbers, ShowsLost
    <3> QED
      BY <3>1, <3>2, <3>3
  <2>3. CASE e # source[s].elt
    <3>1. data[e] # s /\ (data[e] = NoSource \/ data[e] \in Slots)
      BY <2>0, <2>3, SlotsAssumption DEF Connections, Owned, TypeOK
    <3>2. Waiting(e)' = Waiting(e)
      BY <3>1 DEF Waiting
    <3>3. missed'[e] = missed[e]
      BY <2>3 DEF Losing
    <3> QED
      BY <2>1, <3>2, <3>3
  <2> QED
    BY <2>2, <2>3
<1> QED
  BY <1>2, <1>3 DEF ShownOK

(* The element of a source swaps a message in once; nobody else who owns   *)
(* a connection hears it.                                                  *)
LEMMA MessageShows ==
    ASSUME TypeOK, Connections, PageOK, ListenOK, ShownOK, NEW s \in Slots, OnMessage(s)
    PROVE  ShownOK'
<1> DEFINE n == Head(source[s].inbox)
<1>1. /\ Live(s) /\ source[s].elt \in Connects /\ data[source[s].elt] = s
      /\ source[s].elt \in processed
      /\ \A t \in Slots \ {s} : source'[t] = source[t]
      /\ Live(s)' => /\ source'[s].state = "open" /\ source'[s].inbox = Tail(source[s].inbox)
      /\ InBody(source[s].elt) => Live(s)'
      /\ ~Live(s)' => source'[s].inbox = <<>>
  BY MessageMeans
<1>2. /\ place' = place /\ data' = data /\ missed' = missed /\ published' = published
      /\ source[s].inbox # <<>>
  BY DEF OnMessage
<1>3. source[s].elt \in Elements /\ Listens(s)
  BY <1>1, ElementsAssumption DEF ListenOK
<1>4. \A t \in Slots : source'[t].state # "open" => source'[t].inbox = <<>>
  BY <1>1 DEF ShownOK
<1>5. ASSUME NEW e \in Connects \cap Swappers, place'[e] # "detached"
      PROVE  Shows(got[<<e, "swap">>], Waiting(e), missed[e], published)'
  <2> DEFINE l == <<e, "swap">>
  <2>0. e \in Elements /\ l \in Listeners /\ l[1] = e /\ l[2] = "swap"
    BY ElementsAssumption, SwapListener
  <2>1. /\ Shows(got[l], Waiting(e), missed[e], published)
        /\ CountOK(source[s], l) /\ source[s].count[l] \in Nat
    BY <1>2, <1>3, <1>5, <2>0 DEF ShownOK, Listens, TypeOK, Sources
  <2>2. got'[l] = IF source[s].count[l] > 0 /\ ~MaybeCloses(source[s].elt) /\ InBody(e)
                    THEN got[l] \o [i \in 1..source[s].count[l] |-> n] ELSE got[l]
    BY <2>0 DEF OnMessage
  <2> HIDE DEF l, n
  <2>3. CASE e = source[s].elt
    <3>1. InBody(e) /\ ~MaybeCloses(source[s].elt)
      BY <1>1, <1>2, <1>5, <2>0, <2>3 DEF PageOK, InBody, TypeOK, MaybeCloses
    <3>2. source[s].count[l] = 1
      BY <2>0, <2>1, <2>3 DEF CountOK
    <3>3. got'[l] = got[l] \o [i \in 1..1 |-> n]
      BY <2>2, <3>1, <3>2
    <3>4. source[s].inbox \in Seq(Nat) /\ got[l] \in Seq(Nat)
      BY <2>0, Numbers
    <3>5. n \in Nat
      BY <1>2, <3>4, HeadTailProperties DEF n
    <3>6. [i \in 1..1 |-> n] = <<n>>
      OBVIOUS
    <3>7. got[l] \o <<n>> = Append(got[l], n)
      BY <3>4, <3>5, AppendIsConcat
    <3>8. got'[l] = Append(got[l], Head(source[s].inbox))
      BY <3>3, <3>6, <3>7 DEF n
    <3>9. Waiting(e) = source[s].inbox /\ Waiting(e)' = Tail(source[s].inbox)
      BY <1>1, <1>2, <2>3, <3>1, SlotsAssumption DEF Waiting
    <3>10. Shows(Append(got[l], Head(source[s].inbox)), Tail(source[s].inbox), missed[e], published)
      BY <1>2, <2>1, <3>4, <3>9, ShowsHandled
    <3> QED
      BY <1>2, <3>8, <3>9, <3>10 DEF l
  <2>4. CASE e # source[s].elt
    <3>1. Parent[e] # source[s].elt
      BY <1>1, NestingAssumption
    <3>2. source[s].count[l] = 0
      BY <2>0, <2>1, <2>4, <3>1 DEF CountOK
    <3>3. got'[l] = got[l]
      BY <2>2, <3>2
    <3>4. data[e] # s /\ (data[e] = NoSource \/ data[e] \in Slots)
      BY <2>0, <2>4, SlotsAssumption DEF Connections, Owned, TypeOK
    <3>5. Waiting(e)' = Waiting(e)
      BY <1>1, <1>2, <3>4 DEF Waiting
    <3> QED
      BY <1>2, <2>1, <3>3, <3>5 DEF l
  <2> QED
    BY <2>3, <2>4
<1> QED
  BY <1>4, <1>5 DEF ShownOK

(* A message goes to the open source of an element, or past it.            *)
LEMMA PublishShows ==
    ASSUME TypeOK, Connections, ShownOK, Publish
    PROVE  ShownOK'
<1>0. /\ \A t \in Slots : source[t] \in Sources
      /\ published \in Nat
      /\ data' = data /\ place' = place /\ got' = got /\ published' = published + 1
  BY Numbers DEF Publish, TypeOK
<1>1. \A t \in Slots :
         /\ source'[t].state = source[t].state
         /\ source'[t].inbox = IF source[t].state = "open"
                                 THEN Append(source[t].inbox, published + 1)
                                 ELSE source[t].inbox
  BY <1>0 DEF Publish, Sources
<1>2. \A t \in Slots : source'[t].state # "open" => source'[t].inbox = <<>>
  BY <1>1 DEF ShownOK
<1>3. ASSUME NEW e \in Connects \cap Swappers, place'[e] # "detached"
      PROVE  Shows(got[<<e, "swap">>], Waiting(e), missed[e], published)'
  <2> DEFINE l == <<e, "swap">>
  <2>0. e \in Elements /\ l \in Listeners
    BY ElementsAssumption, SwapListener
  <2>1. Shows(got[l], Waiting(e), missed[e], published)
    BY <1>0, <1>3 DEF ShownOK
  <2>2. got[l] \in Seq(Nat) /\ Waiting(e) \in Seq(Nat)
    BY <2>0, Numbers
  <2>3. missed'[e] = IF \E s \in Slots : source[s].elt = e /\ source[s].state = "open"
                       THEN missed[e] ELSE missed[e] \cup {published + 1}
    BY DEF Publish
  <2> HIDE DEF l
  <2>4. CASE \E s \in Slots : source[s].elt = e /\ source[s].state = "open"
    <3>1. PICK s \in Slots : source[s].elt = e /\ source[s].state = "open"
      BY <2>4
    <3>2. data[e] = s /\ s # NoSource
      BY <2>0, <3>1, SlotsAssumption DEF Connections, OneConnection, Live
    <3>3. Waiting(e)' = Append(Waiting(e), published + 1)
      BY <1>0, <1>1, <3>1, <3>2 DEF Waiting
    <3>4. Shows(got[l], Append(Waiting(e), published + 1), missed[e], published + 1)
      BY <1>0, <2>1, <2>2, ShowsSent
    <3> QED
      BY <1>0, <2>3, <2>4, <3>3, <3>4 DEF l
  <2>5. CASE ~\E s \in Slots : source[s].elt = e /\ source[s].state = "open"
    <3>1. data[e] = NoSource \/ (data[e] \in Slots /\ source[data[e]].state # "open")
      BY <2>0, <2>5 DEF Connections, Owned, TypeOK
    <3>2. Waiting(e)' = Waiting(e)
      BY <1>0, <1>1, <3>1 DEF Waiting
    <3>3. Shows(got[l], Waiting(e), missed[e] \cup {published + 1}, published + 1)
      BY <1>0, <2>1, ShowsUnsent
    <3> QED
      BY <1>0, <2>3, <2>5, <3>2, <3>3 DEF l
  <2> QED
    BY <2>4, <2>5
<1> QED
  BY <1>2, <1>3 DEF ShownOK

LEMMA InitShown == Init => ShownOK
<1> SUFFICES ASSUME Init PROVE ShownOK
  OBVIOUS
<1>1. \A s \in Slots : source[s].inbox = <<>>
  BY DEF Init, Unused, NewSource
<1>2. ASSUME NEW e \in Connects \cap Swappers
      PROVE  Shows(got[<<e, "swap">>], Waiting(e), missed[e], published)
  <2>1. /\ got[<<e, "swap">>] = <<>> /\ Waiting(e) = <<>> /\ missed[e] = {} /\ published = 0
    BY SwapListener, ElementsAssumption DEF Init, Waiting
  <2>2. DOMAIN <<>> = {} /\ Values(<<>>) = {} /\ 1..0 = {}
    BY DEF Values
  <2>3. Shows(<<>>, <<>>, {}, 0)
    BY <2>2 DEF Shows, Increasing
  <2> QED
    BY <2>1, <2>3
<1> QED
  BY <1>1, <1>2 DEF ShownOK

(* Every step keeps ShownOK.                                               *)
LEMMA NextShown ==
    TypeOK /\ Connections /\ PageOK /\ ListenOK /\ ShownOK /\ [Next]_vars => ShownOK'
<1> SUFFICES ASSUME TypeOK, Connections, PageOK, ListenOK, ShownOK, [Next]_vars PROVE ShownOK'
  OBVIOUS
<1>0. /\ \A t \in Slots : source[t] \in Sources
      /\ \A e \in Elements : data[e] = NoSource \/ data[e] \in Slots
      /\ Connects \subseteq Elements
  BY ElementsAssumption DEF TypeOK
<1>q. \A t \in Slots : source[t].state # "open" => source[t].inbox = <<>>
  BY DEF ShownOK
<1>1. ASSUME NEW e \in Elements, Insert(e) PROVE ShownOK'
  <2>1. \A d \in Elements : place'[d] # "detached" => place[d] # "detached"
    BY <1>1 DEF Insert, TypeOK
  <2>2. /\ got' = got /\ missed' = missed /\ published' = published
        /\ source' = source /\ data' = data
    BY <1>1 DEF Insert
  <2> QED
    BY <1>0, <1>q, <2>1, <2>2, StillShows DEF Waiting
<1>2. ASSUME NEW e \in Elements, NEW r \in Retries, EnsureEventSourceOnElement(e, r),
             \A s \in Slots : Live(s) => source[s].elt # e,
             place' = place, got' = got, missed' = missed, published' = published
      PROVE  ShownOK'
  BY <1>0, <1>2, ConnectShows, StillShows
<1>3. ASSUME NEW e \in Elements, ProcessNode(e) PROVE ShownOK'
  <2>1. 0 \in Retries
    BY SlotsAssumption DEF Retries
  <2>2. \A s \in Slots : Live(s) => source[s].elt # e
    BY <1>3 DEF ProcessNode, Connections, Unprocessed
  <2> QED
    BY <1>2, <1>3, <2>1, <2>2 DEF ProcessNode
<1>4. ASSUME NEW e \in Elements, Reconnect(e) PROVE ShownOK'
  <2>1. timers[e] \in Seq(Retries) /\ timers[e] # <<>>
    BY <1>4 DEF Reconnect, TypeOK
  <2>2. Head(timers[e]) \in Retries
    BY <2>1, HeadTailProperties
  <2>3. \A s \in Slots : Live(s) => source[s].elt # e
    BY <2>1 DEF Connections, OneConnection
  <2> QED
    BY <1>2, <1>4, <2>2, <2>3 DEF Reconnect
<1>5. ASSUME NEW e \in Elements, NEW cleaned \in BOOLEAN, RemoveElement(e, cleaned)
      PROVE  ShownOK'
  <2> DEFINE gone == {d \in SelfAndUnder(e) : InBody(d)}
  <2>1. /\ place' = [d \in Elements |-> IF d \in gone THEN "detached" ELSE place[d]]
        /\ got' = got /\ missed' = missed /\ published' = published
    BY <1>5 DEF RemoveElement
  <2>2. CASE ~cleaned
    BY <1>0, <1>5, <1>q, <2>1, <2>2, StillShows DEF RemoveElement, Waiting
  <2>3. CASE cleaned
    <3>1. /\ source' = [s \in Slots |-> IF \E d \in gone : data[d] = s
                                          THEN Closed(source[s]) ELSE source[s]]
          /\ data' = [d \in Elements |-> IF d \in gone THEN NoSource ELSE data[d]]
      BY <1>5, <2>3 DEF RemoveElement
    <3>2. gone \subseteq Elements
      BY DEF SelfAndUnder, Under
    <3> HIDE DEF gone
    <3>3. \A s \in Slots : Closed(source[s]).inbox = <<>>
      BY <1>0 DEF Closed, Sources
    <3>4. \A s \in Slots : source'[s].state # "open" => source'[s].inbox = <<>>
      BY <1>q, <3>1, <3>3
    <3>5. ASSUME NEW d \in Connects \cap Swappers, place'[d] # "detached"
          PROVE  place[d] # "detached" /\ Waiting(d)' = Waiting(d)
      <4>1. d \in Elements /\ d \notin gone /\ place[d] # "detached" /\ data'[d] = data[d]
        BY <1>0, <2>1, <3>1, <3>5
      <4>2. ASSUME data[d] \in Slots PROVE source'[data[d]] = source[data[d]]
        <5>1. \A c \in gone : data[c] # data[d]
          BY <3>2, <4>1, <4>2, SlotsAssumption DEF Connections, Owned
        <5> QED
          BY <3>1, <4>2, <5>1
      <4>3. data[d] = NoSource \/ data[d] \in Slots
        BY <1>0, <4>1
      <4> QED
        BY <4>1, <4>2, <4>3 DEF Waiting
    <3> QED
      BY <2>1, <3>4, <3>5, StillShows
  <2> QED
    BY <2>2, <2>3
<1>6. ASSUME NEW s \in Slots, OnOpen(s) PROVE ShownOK'
  <2> DEFINE opened == [source EXCEPT ![s].state = "open", ![s].retry = 0]
  <2>1. \/ source' = opened
        \/ source' = RegisterSSE(opened, data,
                         {d \in Under(source[s].elt) : place[d] # "absent"})
    BY <1>6 DEF OnOpen
  <2>2. /\ opened[s].state = "open"
        /\ \A t \in Slots : opened[t].inbox = source[t].inbox
        /\ \A t \in Slots \ {s} : opened[t].state = source[t].state
    BY <1>0 DEF Sources, TypeOK
  <2>3. opened \in [Slots -> Sources]
    BY OpenedType
  <2> HIDE DEF opened
  <2>4. \A t \in Slots : source'[t].inbox = opened[t].inbox /\ source'[t].state = opened[t].state
    BY <2>1, <2>3, RegisterType DEF Alike
  <2>5. \A t \in Slots : source'[t].state # "open" => source'[t].inbox = <<>>
    BY <1>q, <2>2, <2>4
  <2>6. /\ place' = place /\ data' = data /\ got' = got /\ missed' = missed
        /\ published' = published
    BY <1>6 DEF OnOpen
  <2>7. \A e \in Elements : Waiting(e)' = Waiting(e)
    BY <1>0, <2>2, <2>4, <2>6 DEF Waiting
  <2> QED
    BY <1>0, <2>5, <2>6, <2>7, StillShows
<1>7. ASSUME NEW s \in Slots, Live(s) PROVE data[source[s].elt] = s
  BY <1>7, ElementsAssumption DEF Connections, Placed, OneConnection
<1>8. ASSUME NEW s \in Slots, OnErrorConnecting(s) PROVE ShownOK'
  <2> DEFINE dropped == [source EXCEPT ![s].state = "connecting", ![s].inbox = <<>>]
  <2>1. Live(s) /\ data[source[s].elt] = s
    BY <1>7, <1>8 DEF OnErrorConnecting
  <2>2. source' = dropped \/ source' = [dropped EXCEPT ![s] = Closed(@)]
    BY <1>8, <2>1 DEF OnErrorConnecting
  <2>3. /\ \A t \in Slots \ {s} : source'[t] = source[t]
        /\ source'[s].inbox = <<>> /\ source'[s].state # "open"
    <3>1. CASE source' = dropped
      BY <1>0, <3>1 DEF TypeOK, Sources
    <3>2. CASE source' = [dropped EXCEPT ![s] = Closed(@)]
      BY <1>0, <3>2 DEF TypeOK, Sources, Closed
    <3> QED
      BY <2>2, <3>1, <3>2
  <2> QED
    BY <1>8, <2>1, <2>3, DropShows DEF OnErrorConnecting
<1>9. ASSUME NEW s \in Slots, OnCloseEvent(s) PROVE ShownOK'
  <2>1. Live(s)
    BY <1>9 DEF OnCloseEvent, Live
  <2>2. /\ \A t \in Slots \ {s} : source'[t] = source[t]
        /\ source'[s].inbox = <<>> /\ source'[s].state # "open"
    BY <1>0, <1>9 DEF OnCloseEvent, Closed, Sources, TypeOK
  <2> QED
    BY <1>9, <2>1, <2>2, DropShows DEF OnCloseEvent
<1>10. ASSUME NEW s \in Slots, OnErrorClosed(s) PROVE ShownOK'
  <2> DEFINE failed == [source EXCEPT ![s] = Closed(@)]
             r == NextRetry(source[s].retry)
  <2>1. source[s].state = "connecting" /\ source[s].inbox = <<>> /\ data[source[s].elt] = s
    BY <1>7, <1>10, <1>q DEF OnErrorClosed, Live
  <2>2. \/ source' = [failed EXCEPT ![s] = Closed(@)]
        \/ source' = [failed EXCEPT ![s].retry = r]
    BY <1>10, <2>1 DEF OnErrorClosed
  <2>3. /\ failed \in [Slots -> Sources]
        /\ failed[s].inbox = <<>> /\ failed[s].state = "closed"
        /\ \A t \in Slots \ {s} : failed[t] = source[t]
    <3>1. failed \in [Slots -> Sources]
      BY ClosingType DEF TypeOK
    <3>2. failed[s] = Closed(source[s]) /\ \A t \in Slots \ {s} : failed[t] = source[t]
      BY DEF TypeOK
    <3>3. Closed(source[s]).inbox = <<>> /\ Closed(source[s]).state = "closed"
      BY <1>0 DEF Closed, Sources
    <3> QED
      BY <3>1, <3>2, <3>3
  <2> HIDE DEF failed, r
  <2>4. /\ \A t \in Slots \ {s} : source'[t] = source[t]
        /\ source'[s].inbox = <<>>
    <3>1. failed[s] \in Sources
      BY <2>3
    <3>2. CASE source' = [failed EXCEPT ![s] = Closed(@)]
      BY <2>3, <3>1, <3>2 DEF Sources, Closed
    <3>3. CASE source' = [failed EXCEPT ![s].retry = r]
      BY <2>3, <3>1, <3>3 DEF Sources
    <3> QED
      BY <2>2, <3>2, <3>3
  <2>5. /\ place' = place /\ data' = data /\ got' = got /\ missed' = missed
        /\ published' = published
    BY <1>10 DEF OnErrorClosed
  <2>6. \A t \in Slots : source'[t].inbox = source[t].inbox
    BY <2>1, <2>4
  <2>7. \A t \in Slots : source'[t].state # "open" => source'[t].inbox = <<>>
    BY <1>q, <2>4
  <2>8. \A e \in Elements : Waiting(e)' = Waiting(e)
    BY <1>0, <2>5, <2>6 DEF Waiting
  <2> QED
    BY <1>0, <2>5, <2>7, <2>8, StillShows
<1>11. CASE UNCHANGED vars
  BY <1>11, <1>q, StillShows DEF vars, Waiting
<1> QED
  BY <1>1, <1>3, <1>4, <1>5, <1>6, <1>8, <1>9, <1>10, <1>11, MessageShows, PublishShows DEF Next

(* ShownOK answers PageShowsStream.                                        *)
LEMMA ShownMeans == TypeOK /\ ShownOK => PageShowsStream
<1> SUFFICES ASSUME TypeOK, ShownOK, NEW e \in Connects \cap Swappers, InBody(e)
             PROVE  LET waiting == IF data[e] = NoSource THEN {}
                                                         ELSE Values(source[data[e]].inbox)
                        shown   == got[<<e, "swap">>]
                    IN /\ Values(shown) = (1..published) \ (missed[e] \cup waiting)
                       /\ \A i, j \in DOMAIN shown : i < j => shown[i] < shown[j]
  BY DEF PageShowsStream
<1>0. e \in Elements /\ <<e, "swap">> \in Listeners
  BY ElementsAssumption, SwapListener
<1> DEFINE shown == got[<<e, "swap">>]
           waiting == IF data[e] = NoSource THEN {} ELSE Values(source[data[e]].inbox)
<1>1. Shows(shown, Waiting(e), missed[e], published)
  BY DEF ShownOK, InBody
<1>2. waiting = Values(Waiting(e))
  BY DEF Waiting, Values
<1>3. shown \in Seq(Nat) /\ Waiting(e) \in Seq(Nat)
  BY <1>0, Numbers
<1> HIDE DEF shown, waiting
<1>4. Values(shown) \cap Values(Waiting(e)) = {}
  <2>1. \A i \in DOMAIN shown, j \in DOMAIN Waiting(e) :
           shown[i] \in Nat /\ Waiting(e)[j] \in Nat /\ shown[i] < Waiting(e)[j]
    BY <1>1, <1>3 DEF Shows
  <2>2. \A i \in DOMAIN shown, j \in DOMAIN Waiting(e) : shown[i] # Waiting(e)[j]
    BY <2>1
  <2> QED
    BY <2>2 DEF Values
<1>5. Values(shown) = (1..published) \ (missed[e] \cup waiting)
  BY <1>1, <1>2, <1>4 DEF Shows
<1>6. \A i, j \in DOMAIN shown : i < j => shown[i] < shown[j]
  BY <1>1 DEF Shows, Increasing
<1> QED
  BY <1>5, <1>6 DEF shown, waiting

(* The chat page swaps in every message sent, in order and once, but for   *)
(* those sent while its connection was down or lost on their way when it   *)
(* broke: on any page, through any number of failures, for any number of   *)
(* messages.                                                               *)
THEOREM StreamShown == Spec => []PageShowsStream
<1>1. Init => ShownOK
  BY InitShown
<1>2. (TypeOK /\ Connections /\ PageOK /\ ListenOK) /\ ShownOK /\ [Next]_vars => ShownOK'
  BY NextShown
<1>3. TypeOK /\ ShownOK => PageShowsStream
  BY ShownMeans
<1> QED
  BY <1>1, <1>2, <1>3, SpecListen, PTL DEF Spec
=============================================================================
