----------------------------- MODULE HubProofs -----------------------------
(***************************************************************************)
(* Proofs about the hub, for any sets of connections and senders and any   *)
(* channel capacities: types, control, that it implements the              *)
(* publish/subscribe topic, and what the topic and its streams contain.    *)
(***************************************************************************)
EXTENDS Hub, TLAPS

(* TypeOK is not inductive: what the loop holds in peer and frame, and the *)
(* id a request holds, depend on where each goroutine is.                  *)
ControlOK ==
    /\ run \in {"joined", "removing", "left"} => peer \in Clients
    /\ run = "removing" => pump[peer] \in {"closing", "closed"}
    /\ run = "deliver" => frame \in Frames /\ todo \subseteq subscribers
    /\ \A w \in Senders : handler[w] = "saved" => msgId[w] \in 1..MaxMessages

(* A pump is in the map from the moment the loop receives it until the     *)
(* loop deletes it, and only the one being deleted may have closed send.   *)
SubscribedOK ==
    \A s \in Clients :
        s \in subscribers <=>
            \/ pump[s] \in {"select", "writing", "leaving"}
            \/ run = "removing" /\ peer = s /\ pump[s] \in {"closing", "closed"}

IInv == TypeOK /\ ControlOK /\ SubscribedOK

-----------------------------------------------------------------------------
(* Lemmas on the values the channels carry.                                *)

(* What SendMessage puts on broadcast is an item.                          *)
LEMMA MessageType == \A w \in Senders, n \in 1..MaxMessages : Message(w, n) \in Items
BY DEF Message, Items

(* What broadcastEvent puts on broadcast is an item.                       *)
LEMMA EventType == \A k \in {"join", "leave"}, s \in Clients : Event(k, s) \in Items
BY DEF Event, Items

(* What the fan-out puts on a subscriber's channel is a frame.             *)
LEMMA FrameForType ==
    ASSUME frame \in Frames, BoundsAssumption
    PROVE  \A s \in Clients : FrameFor(s) \in Frames
BY DEF FrameFor, Frames, BoundsAssumption

-----------------------------------------------------------------------------
(* The initial state satisfies the inductive invariant.                    *)
LEMMA InitIInv == Init => IInv
<1> SUFFICES ASSUME Init PROVE IInv
  OBVIOUS
<1> USE ClientsAssumption, BoundsAssumption, CapAssumption
<1>1. /\ broadcast \in Seq(Items) /\ Len(broadcast) <= BroadcastCap
      /\ log \in Seq(Items)
  BY DEF Init
<1>2. /\ send \in [Clients -> Seq(Frames)] /\ out \in [Clients -> Seq(Frames)]
      /\ \A s \in Clients : Len(send[s]) <= SendCap
  BY DEF Init
<1>3. /\ pump \in [Clients -> PumpStates] /\ handler \in [Senders -> HandlerStates]
      /\ msgId \in [Senders -> 0..MaxMessages] /\ regAt \in [Clients -> Nat]
  BY DEF Init, PumpStates, HandlerStates
<1>4. ctxDone \in [Clients -> BOOLEAN] /\ dropped \in [Clients -> SUBSET Items]
  BY DEF Init
<1>5. /\ subscribers \subseteq Clients /\ run \in RunStates /\ todo \subseteq Clients
      /\ peer \in Clients \cup {NoClient} /\ frame \in Frames \cup {NoFrame}
  BY DEF Init, RunStates
<1>6. lastMsg \in 0..MaxMessages /\ lastId \in 0..MaxMessages
  BY DEF Init
<1>7. stop \in BOOLEAN /\ eventLost \in BOOLEAN
  BY DEF Init
<1>8. TypeOK
  BY <1>1, <1>2, <1>3, <1>4, <1>5, <1>6, <1>7 DEF TypeOK
<1>9. ControlOK /\ SubscribedOK
  BY DEF Init, ControlOK, SubscribedOK
<1> QED BY <1>8, <1>9 DEF IInv

(* Every step of every goroutine preserves it.                             *)
LEMMA NextIInv == IInv /\ [Next]_vars => IInv'
<1> SUFFICES ASSUME IInv, [Next]_vars PROVE IInv'
  OBVIOUS
<1> USE ClientsAssumption, BoundsAssumption, CapAssumption
        DEF IInv, RunStates, PumpStates, HandlerStates
<1>1. ASSUME NEW s \in Clients, RunRegister(s) PROVE IInv'
  <2>1. TypeOK'
    BY <1>1 DEF TypeOK, RunRegister, handlerVars
  <2>2. ControlOK'
    BY <1>1 DEF TypeOK, ControlOK, RunRegister, handlerVars
  <2>3. SubscribedOK'
    BY <1>1 DEF TypeOK, SubscribedOK, RunRegister, handlerVars
  <2> QED BY <2>1, <2>2, <2>3
<1>2. ASSUME NEW s \in Clients, RunUnregister(s) PROVE IInv'
  <2>1. TypeOK'
    BY <1>2 DEF TypeOK, RunUnregister, handlerVars, histVars
  <2>2. ControlOK'
    BY <1>2 DEF TypeOK, ControlOK, RunUnregister, handlerVars, histVars
  <2>3. SubscribedOK'
    BY <1>2 DEF TypeOK, SubscribedOK, RunUnregister, handlerVars, histVars
  <2> QED BY <2>1, <2>2, <2>3
<1>3. ASSUME NEW s \in Clients, HandleSSEStream(s) PROVE IInv'
  <2>1. TypeOK'
    BY <1>3 DEF TypeOK, HandleSSEStream, hubVars, handlerVars, histVars
  <2>2. ControlOK'
    BY <1>3
       DEF TypeOK, ControlOK, HandleSSEStream, hubVars, handlerVars, histVars
  <2>3. SubscribedOK'
    BY <1>3
       DEF TypeOK, SubscribedOK, HandleSSEStream, hubVars, handlerVars,
           histVars
  <2> QED BY <2>1, <2>2, <2>3
<1>4. ASSUME NEW s \in Clients, Disconnect(s) PROVE IInv'
  <2>1. TypeOK'
    BY <1>4 DEF TypeOK, Disconnect, hubVars, handlerVars, histVars
  <2>2. ControlOK'
    BY <1>4 DEF TypeOK, ControlOK, Disconnect, hubVars, handlerVars, histVars
  <2>3. SubscribedOK'
    BY <1>4
       DEF TypeOK, SubscribedOK, Disconnect, hubVars, handlerVars, histVars
  <2> QED BY <2>1, <2>2, <2>3
<1>5. ASSUME NEW s \in Clients, PumpDone(s) PROVE IInv'
  <2>1. TypeOK'
    BY <1>5 DEF TypeOK, PumpDone, hubVars, handlerVars, histVars
  <2>2. ControlOK'
    BY <1>5 DEF TypeOK, ControlOK, PumpDone, hubVars, handlerVars, histVars
  <2>3. SubscribedOK'
    BY <1>5 DEF TypeOK, SubscribedOK, PumpDone, hubVars, handlerVars, histVars
  <2> QED BY <2>1, <2>2, <2>3
<1>6. ASSUME NEW s \in Clients, PumpTake(s) PROVE IInv'
  <2>1. TypeOK'
    BY <1>6 DEF TypeOK, PumpTake, hubVars, handlerVars, histVars
  <2>2. ControlOK'
    BY <1>6 DEF TypeOK, ControlOK, PumpTake, hubVars, handlerVars, histVars
  <2>3. SubscribedOK'
    BY <1>6 DEF TypeOK, SubscribedOK, PumpTake, hubVars, handlerVars, histVars
  <2> QED BY <2>1, <2>2, <2>3
<1>7. ASSUME NEW s \in Clients, PumpWritten(s) PROVE IInv'
  <2>1. TypeOK'
    BY <1>7 DEF TypeOK, PumpWritten, hubVars, handlerVars, histVars
  <2>2. ControlOK'
    BY <1>7 DEF TypeOK, ControlOK, PumpWritten, hubVars, handlerVars, histVars
  <2>3. SubscribedOK'
    BY <1>7
       DEF TypeOK, SubscribedOK, PumpWritten, hubVars, handlerVars, histVars
  <2> QED BY <2>1, <2>2, <2>3
<1>8. ASSUME NEW s \in Clients, PumpWriteFail(s) PROVE IInv'
  <2>1. TypeOK'
    BY <1>8 DEF TypeOK, PumpWriteFail, hubVars, handlerVars, histVars
  <2>2. ControlOK'
    BY <1>8
       DEF TypeOK, ControlOK, PumpWriteFail, hubVars, handlerVars, histVars
  <2>3. SubscribedOK'
    BY <1>8
       DEF TypeOK, SubscribedOK, PumpWriteFail, hubVars, handlerVars, histVars
  <2> QED BY <2>1, <2>2, <2>3
<1>9. ASSUME NEW s \in Clients, PumpClose(s) PROVE IInv'
  <2>1. TypeOK'
    BY <1>9 DEF TypeOK, PumpClose, hubVars, handlerVars, histVars
  <2>2. ControlOK'
    BY <1>9 DEF TypeOK, ControlOK, PumpClose, hubVars, handlerVars, histVars
  <2>3. SubscribedOK'
    BY <1>9 DEF TypeOK, SubscribedOK, PumpClose, hubVars, handlerVars, histVars
  <2> QED BY <2>1, <2>2, <2>3
<1>10. CASE RunRemove
  <2>1. TypeOK'
    BY <1>10 DEF TypeOK, RunRemove, pumpVars, handlerVars, histVars
  <2>2. ControlOK'
    BY <1>10 DEF TypeOK, ControlOK, RunRemove, pumpVars, handlerVars, histVars
  <2>3. SubscribedOK'
    BY <1>10
       DEF TypeOK, ControlOK, SubscribedOK, RunRemove, pumpVars, handlerVars,
           histVars
  <2> QED BY <2>1, <2>2, <2>3
<1>11. CASE BroadcastEvent
  <2>1. TypeOK'
    <3> DEFINE e == Event(IF run = "joined" THEN "join" ELSE "leave", peer)
    <3>1. e \in Items
      BY <1>11, EventType DEF BroadcastEvent, ControlOK
    <3> HIDE DEF e
    <3>2. OfferEvent(e)
      BY <1>11 DEF BroadcastEvent, e
    <3>3. broadcast' \in Seq(Items) /\ Len(broadcast') <= BroadcastCap
      <4>1. \/ broadcast' = broadcast
            \/ Len(broadcast) < BroadcastCap /\ broadcast' = Append(broadcast, e)
        BY <3>2, Zenon DEF OfferEvent
      <4>2. broadcast \in Seq(Items) /\ Len(broadcast) <= BroadcastCap
        BY  DEF TypeOK
      <4> QED BY <3>1, <4>1, <4>2
    <3>4. eventLost' \in BOOLEAN
      BY <3>2 DEF OfferEvent, TypeOK
    <3> QED
      BY <1>11, <3>3, <3>4 DEF TypeOK, BroadcastEvent, pumpVars, handlerVars
  <2>2. ControlOK'
    BY <1>11 DEF TypeOK, ControlOK, BroadcastEvent, pumpVars, handlerVars
  <2>3. SubscribedOK'
    BY <1>11 DEF TypeOK, SubscribedOK, BroadcastEvent, pumpVars, handlerVars
  <2> QED BY <2>1, <2>2, <2>3
<1>12. CASE RunTake
  <2>1. TypeOK'
    <3>1. /\ Head(broadcast) \in Items /\ Tail(broadcast) \in Seq(Items)
          /\ Len(Tail(broadcast)) <= BroadcastCap
      BY <1>12 DEF RunTake, TypeOK
    <3>2. Head(broadcast).kind = "message" => Head(broadcast).id \in 0..MaxMessages
      BY <3>1 DEF Items
    <3>3. lastMsg' \in 0..MaxMessages /\ log' \in Seq(Items)
      BY <1>12, <3>1, <3>2 DEF RunTake, TypeOK
    <3>4. frame' \in Frames
      BY <1>12, <3>1 DEF RunTake, TypeOK, Frames
    <3> QED
      BY <1>12, <3>1, <3>3, <3>4 DEF TypeOK, RunTake, pumpVars, handlerVars
  <2>2. ControlOK'
    <3>1. Head(broadcast) \in Items
      BY <1>12 DEF RunTake, TypeOK
    <3>2. frame' \in Frames
      BY <1>12, <3>1 DEF RunTake, TypeOK, Frames
    <3> QED
      BY <1>12, <3>2 DEF ControlOK, RunTake, pumpVars, handlerVars
  <2>3. SubscribedOK'
    BY <1>12 DEF TypeOK, SubscribedOK, RunTake, pumpVars, handlerVars
  <2> QED BY <2>1, <2>2, <2>3
<1>13. ASSUME NEW s \in Clients, RunDeliver(s) PROVE IInv'
  <2>1. TypeOK'
    <3>1. frame \in Frames /\ FrameFor(s) \in Frames /\ frame.item \in Items
      BY <1>13, FrameForType DEF RunDeliver, ControlOK, Frames
    <3>2. dropped' \in [Clients -> SUBSET Items]
      <4>1. dropped' \in {dropped, [dropped EXCEPT ![s] = dropped[s] \cup {frame.item}]}
        BY <1>13 DEF RunDeliver
      <4>2. dropped \in [Clients -> SUBSET Items]
        BY  DEF TypeOK
      <4> QED BY <3>1, <4>1, <4>2
    <3>3. /\ send' \in [Clients -> Seq(Frames)]
          /\ \A q \in Clients : Len(send'[q]) <= SendCap
      <4>1. CASE pump[s] # "closed" /\ Len(send[s]) < SendCap
        <5>1. send' = [send EXCEPT ![s] = Append(send[s], FrameFor(s))]
          BY <1>13, <4>1 DEF RunDeliver
        <5>2. /\ Append(send[s], FrameFor(s)) \in Seq(Frames)
              /\ Len(Append(send[s], FrameFor(s))) <= SendCap
          BY <3>1, <4>1 DEF TypeOK
        <5> QED BY <5>1, <5>2 DEF TypeOK
      <4>2. CASE ~(pump[s] # "closed" /\ Len(send[s]) < SendCap)
        BY <1>13, <4>2 DEF RunDeliver, TypeOK
      <4> QED BY <4>1, <4>2
    <3> QED
      BY <1>13, <3>2, <3>3 DEF TypeOK, RunDeliver, handlerVars
  <2>2. ControlOK'
    BY <1>13 DEF TypeOK, ControlOK, RunDeliver, handlerVars
  <2>3. SubscribedOK'
    BY <1>13 DEF TypeOK, SubscribedOK, RunDeliver, handlerVars
  <2> QED BY <2>1, <2>2, <2>3
<1>14. CASE RunDone
  <2>1. TypeOK'
    BY <1>14 DEF TypeOK, RunDone, pumpVars, handlerVars, histVars
  <2>2. ControlOK'
    BY <1>14 DEF TypeOK, ControlOK, RunDone, pumpVars, handlerVars, histVars
  <2>3. SubscribedOK'
    BY <1>14 DEF TypeOK, SubscribedOK, RunDone, pumpVars, handlerVars, histVars
  <2> QED BY <2>1, <2>2, <2>3
<1>15. CASE RunStop
  <2>1. TypeOK'
    BY <1>15 DEF TypeOK, RunStop, pumpVars, handlerVars, histVars
  <2>2. ControlOK'
    BY <1>15 DEF TypeOK, ControlOK, RunStop, pumpVars, handlerVars, histVars
  <2>3. SubscribedOK'
    BY <1>15 DEF TypeOK, SubscribedOK, RunStop, pumpVars, handlerVars, histVars
  <2> QED BY <2>1, <2>2, <2>3
<1>16. CASE Stop
  <2>1. TypeOK'
    BY <1>16 DEF TypeOK, Stop, pumpVars, handlerVars, histVars
  <2>2. ControlOK'
    BY <1>16 DEF TypeOK, ControlOK, Stop, pumpVars, handlerVars, histVars
  <2>3. SubscribedOK'
    BY <1>16 DEF TypeOK, SubscribedOK, Stop, pumpVars, handlerVars, histVars
  <2> QED BY <2>1, <2>2, <2>3
<1>17. ASSUME NEW w \in Senders, Save(w) PROVE IInv'
  <2>1. TypeOK'
    BY <1>17 DEF TypeOK, Save, hubVars, pumpVars, histVars
  <2>2. ControlOK'
    BY <1>17 DEF TypeOK, ControlOK, Save, hubVars, pumpVars, histVars
  <2>3. SubscribedOK'
    BY <1>17 DEF TypeOK, SubscribedOK, Save, hubVars, pumpVars, histVars
  <2> QED BY <2>1, <2>2, <2>3
<1>18. ASSUME NEW w \in Senders, BroadcastMessage(w) PROVE IInv'
  <2>1. TypeOK'
    <3>1. Message(w, msgId[w]) \in Items
      BY <1>18, MessageType DEF BroadcastMessage, ControlOK
    <3>2. broadcast' \in Seq(Items) /\ Len(broadcast') <= BroadcastCap
      BY <1>18, <3>1 DEF BroadcastMessage, TypeOK
    <3> QED
      BY <1>18, <3>2 DEF TypeOK, BroadcastMessage, hubVars, pumpVars, histVars
  <2>2. ControlOK'
    BY <1>18
       DEF TypeOK, ControlOK, BroadcastMessage, hubVars, pumpVars, histVars
  <2>3. SubscribedOK'
    BY <1>18
       DEF TypeOK, SubscribedOK, BroadcastMessage, hubVars, pumpVars, histVars
  <2> QED BY <2>1, <2>2, <2>3
<1>19. CASE UNCHANGED vars
  BY <1>19
     DEF TypeOK, ControlOK, SubscribedOK, vars, hubVars, pumpVars, handlerVars,
         histVars
<1> QED
  BY <1>1, <1>2, <1>3, <1>4, <1>5, <1>6, <1>7, <1>8, <1>9, <1>10, <1>11, <1>12, <1>13, <1>14, <1>15, <1>16, <1>17, <1>18, <1>19
     DEF Next, RunInternal, PumpStep

(* Every reachable state satisfies the inductive invariant.                *)
THEOREM SpecIInv == Spec => []IInv
<1>1. Init => IInv
  BY InitIInv
<1>2. IInv /\ [Next]_vars => IInv'
  BY NextIInv
<1> QED
  BY <1>1, <1>2, PTL DEF Spec

(* Type correctness of the hub: in particular Hub.broadcast and every      *)
(* Subscriber.send stay within their capacities whatever the interleaving. *)
THEOREM TypeCorrect == Spec => []TypeOK
<1>1. IInv => TypeOK
  BY DEF IInv
<1> QED
  BY <1>1, SpecIInv, PTL

(* The fan-out of Hub.Run never sends on a channel that writePump closed.  *)
THEOREM NoPanic == Spec => []NoSendOnClosedChannel
<1>1. IInv => NoSendOnClosedChannel
  BY DEF IInv, TypeOK, ControlOK, SubscribedOK, NoSendOnClosedChannel
<1> QED
  BY <1>1, SpecIInv, PTL

-----------------------------------------------------------------------------
(* Lemmas on queues.                                                       *)

(* Moving the head of one queue to the end of another changes nothing in   *)
(* the two taken together.                                                 *)
LEMMA MoveHead ==
    ASSUME NEW S, NEW q \in Seq(S), NEW r \in Seq(S), r # <<>>
    PROVE  Append(q, Head(r)) \o Tail(r) = q \o r
OBVIOUS

(* Appending to the second of two queues appends to the two together.      *)
LEMMA AppendLater ==
    ASSUME NEW S, NEW q \in Seq(S), NEW r \in Seq(S), NEW e \in S
    PROVE  q \o Append(r, e) = Append(q \o r, e)
OBVIOUS

(* The items of a stream with one more frame. *)
LEMMA ItemsOfAppend ==
    ASSUME NEW q \in Seq(Frames), NEW f \in Frames
    PROVE  ItemsOf(Append(q, f)) = Append(ItemsOf(q), f.item)
<1>1. \A i \in 1..Len(q) : q[i] \in Frames
  OBVIOUS
<1>2. \A i \in 1..Len(q) : q[i].item \in Items
  BY <1>1 DEF Frames
<1>3. ItemsOf(q) \in Seq(Items) /\ Len(ItemsOf(q)) = Len(q)
  BY <1>2 DEF ItemsOf
<1>4. f.item \in Items
  BY DEF Frames
<1> QED
  BY <1>3, <1>4 DEF ItemsOf

-----------------------------------------------------------------------------
(* What the Run loop holds on its way through a case of its select, and    *)
(* what a request holds before its message is saved.                       *)
HeldOK ==
    /\ run = "joined" => peer \in subscribers
    /\ run = "left" => peer \notin subscribers
    /\ run = "deliver" => log # <<>> /\ frame.item = log[Len(log)]
    /\ \A w \in Senders : handler[w] = "idle" => msgId[w] = 0

(* It holds initially. *)
LEMMA InitHeldOK == Init => HeldOK
BY DEF Init, HeldOK

(* Every step preserves it. *)
LEMMA NextHeldOK == IInv /\ HeldOK /\ [Next]_vars => HeldOK'
<1> SUFFICES ASSUME IInv, HeldOK, [Next]_vars PROVE HeldOK'
  OBVIOUS
<1> USE DEF HeldOK
<1>1. ASSUME NEW s \in Clients, RunRegister(s) PROVE HeldOK'
  BY <1>1 DEF RunRegister, handlerVars
<1>2. ASSUME NEW s \in Clients, RunUnregister(s) PROVE HeldOK'
  BY <1>2 DEF RunUnregister, handlerVars, histVars
<1>3. ASSUME NEW s \in Clients, PumpStep(s) PROVE HeldOK'
  BY <1>3 DEF PumpStep, HandleSSEStream, Disconnect, PumpDone, PumpTake, PumpWritten,
              PumpWriteFail, PumpClose, hubVars, handlerVars, histVars
<1>4. CASE RunRemove
  BY <1>4 DEF RunRemove, pumpVars, handlerVars, histVars
<1>5. CASE BroadcastEvent
  BY <1>5 DEF BroadcastEvent, pumpVars, handlerVars
<1>6. CASE RunTake
  <2>1. log \in Seq(Items) /\ broadcast \in Seq(Items) /\ broadcast # <<>>
    BY <1>6 DEF IInv, TypeOK, RunTake
  <2>2. Head(broadcast) \in Items
    BY <2>1
  <2>3. log' # <<>> /\ log'[Len(log')] = Head(broadcast)
    BY <1>6, <2>1, <2>2 DEF RunTake
  <2>4. frame'.item = Head(broadcast) /\ run' = "deliver"
    BY <1>6 DEF RunTake
  <2> QED
    BY <1>6, <2>3, <2>4 DEF RunTake, pumpVars, handlerVars
<1>7. ASSUME NEW s \in Clients, RunDeliver(s) PROVE HeldOK'
  BY <1>7 DEF RunDeliver, handlerVars
<1>8. CASE RunDone \/ RunStop \/ Stop
  BY <1>8 DEF RunDone, RunStop, Stop, pumpVars, handlerVars, histVars
<1>9. ASSUME NEW w \in Senders, Save(w) \/ BroadcastMessage(w) PROVE HeldOK'
  BY <1>9 DEF IInv, TypeOK, Save, BroadcastMessage, hubVars, pumpVars, histVars
<1>10. CASE UNCHANGED vars
  BY <1>10 DEF vars, hubVars, pumpVars, handlerVars, histVars
<1> QED
  BY <1>1, <1>2, <1>3, <1>4, <1>5, <1>6, <1>7, <1>8, <1>9, <1>10 DEF Next, RunInternal

(* It holds in every reachable state. *)
LEMMA SpecHeldOK == Spec => [](IInv /\ HeldOK)
<1>1. Init => IInv /\ HeldOK
  BY InitIInv, InitHeldOK
<1>2. IInv /\ HeldOK /\ [Next]_vars => IInv' /\ HeldOK'
  BY NextIInv, NextHeldOK
<1> QED
  BY <1>1, <1>2, PTL DEF Spec

-----------------------------------------------------------------------------
(* The refinement.                                                         *)
Cursors == [s \in Clients |-> Served(s)]
Inboxes == [s \in Clients |-> ItemsOf(Stream(s))]

(* The hub starts as the topic does. *)
LEMMA InitTopic == Init => PublishSubscribe!Init
<1> SUFFICES ASSUME Init PROVE PublishSubscribe!Init
  OBVIOUS
<1>1. Broadcasted = <<>>
  BY DEF Init, Broadcasted
<1>2. \A s \in Clients : Served(s) = 0 /\ ItemsOf(Stream(s)) = <<>>
  BY DEF Init, Served, ItemsOf, Stream
<1> QED
  BY <1>1, <1>2 DEF Init, PublishSubscribe!Init

(* A step that leaves the two queues together, the ids, the map and every  *)
(* connection's place and stream alone is a stutter of the topic.          *)
LEMMA Stutter ==
    ASSUME Broadcasted' = Broadcasted, UNCHANGED <<lastId, msgId, subscribers>>,
           \A s \in Clients : Served(s)' = Served(s) /\ ItemsOf(Stream(s))' = ItemsOf(Stream(s))
    PROVE  UNCHANGED PublishSubscribe!vars
<1>1. Cursors' = Cursors /\ Inboxes' = Inboxes
  BY DEF Cursors, Inboxes
<1> QED
  BY <1>1 DEF PublishSubscribe!vars, Cursors, Inboxes

(* Every step of the hub is a step of the topic, or none.                  *)
LEMMA NextTopic ==
    IInv /\ HeldOK /\ [Next]_vars => [PublishSubscribe!Next]_PublishSubscribe!vars
<1> SUFFICES ASSUME IInv, HeldOK, [Next]_vars
             PROVE  PublishSubscribe!Next \/ UNCHANGED PublishSubscribe!vars
  OBVIOUS
<1>types. /\ broadcast \in Seq(Items) /\ log \in Seq(Items)
          /\ \A s \in Clients : out[s] \in Seq(Frames) /\ send[s] \in Seq(Frames)
          /\ lastId \in Nat /\ subscribers \subseteq Clients
  BY BoundsAssumption DEF IInv, TypeOK
<1>1. ASSUME NEW s \in Clients, RunRegister(s) PROVE PublishSubscribe!Join(s)
  <2>1. s \notin subscribers /\ subscribers' = subscribers \cup {s}
    BY <1>1 DEF RunRegister, IInv, SubscribedOK
  <2>2. UNCHANGED <<Broadcasted, lastId, msgId, Inboxes>>
    BY <1>1 DEF RunRegister, Broadcasted, Inboxes, Stream, ItemsOf, handlerVars
  <2>3. Cursors' = [Cursors EXCEPT ![s] = Len(log)]
    BY <1>1, <2>1 DEF RunRegister, Cursors, Served
  <2>4. Len(log) \in 0..Len(Broadcasted)
    BY <1>types DEF Broadcasted
  <2> QED
    BY <2>1, <2>2, <2>3, <2>4 DEF PublishSubscribe!Join, Cursors, Inboxes
<1>2. ASSUME NEW s \in Clients, RunUnregister(s) PROVE UNCHANGED PublishSubscribe!vars
  BY <1>2, Stutter DEF RunUnregister, Broadcasted, Served, Stream, ItemsOf, handlerVars, histVars
<1>3. ASSUME NEW s \in Clients,
             \/ HandleSSEStream(s) \/ Disconnect(s) \/ PumpDone(s)
             \/ PumpWritten(s) \/ PumpWriteFail(s) \/ PumpClose(s)
      PROVE  UNCHANGED PublishSubscribe!vars
  BY <1>3, Stutter
     DEF HandleSSEStream, Disconnect, PumpDone, PumpWritten, PumpWriteFail, PumpClose,
         Broadcasted, Served, Stream, ItemsOf, hubVars, handlerVars, histVars
<1>4. ASSUME NEW s \in Clients, PumpTake(s) PROVE UNCHANGED PublishSubscribe!vars
  <2>1. \A q \in Clients : Stream(q)' = Stream(q)
    <3> SUFFICES ASSUME NEW q \in Clients PROVE Stream(q)' = Stream(q)
      OBVIOUS
    <3>1. CASE q = s
      <4>1. /\ send[s] # <<>> /\ send'[s] = Tail(send[s])
            /\ out'[s] = Append(out[s], Head(send[s]))
        BY <1>4 DEF PumpTake, IInv, TypeOK
      <4> QED
        BY <3>1, <4>1, <1>types, MoveHead DEF Stream
    <3>2. CASE q # s
      BY <3>2, <1>4 DEF PumpTake, Stream, IInv, TypeOK
    <3> QED
      BY <3>1, <3>2
  <2> QED
    BY <1>4, <2>1, Stutter DEF PumpTake, Broadcasted, Served, ItemsOf, hubVars, handlerVars, histVars
<1>5. CASE RunRemove
  <2>1. /\ run = "removing" /\ run' # "deliver" /\ peer \in Clients
        /\ subscribers' = subscribers \ {peer}
    BY <1>5 DEF RunRemove, IInv, ControlOK
  <2>2. UNCHANGED <<Broadcasted, lastId, msgId, Inboxes, log>>
    BY <1>5 DEF RunRemove, Broadcasted, Inboxes, Stream, ItemsOf, handlerVars, pumpVars, histVars
  <2>3. CASE peer \in subscribers
    <3>1. Cursors' = [Cursors EXCEPT ![peer] = 0]
      BY <2>1, <2>2 DEF Cursors, Served
    <3>2. PublishSubscribe!Leave(peer)
      BY <2>1, <2>2, <2>3, <3>1 DEF PublishSubscribe!Leave, Cursors, Inboxes
    <3> QED
      BY <2>1, <3>2 DEF PublishSubscribe!Next
  <2>4. CASE peer \notin subscribers
    BY <2>1, <2>2, <2>4 DEF PublishSubscribe!vars, Cursors, Inboxes, Served
  <2> QED
    BY <2>3, <2>4
<1>6. CASE BroadcastEvent
  <2> DEFINE e == Event(IF run = "joined" THEN "join" ELSE "leave", peer)
  <2>1. /\ run \in {"joined", "left"} /\ run' = "select" /\ peer \in Clients
        /\ UNCHANGED <<subscribers, log, lastId, msgId>> /\ OfferEvent(e)
    BY <1>6 DEF BroadcastEvent, IInv, ControlOK, handlerVars
  <2>2. UNCHANGED <<Inboxes, Cursors>>
    BY <1>6, <2>1 DEF BroadcastEvent, Inboxes, Cursors, Served, Stream, ItemsOf, pumpVars
  <2>3. e \in Items
    BY <2>1, EventType
  <2>4. e = PublishSubscribe!Notice(IF peer \in subscribers THEN "join" ELSE "leave", peer)
    BY <2>1 DEF HeldOK, Event, PublishSubscribe!Notice
  <2> HIDE DEF e
  <2>5. CASE broadcast' = Append(broadcast, e)
    <3>1. Broadcasted' = Append(Broadcasted, e)
      BY <1>types, <2>1, <2>3, <2>5, AppendLater DEF Broadcasted
    <3>2. PublishSubscribe!Announce(peer)
      BY <2>1, <2>2, <2>4, <3>1 DEF PublishSubscribe!Announce, Cursors, Inboxes
    <3> QED
      BY <2>1, <3>2 DEF PublishSubscribe!Next
  <2>6. CASE broadcast' = broadcast
    BY <2>1, <2>2, <2>6 DEF PublishSubscribe!vars, Broadcasted, Cursors, Inboxes
  <2> QED
    BY <2>1, <2>5, <2>6 DEF OfferEvent
<1>7. CASE RunTake
  <2>1. /\ run = "select" /\ run' = "deliver" /\ broadcast # <<>>
        /\ broadcast' = Tail(broadcast) /\ log' = Append(log, Head(broadcast))
        /\ todo' = subscribers /\ UNCHANGED <<subscribers, lastId, msgId>>
    BY <1>7 DEF RunTake, handlerVars
  <2>2. Broadcasted' = Broadcasted
    BY <2>1, <1>types, MoveHead DEF Broadcasted
  <2>3. Len(log') - 1 = Len(log)
    BY <2>1, <1>types
  <2>4. \A s \in Clients : Served(s)' = Served(s)
    BY <2>1, <2>3 DEF Served
  <2>5. \A s \in Clients : ItemsOf(Stream(s))' = ItemsOf(Stream(s))
    BY <1>7 DEF RunTake, Stream, ItemsOf, pumpVars
  <2> QED
    BY <2>1, <2>2, <2>4, <2>5, Stutter
<1>8. ASSUME NEW s \in Clients, RunDeliver(s) PROVE PublishSubscribe!Serve(s)
  <2>1. /\ run = "deliver" /\ run' = run /\ s \in todo /\ todo' = todo \ {s}
        /\ UNCHANGED <<subscribers, log, broadcast, out, lastId, msgId>>
        /\ s \in subscribers
    BY <1>8 DEF RunDeliver, IInv, ControlOK, handlerVars
  <2>2. /\ Len(log) \in Nat \ {0} /\ frame.item = log[Len(log)]
    BY <2>1, <1>types DEF HeldOK
  <2>3. /\ Served(s) < Len(Broadcasted)
        /\ frame.item = Broadcasted[Served(s) + 1]
    BY <2>1, <2>2, <1>types DEF Served, Broadcasted
  <2>4. Cursors' = [Cursors EXCEPT ![s] = Served(s) + 1]
    <3>1. Served(s) + 1 = Len(log) /\ Served(s)' = Len(log)
      BY <2>1, <2>2 DEF Served
    <3>2. \A q \in Clients \ {s} : Served(q)' = Served(q)
      BY <2>1 DEF Served
    <3> QED
      BY <3>1, <3>2 DEF Cursors
  <2>5. \/ Inboxes' = [Inboxes EXCEPT ![s] = Append(ItemsOf(Stream(s)), frame.item)]
        \/ Inboxes' = Inboxes
    <3>1. CASE send' = [send EXCEPT ![s] = Append(send[s], FrameFor(s))]
      <4>1. FrameFor(s) \in Frames /\ FrameFor(s).item = frame.item
        BY <2>1, FrameForType, BoundsAssumption DEF IInv, ControlOK, FrameFor
      <4>2. Stream(s)' = Append(Stream(s), FrameFor(s))
        BY <2>1, <3>1, <4>1, <1>types, AppendLater DEF Stream, IInv, TypeOK
      <4>3. Stream(s) \in Seq(Frames)
        BY <1>types DEF Stream
      <4>4. ItemsOf(Append(Stream(s), FrameFor(s))) = Append(ItemsOf(Stream(s)), frame.item)
        BY <4>1, <4>3, ItemsOfAppend
      <4>5. ItemsOf(Stream(s))' = Append(ItemsOf(Stream(s)), frame.item)
        BY <4>2, <4>4 DEF ItemsOf
      <4>6. \A q \in Clients \ {s} : ItemsOf(Stream(q))' = ItemsOf(Stream(q))
        BY <2>1, <3>1 DEF Stream, ItemsOf, IInv, TypeOK
      <4> QED
        BY <4>5, <4>6 DEF Inboxes
    <3>2. CASE send' = send
      BY <2>1, <3>2 DEF Inboxes, Stream, ItemsOf
    <3> QED
      BY <1>8, <3>1, <3>2 DEF RunDeliver
  <2>6. Cursors[s] = Served(s) /\ Inboxes[s] = ItemsOf(Stream(s)) /\ UNCHANGED Broadcasted
    BY <2>1 DEF Cursors, Inboxes, Broadcasted
  <2> QED
    BY <2>1, <2>3, <2>4, <2>5, <2>6 DEF PublishSubscribe!Serve, Cursors, Inboxes
<1>9. CASE RunDone
  BY <1>9, Stutter DEF RunDone, Broadcasted, Served, Stream, ItemsOf, pumpVars, handlerVars, histVars
<1>10. CASE RunStop \/ Stop
  BY <1>10, Stutter
     DEF RunStop, Stop, Broadcasted, Served, Stream, ItemsOf, pumpVars, handlerVars, histVars
<1>11. ASSUME NEW w \in Senders, Save(w) PROVE PublishSubscribe!Accept(w)
  <2>1. UNCHANGED <<Broadcasted, subscribers, Cursors, Inboxes>>
    BY <1>11 DEF Save, Broadcasted, Cursors, Inboxes, Served, Stream, ItemsOf, hubVars, pumpVars, histVars
  <2> QED
    BY <1>11, <2>1 DEF Save, HeldOK, PublishSubscribe!Accept, Cursors, Inboxes
<1>12. ASSUME NEW w \in Senders, BroadcastMessage(w) PROVE PublishSubscribe!Publish(w)
  <2>1. UNCHANGED <<lastId, subscribers, Cursors, Inboxes>>
    BY <1>12 DEF BroadcastMessage, Cursors, Inboxes, Served, Stream, ItemsOf, hubVars, pumpVars, histVars
  <2>2. msgId[w] \in 1..MaxMessages /\ Message(w, msgId[w]) \in Items
    BY <1>12, MessageType DEF BroadcastMessage, IInv, ControlOK
  <2>3. Broadcasted' = Append(Broadcasted, Message(w, msgId[w]))
    BY <1>12, <2>2, <1>types, AppendLater DEF BroadcastMessage, Broadcasted, histVars
  <2> QED
    BY <1>12, <2>1, <2>2, <2>3
       DEF BroadcastMessage, PublishSubscribe!Publish, PublishSubscribe!Post, Message, Cursors, Inboxes
<1>13. CASE UNCHANGED vars
  BY <1>13, Stutter
     DEF vars, Broadcasted, Served, Stream, ItemsOf, hubVars, pumpVars, handlerVars, histVars
<1> QED
  BY <1>1, <1>2, <1>3, <1>4, <1>5, <1>6, <1>7, <1>8, <1>9, <1>10, <1>11, <1>12, <1>13
     DEF Next, RunInternal, PumpStep, PublishSubscribe!Next

(* The hub implements the publish/subscribe topic: whatever goroutines,    *)
(* channels, full buffers, departures and shutdown do, each stream is a    *)
(* part of one common order, from the registration on, and each stored     *)
(* message enters that order once.                                         *)
THEOREM HubImplementsTopic == Spec => ImplementsTopic
<1>1. Init => PublishSubscribe!Init
  BY InitTopic
<1>2. IInv /\ HeldOK /\ [Next]_vars => [PublishSubscribe!Next]_PublishSubscribe!vars
  BY NextTopic
<1> QED
  BY <1>1, <1>2, SpecHeldOK, PTL DEF Spec, ImplementsTopic, PublishSubscribe!Spec

-----------------------------------------------------------------------------
(* What the topic and its streams contain.                                 *)

(* The ids of the requests that hold a message, against each other and     *)
(* against what has been broadcast.                                        *)
OwedOK ==
    \A w \in Senders : handler[w] = "saved" =>
        /\ msgId[w] \in 1..lastId
        /\ \A v \in Senders : handler[v] = "saved" /\ msgId[v] = msgId[w] => v = w
        /\ \A i \in DOMAIN Broadcasted : Broadcasted[i].kind = "message" =>
              /\ Broadcasted[i].id # msgId[w]
              /\ Broadcasted[i].from = w => Broadcasted[i].id < msgId[w]

(* The messages of the topic: no id is invented, lost or repeated, and     *)
(* those of one sender are in the order of their ids.                      *)
PostedOK ==
    /\ \A i \in DOMAIN Broadcasted :
          Broadcasted[i].kind = "message" => Broadcasted[i].id \in 1..lastId
    /\ \A n \in 1..lastId : Posted(n) \/ Owed(n)
    /\ \A i, j \in DOMAIN Broadcasted :
          Broadcasted[i].kind = "message" /\ Broadcasted[j].kind = "message" =>
            /\ Broadcasted[i].id = Broadcasted[j].id => i = j
            /\ i < j /\ Broadcasted[i].from = Broadcasted[j].from
                 => Broadcasted[i].id < Broadcasted[j].id

Messages == OwedOK /\ PostedOK

-----------------------------------------------------------------------------
(* The messages are in order initially. *)
LEMMA InitMessages == Init => Messages
<1> SUFFICES ASSUME Init PROVE Messages
  OBVIOUS
<1>1. Broadcasted = <<>> /\ lastId = 0 /\ \A w \in Senders : handler[w] # "saved"
  BY DEF Init, Broadcasted
<1> QED
  BY <1>1 DEF Messages, OwedOK, PostedOK

(* A step that leaves the topic and the requests alone preserves it. *)
LEMMA SameMessages ==
    ASSUME Messages, UNCHANGED <<Broadcasted, handler, msgId, lastId>>
    PROVE  Messages'
BY DEF Messages, OwedOK, PostedOK, Posted, Owed

(* Every step preserves it: a request takes a new id, gives its own to the *)
(* topic, or an event goes into the topic.                                 *)
LEMMA NextMessages == IInv /\ HeldOK /\ Messages /\ [Next]_vars => Messages'
<1> SUFFICES ASSUME IInv, HeldOK, Messages, [Next]_vars PROVE Messages'
  OBVIOUS
<1>types. /\ broadcast \in Seq(Items) /\ log \in Seq(Items) /\ Broadcasted \in Seq(Items)
          /\ lastId \in Nat
  BY BoundsAssumption DEF IInv, TypeOK, Broadcasted
<1>1. ASSUME NEW s \in Clients,
             RunRegister(s) \/ RunUnregister(s) \/ PumpStep(s) \/ RunDeliver(s)
      PROVE  Messages'
  BY <1>1, SameMessages
     DEF RunRegister, RunUnregister, PumpStep, RunDeliver, HandleSSEStream, Disconnect, PumpDone,
         PumpTake, PumpWritten, PumpWriteFail, PumpClose, Broadcasted, hubVars, handlerVars, histVars
<1>2. CASE RunRemove \/ RunDone \/ RunStop \/ Stop
  BY <1>2, SameMessages
     DEF RunRemove, RunDone, RunStop, Stop, Broadcasted, handlerVars, pumpVars, histVars
<1>3. CASE RunTake
  <2>1. /\ broadcast # <<>> /\ broadcast' = Tail(broadcast)
        /\ log' = Append(log, Head(broadcast)) /\ UNCHANGED <<handler, msgId, lastId>>
    BY <1>3 DEF RunTake, handlerVars
  <2>2. Broadcasted' = Broadcasted
    BY <2>1, <1>types, MoveHead DEF Broadcasted
  <2> QED
    BY <2>1, <2>2, SameMessages
<1>4. CASE BroadcastEvent
  <2> DEFINE e == Event(IF run = "joined" THEN "join" ELSE "leave", peer)
  <2>1. /\ run \in {"joined", "left"} /\ peer \in Clients
        /\ UNCHANGED <<log, handler, msgId, lastId>> /\ OfferEvent(e)
    BY <1>4 DEF BroadcastEvent, IInv, ControlOK, handlerVars
  <2>2. e \in Items /\ e.kind # "message"
    BY <2>1, EventType DEF Event
  <2> HIDE DEF e
  <2>3. CASE broadcast' = broadcast
    BY <2>1, <2>3, SameMessages DEF Broadcasted
  <2>4. CASE broadcast' = Append(broadcast, e)
    <3>1. Broadcasted' = Append(Broadcasted, e)
      BY <1>types, <2>1, <2>2, <2>4, AppendLater DEF Broadcasted
    <3>2. /\ DOMAIN Broadcasted' = DOMAIN Broadcasted \cup {Len(Broadcasted) + 1}
          /\ \A i \in DOMAIN Broadcasted : Broadcasted'[i] = Broadcasted[i]
          /\ Broadcasted'[Len(Broadcasted) + 1].kind # "message"
      BY <1>types, <2>2, <3>1
    <3>3. OwedOK'
      BY <2>1, <3>2 DEF Messages, OwedOK
    <3>4. PostedOK'
      BY <2>1, <3>2 DEF Messages, PostedOK, Posted, Owed
    <3> QED
      BY <3>3, <3>4 DEF Messages
  <2> QED
    BY <2>1, <2>3, <2>4 DEF OfferEvent
<1>5. ASSUME NEW w \in Senders, Save(w) PROVE Messages'
  <2>1. /\ Broadcasted' = Broadcasted /\ lastId' = lastId + 1
        /\ handler[w] = "idle"
        /\ \A v \in Senders \ {w} : handler'[v] = handler[v] /\ msgId'[v] = msgId[v]
        /\ handler'[w] = "saved" /\ msgId'[w] = lastId + 1
    BY <1>5 DEF Save, IInv, TypeOK, Broadcasted, hubVars, histVars
  <2>2. OwedOK'
    BY <2>1, <1>types DEF Messages, OwedOK, PostedOK
  <2>3. PostedOK'
    <3>1. \A n \in 1..lastId : (Posted(n) => Posted(n)') /\ (Owed(n) => Owed(n)')
      BY <2>1, Zenon DEF Posted, Owed
    <3>2. \A n : n = lastId + 1 => Owed(n)'
      BY <2>1 DEF Owed
    <3>3. \A n \in 1..lastId' : n \in 1..lastId \/ n = lastId + 1
      BY <2>1, <1>types
    <3>4. \A n \in 1..lastId' : Posted(n)' \/ Owed(n)'
      BY <3>1, <3>2, <3>3, Zenon DEF Messages, PostedOK
    <3> QED
      BY <2>1, <3>4, <1>types DEF Messages, PostedOK
  <2> QED
    BY <2>2, <2>3 DEF Messages
<1>6. ASSUME NEW w \in Senders, BroadcastMessage(w) PROVE Messages'
  <2> DEFINE m == Message(w, msgId[w])
  <2>1. /\ UNCHANGED <<log, lastId>> /\ broadcast' = Append(broadcast, m)
        /\ handler[w] = "saved" /\ handler'[w] = "idle"
        /\ \A v \in Senders \ {w} : handler'[v] = handler[v] /\ msgId'[v] = msgId[v]
    BY <1>6 DEF BroadcastMessage, IInv, TypeOK, histVars
  <2>2. m \in Items /\ m.kind = "message" /\ m.from = w /\ m.id = msgId[w] /\ m.id \in 1..lastId
    BY <2>1, MessageType DEF IInv, ControlOK, Message, Messages, OwedOK
  <2> HIDE DEF m
  <2>3. Broadcasted' = Append(Broadcasted, m)
    BY <1>types, <2>1, <2>2, AppendLater DEF Broadcasted
  <2>4. /\ DOMAIN Broadcasted' = DOMAIN Broadcasted \cup {Len(Broadcasted) + 1}
        /\ DOMAIN Broadcasted = 1..Len(Broadcasted) /\ Len(Broadcasted) \in Nat
        /\ \A i \in DOMAIN Broadcasted : Broadcasted'[i] = Broadcasted[i]
        /\ Broadcasted'[Len(Broadcasted) + 1] = m
    BY <1>types, <2>2, <2>3
  <2>5. OwedOK'
    BY <2>1, <2>2, <2>4 DEF Messages, OwedOK
  <2>6. PostedOK'
    <3>1. \A n \in 1..lastId : Posted(n)' \/ Owed(n)'
      <4> SUFFICES ASSUME NEW n \in 1..lastId PROVE Posted(n)' \/ Owed(n)'
        OBVIOUS
      <4>1. CASE Posted(n)
        BY <4>1, <2>4 DEF Posted
      <4>2. CASE n = msgId[w]
        BY <4>2, <2>2, <2>4 DEF Posted
      <4>3. CASE Owed(n) /\ n # msgId[w]
        BY <4>3, <2>1 DEF Owed
      <4> QED
        BY <4>1, <4>2, <4>3 DEF Messages, PostedOK
    <3>2. \A i, j \in DOMAIN Broadcasted' :
            Broadcasted'[i].kind = "message" /\ Broadcasted'[j].kind = "message" =>
              /\ Broadcasted'[i].id = Broadcasted'[j].id => i = j
              /\ i < j /\ Broadcasted'[i].from = Broadcasted'[j].from
                   => Broadcasted'[i].id < Broadcasted'[j].id
      BY <2>1, <2>2, <2>4 DEF Messages, OwedOK, PostedOK
    <3>3. \A i \in DOMAIN Broadcasted' :
            Broadcasted'[i].kind = "message" => Broadcasted'[i].id \in 1..lastId'
      BY <2>1, <2>2, <2>4 DEF Messages, PostedOK
    <3> QED
      BY <2>1, <3>1, <3>2, <3>3 DEF PostedOK
  <2> QED
    BY <2>5, <2>6 DEF Messages
<1>7. CASE UNCHANGED vars
  BY <1>7, SameMessages DEF vars, Broadcasted, hubVars, handlerVars, histVars
<1> QED
  BY <1>1, <1>2, <1>3, <1>4, <1>5, <1>6, <1>7 DEF Next, RunInternal

(* In every reachable state the messages are in order. *)
LEMMA SpecMessages == Spec => [](IInv /\ HeldOK /\ Messages)
<1>1. Init => Messages
  BY InitMessages
<1>2. IInv /\ HeldOK /\ Messages /\ [Next]_vars => Messages'
  BY NextMessages
<1> QED
  BY <1>1, <1>2, SpecHeldOK, PTL DEF Spec

(* A message that was acknowledged is in the hub, once, for any numbers of *)
(* senders and connections and however full the channels are.              *)
THEOREM AckedOnce == Spec => []AckedIsBroadcast
<1>1. IInv /\ Messages => AckedIsBroadcast
  <2> SUFFICES ASSUME IInv, Messages PROVE AckedIsBroadcast
    OBVIOUS
  <2>1. \A n \in 1..lastId : ~(Posted(n) /\ Owed(n))
    BY DEF Messages, OwedOK, Posted, Owed
  <2>2. \A n : Posted(n) \in BOOLEAN /\ Owed(n) \in BOOLEAN
    BY DEF Posted, Owed
  <2>3. \A n \in 1..lastId : Posted(n) # Owed(n)
    BY <2>1, <2>2, Zenon DEF Messages, PostedOK
  <2> QED
    BY <2>3 DEF Messages, PostedOK, AckedIsBroadcast
<1> QED
  BY <1>1, SpecMessages, PTL

-----------------------------------------------------------------------------
(* Events.  A connection joins once and leaves once, so each event is in   *)
(* the topic once at most, and so is every item.                           *)
Events ==
    /\ run = "joined" => pump[peer] \notin {"idle", "registering"}
    /\ run \in {"removing", "left"} => pump[peer] \in {"closing", "closed"}
    /\ \A s \in Clients, i \in DOMAIN Broadcasted :
          /\ Broadcasted[i] = Event("join", s) =>
                pump[s] \notin {"idle", "registering"} /\ ~(run = "joined" /\ peer = s)
          /\ Broadcasted[i] = Event("leave", s) =>
                /\ pump[s] \in {"closing", "closed"}
                /\ ~(run \in {"removing", "left"} /\ peer = s)
    /\ \A i, j \in DOMAIN Broadcasted : Broadcasted[i] = Broadcasted[j] => i = j

(* It holds initially. *)
LEMMA InitEvents == Init => Events
<1> SUFFICES ASSUME Init PROVE Events
  OBVIOUS
<1>1. Broadcasted = <<>> /\ run = "select"
  BY DEF Init, Broadcasted
<1> QED
  BY <1>1 DEF Events

(* Every step preserves it. *)
LEMMA NextEvents == IInv /\ HeldOK /\ Messages /\ Events /\ [Next]_vars => Events'
<1> SUFFICES ASSUME IInv, HeldOK, Messages, Events, [Next]_vars PROVE Events'
  OBVIOUS
<1>types. /\ broadcast \in Seq(Items) /\ log \in Seq(Items) /\ Broadcasted \in Seq(Items)
          /\ pump \in [Clients -> PumpStates] /\ NoClient \notin Clients
  BY ClientsAssumption DEF IInv, TypeOK, Broadcasted
<1>1. ASSUME NEW s \in Clients, RunRegister(s) PROVE Events'
  <2>1. UNCHANGED Broadcasted
    BY <1>1 DEF RunRegister, Broadcasted
  <2> QED
    BY <1>1, <2>1, <1>types DEF RunRegister, Events
<1>2. ASSUME NEW s \in Clients, RunUnregister(s) PROVE Events'
  <2>1. UNCHANGED Broadcasted
    BY <1>2 DEF RunUnregister, Broadcasted, histVars
  <2> QED
    BY <1>2, <2>1, <1>types DEF RunUnregister, Events
<1>3. ASSUME NEW s \in Clients, PumpStep(s) PROVE Events'
  <2>1. UNCHANGED <<Broadcasted, run, peer>>
    BY <1>3 DEF PumpStep, HandleSSEStream, Disconnect, PumpDone, PumpTake, PumpWritten,
                PumpWriteFail, PumpClose, Broadcasted, hubVars, histVars
  <2>2. /\ \A q \in Clients : pump[q] \notin {"idle", "registering"} => pump'[q] \notin {"idle", "registering"}
        /\ \A q \in Clients : pump[q] \in {"closing", "closed"} => pump'[q] \in {"closing", "closed"}
    BY <1>3, <1>types DEF PumpStep, HandleSSEStream, Disconnect, PumpDone, PumpTake, PumpWritten,
                PumpWriteFail, PumpClose
  <2>3. run \in {"joined", "removing", "left"} => peer \in Clients
    BY DEF IInv, ControlOK
  <2> QED
    BY <2>1, <2>2, <2>3 DEF Events
<1>4. CASE RunRemove
  <2>1. UNCHANGED <<Broadcasted, pump>> /\ run = "removing" /\ run' \in {"left", "select"}
        /\ (run' = "left" => peer' = peer)
    BY <1>4 DEF RunRemove, Broadcasted, pumpVars, histVars
  <2> QED
    BY <2>1 DEF Events
<1>5. CASE BroadcastEvent
  <2> DEFINE k == IF run = "joined" THEN "join" ELSE "leave"
             e == Event(k, peer)
  <2>1. /\ run \in {"joined", "left"} /\ run' = "select" /\ peer \in Clients
        /\ UNCHANGED <<log, pump>> /\ OfferEvent(e)
    BY <1>5 DEF BroadcastEvent, IInv, ControlOK, pumpVars
  <2>2. e \in Items
    BY <2>1, EventType
  <2>3. \A i \in DOMAIN Broadcasted : Broadcasted[i] # e
    BY <2>1 DEF Events
  <2>4. \A s \in Clients :
          /\ e = Event("join", s) => s = peer /\ run = "joined"
          /\ e = Event("leave", s) => s = peer /\ run = "left"
    BY <2>1 DEF Event
  <2> HIDE DEF e
  <2>5. CASE broadcast' = broadcast
    BY <2>1, <2>5 DEF Events, Broadcasted
  <2>6. CASE broadcast' = Append(broadcast, e)
    <3>1. Broadcasted' = Append(Broadcasted, e)
      BY <1>types, <2>1, <2>2, <2>6, AppendLater DEF Broadcasted
    <3>2. /\ DOMAIN Broadcasted' = DOMAIN Broadcasted \cup {Len(Broadcasted) + 1}
          /\ \A i \in DOMAIN Broadcasted : Broadcasted'[i] = Broadcasted[i]
          /\ Broadcasted'[Len(Broadcasted) + 1] = e
      BY <1>types, <2>2, <3>1
    <3> QED
      BY <2>1, <2>3, <2>4, <3>2 DEF Events
  <2> QED
    BY <2>1, <2>5, <2>6 DEF OfferEvent
<1>6. CASE RunTake
  <2>1. /\ broadcast # <<>> /\ broadcast' = Tail(broadcast) /\ run' = "deliver"
        /\ log' = Append(log, Head(broadcast)) /\ UNCHANGED <<pump, peer>>
    BY <1>6 DEF RunTake, pumpVars
  <2>2. Broadcasted' = Broadcasted
    BY <2>1, <1>types, MoveHead DEF Broadcasted
  <2> QED
    BY <2>1, <2>2 DEF Events
<1>7. ASSUME NEW s \in Clients, RunDeliver(s) PROVE Events'
  BY <1>7 DEF RunDeliver, Events, Broadcasted
<1>8. CASE RunDone \/ RunStop \/ Stop
  <2>1. /\ UNCHANGED <<Broadcasted, pump>>
         /\ \/ run' = run /\ peer' = peer
            \/ run' \in {"select", "stopped"}
    BY <1>8 DEF RunDone, RunStop, Stop, Broadcasted, pumpVars, histVars
  <2> QED
    BY <2>1 DEF Events
<1>9. ASSUME NEW w \in Senders, Save(w) PROVE Events'
  BY <1>9 DEF Save, Events, Broadcasted, hubVars, pumpVars, histVars
<1>10. ASSUME NEW w \in Senders, BroadcastMessage(w) PROVE Events'
  <2> DEFINE m == Message(w, msgId[w])
  <2>1. /\ UNCHANGED <<log, pump, run, peer>> /\ broadcast' = Append(broadcast, m) /\ handler[w] = "saved"
    BY <1>10 DEF BroadcastMessage, hubVars, pumpVars, histVars
  <2>2. m \in Items /\ m.kind = "message" /\ m.id = msgId[w]
    BY <2>1, MessageType DEF IInv, ControlOK, Message
  <2> HIDE DEF m
  <2>3. /\ \A i \in DOMAIN Broadcasted : Broadcasted[i] # m
        /\ \A s \in Clients : m # Event("join", s) /\ m # Event("leave", s)
    BY <2>1, <2>2 DEF Messages, OwedOK, Event
  <2>4. Broadcasted' = Append(Broadcasted, m)
    BY <1>types, <2>1, <2>2, AppendLater DEF Broadcasted
  <2>5. /\ DOMAIN Broadcasted' = DOMAIN Broadcasted \cup {Len(Broadcasted) + 1}
        /\ \A i \in DOMAIN Broadcasted : Broadcasted'[i] = Broadcasted[i]
        /\ Broadcasted'[Len(Broadcasted) + 1] = m
    BY <1>types, <2>2, <2>4
  <2> QED
    BY <2>1, <2>3, <2>5 DEF Events
<1>11. CASE UNCHANGED vars
  BY <1>11 DEF vars, Events, Broadcasted, hubVars, pumpVars, histVars
<1> QED
  BY <1>1, <1>2, <1>3, <1>4, <1>5, <1>6, <1>7, <1>8, <1>9, <1>10, <1>11 DEF Next, RunInternal

-----------------------------------------------------------------------------
(* Streams.  f places the frames of a stream in the log, in order and, for *)
(* a subscriber, not beyond what it has been served.                       *)
Places(s, f) ==
    /\ f \in [DOMAIN Stream(s) -> DOMAIN log]
    /\ \A i, j \in DOMAIN Stream(s) : i < j => f[i] < f[j]
    /\ \A i \in DOMAIN Stream(s) : Stream(s)[i].item = log[f[i]]
    /\ s \in subscribers => \A i \in DOMAIN Stream(s) : f[i] <= Served(s)

Streams ==
    \A s \in Clients :
        /\ pump[s] \in {"idle", "registering"} => Stream(s) = <<>>
        /\ \E f : Places(s, f)

(* A stream that does not change keeps its places, whatever the loop takes *)
(* off the queue.                                                          *)
LEMMA KeepPlaces ==
    ASSUME NEW s \in Clients, NEW f, Places(s, f), log \in Seq(Items),
           Stream(s)' = Stream(s),
           log' = log \/ \E e \in Items : log' = Append(log, e),
           s \in subscribers' => s \in subscribers /\ Served(s)' >= Served(s),
           Served(s) \in Int, Served(s)' \in Int
    PROVE  Places(s, f)'
<1>1. DOMAIN log \subseteq DOMAIN log' /\ \A i \in DOMAIN log : log'[i] = log[i]
  OBVIOUS
<1>2. f \in [DOMAIN Stream(s)' -> DOMAIN log']
  BY <1>1 DEF Places
<1>3. \A i \in DOMAIN Stream(s) : f[i] \in DOMAIN log /\ f[i] \in Int
  BY DEF Places
<1>4. \A i \in DOMAIN Stream(s)' : Stream(s)'[i].item = log'[f[i]]
  BY <1>1, <1>3 DEF Places
<1>5. s \in subscribers' => \A i \in DOMAIN Stream(s)' : f[i] <= Served(s)'
  BY <1>3 DEF Places
<1> QED
  BY <1>2, <1>4, <1>5 DEF Places

(* How far a connection has been served is a number. *)
LEMMA ServedType == log \in Seq(Items) => \A s \in Clients : Served(s) \in Int
BY DEF Served

(* It holds initially. *)
LEMMA InitStreams == Init => Streams
<1> SUFFICES ASSUME Init, NEW s \in Clients
             PROVE  Stream(s) = <<>> /\ \E f : Places(s, f)
  BY DEF Streams
<1>1. Stream(s) = <<>> /\ subscribers = {}
  BY DEF Init, Stream
<1>2. Places(s, <<>>)
  BY <1>1 DEF Places
<1> QED
  BY <1>1, <1>2

(* A step preserves the places of the streams it leaves alone. *)
LEMMA SameStream ==
    ASSUME IInv, IInv', Streams, NEW s \in Clients,
           Stream(s)' = Stream(s),
           log' = log \/ \E e \in Items : log' = Append(log, e),
           s \in subscribers' => s \in subscribers /\ Served(s)' >= Served(s)
    PROVE  \E f : Places(s, f)'
<1>1. PICK f : Places(s, f)
  BY DEF Streams
<1>2. log \in Seq(Items) /\ log' \in Seq(Items)
  BY DEF IInv, TypeOK
<1>3. Served(s) \in Int /\ Served(s)' \in Int
  BY <1>2 DEF Served
<1> QED
  BY <1>1, <1>2, <1>3, KeepPlaces

(* Only its own registration and its own turn in the fan-out change how    *)
(* far a connection is served, what is on its stream and what it lost.     *)
LEMMA QuietStep ==
    ASSUME IInv, [Next]_vars, NEW s \in Clients, ~RunRegister(s), ~RunDeliver(s)
    PROVE  /\ Stream(s)' = Stream(s) /\ dropped'[s] = dropped[s] /\ regAt'[s] = regAt[s]
           /\ log' = log \/ \E e \in Items : log' = Append(log, e)
           /\ pump'[s] \in {"idle", "registering"} => pump[s] \in {"idle", "registering"}
           /\ s \in subscribers' => s \in subscribers /\ Served(s)' = Served(s)
<1>types. /\ broadcast \in Seq(Items) /\ log \in Seq(Items)
          /\ \A q \in Clients : out[q] \in Seq(Frames) /\ send[q] \in Seq(Frames)
          /\ pump \in [Clients -> PumpStates] /\ dropped \in [Clients -> SUBSET Items]
          /\ regAt \in [Clients -> Nat] /\ send \in [Clients -> Seq(Frames)]
          /\ out \in [Clients -> Seq(Frames)]
  BY DEF IInv, TypeOK
<1> DEFINE Quiet ==
      /\ Stream(s)' = Stream(s) /\ dropped'[s] = dropped[s] /\ regAt'[s] = regAt[s]
      /\ log' = log \/ \E e \in Items : log' = Append(log, e)
      /\ pump'[s] \in {"idle", "registering"} => pump[s] \in {"idle", "registering"}
      /\ s \in subscribers' => s \in subscribers /\ Served(s)' = Served(s)
<1>1. ASSUME NEW q \in Clients, RunRegister(q) PROVE Quiet
  <2>1. s # q
    BY <1>1
  <2>2. /\ UNCHANGED <<send, out, dropped, log>> /\ regAt'[s] = regAt[s] /\ pump'[s] = pump[s]
        /\ s \in subscribers' => s \in subscribers
        /\ run # "deliver" /\ run' # "deliver"
    BY <1>1, <2>1, <1>types DEF RunRegister
  <2> QED
    BY <2>2 DEF Stream, Served
<1>2. ASSUME NEW q \in Clients, RunUnregister(q) PROVE Quiet
  <2>1. /\ UNCHANGED <<send, out, dropped, log, regAt, subscribers>>
        /\ run # "deliver" /\ run' # "deliver"
        /\ pump'[s] \in {"idle", "registering"} => pump[s] \in {"idle", "registering"}
    BY <1>2, <1>types DEF RunUnregister, histVars
  <2> QED
    BY <2>1 DEF Stream, Served
<1>3. ASSUME NEW q \in Clients, PumpStep(q) PROVE Quiet
  <2>1. UNCHANGED <<log, subscribers, run, todo, dropped, regAt>>
    BY <1>3 DEF PumpStep, HandleSSEStream, Disconnect, PumpDone, PumpTake, PumpWritten,
                PumpWriteFail, PumpClose, hubVars, histVars
  <2>2. pump'[s] \in {"idle", "registering"} => pump[s] \in {"idle", "registering"}
    BY <1>3, <1>types DEF PumpStep, HandleSSEStream, Disconnect, PumpDone, PumpTake, PumpWritten,
                PumpWriteFail, PumpClose
  <2>3. Stream(s)' = Stream(s)
    <3>1. CASE PumpTake(q) /\ s = q
      <4>1. /\ send[s] # <<>> /\ send'[s] = Tail(send[s])
            /\ out'[s] = Append(out[s], Head(send[s]))
        BY <3>1, <1>types DEF PumpTake
      <4> QED
        BY <4>1, <1>types, MoveHead DEF Stream
    <3>2. CASE PumpTake(q) /\ s # q
      BY <3>2, <1>types DEF PumpTake, Stream
    <3>3. CASE ~PumpTake(q)
      BY <1>3, <3>3 DEF PumpStep, HandleSSEStream, Disconnect, PumpDone, PumpWritten,
                PumpWriteFail, PumpClose, Stream
    <3> QED
      BY <3>1, <3>2, <3>3
  <2> QED
    BY <2>1, <2>2, <2>3 DEF Served
<1>4. CASE RunRemove \/ BroadcastEvent \/ RunStop
  <2>1. /\ UNCHANGED <<send, out, dropped, log, regAt, pump>>
        /\ s \in subscribers' => s \in subscribers
        /\ run # "deliver" /\ run' # "deliver"
    BY <1>4 DEF RunRemove, BroadcastEvent, RunStop, pumpVars, histVars
  <2> QED
    BY <2>1 DEF Stream, Served
<1>5. CASE RunTake
  <2>1. /\ UNCHANGED <<send, out, dropped, regAt, pump, subscribers>> /\ todo' = subscribers
        /\ log' = Append(log, Head(broadcast)) /\ broadcast # <<>>
        /\ run = "select" /\ run' = "deliver"
    BY <1>5 DEF RunTake, pumpVars
  <2>2. Head(broadcast) \in Items
    BY <2>1, <1>types
  <2>3. Len(log') = Len(log) + 1 /\ Len(log) \in Nat
    BY <2>1, <2>2, <1>types
  <2>4. s \in subscribers' => Served(s)' = Served(s)
    BY <2>1, <2>3 DEF Served
  <2> QED
    BY <2>1, <2>2, <2>4 DEF Stream
<1>6. ASSUME NEW q \in Clients, RunDeliver(q) PROVE Quiet
  <2>1. s # q
    BY <1>6
  <2>2. /\ UNCHANGED <<subscribers, log, out, pump, regAt, run>> /\ send'[s] = send[s]
        /\ dropped'[s] = dropped[s] /\ (s \in todo' <=> s \in todo)
    BY <1>6, <2>1, <1>types DEF RunDeliver
  <2> QED
    BY <2>2 DEF Stream, Served
<1>7. CASE RunDone
  <2>1. /\ UNCHANGED <<send, out, dropped, log, regAt, pump, subscribers>>
        /\ todo = {} /\ run' # "deliver"
    BY <1>7 DEF RunDone, pumpVars, histVars
  <2> QED
    BY <2>1 DEF Stream, Served
<1>8. CASE Stop \/ (\E w \in Senders : Save(w) \/ BroadcastMessage(w)) \/ UNCHANGED vars
  <2>1. UNCHANGED <<send, out, dropped, log, regAt, pump, subscribers, run, todo>>
    BY <1>8 DEF Stop, Save, BroadcastMessage, vars, hubVars, pumpVars, histVars
  <2> QED
    BY <2>1 DEF Stream, Served
<1> QED
  BY <1>1, <1>2, <1>3, <1>4, <1>5, <1>6, <1>7, <1>8 DEF Next, RunInternal

(* Its turn in the fan-out serves a subscriber the last item of the log:   *)
(* it goes to the end of the stream, or is dropped.                        *)
LEMMA DeliverStep ==
    ASSUME IInv, HeldOK, NEW s \in Clients, RunDeliver(s)
    PROVE  /\ s \in subscribers /\ UNCHANGED <<log, regAt, pump, subscribers, frame, lastMsg, run>>
           /\ Len(log) \in Nat \ {0} /\ Served(s) = Len(log) - 1 /\ Served(s)' = Len(log)
           /\ FrameFor(s) \in Frames /\ FrameFor(s).item = log[Len(log)] /\ frame.item = log[Len(log)]
           /\ run = "deliver" /\ s \in todo /\ s \notin todo'
           /\ \/ Stream(s)' = Append(Stream(s), FrameFor(s)) /\ dropped'[s] = dropped[s]
              \/ Stream(s)' = Stream(s) /\ dropped'[s] = dropped[s] \cup {log[Len(log)]}
<1>types. /\ log \in Seq(Items) /\ dropped \in [Clients -> SUBSET Items]
          /\ send \in [Clients -> Seq(Frames)] /\ out \in [Clients -> Seq(Frames)]
  BY DEF IInv, TypeOK
<1>1. /\ run = "deliver" /\ run' = run /\ s \in todo /\ todo' = todo \ {s}
      /\ UNCHANGED <<subscribers, log, out, pump, regAt, frame, lastMsg>> /\ s \in subscribers
  BY DEF RunDeliver, IInv, ControlOK
<1>2. /\ FrameFor(s) \in Frames /\ FrameFor(s).item = log[Len(log)]
      /\ frame.item = log[Len(log)] /\ Len(log) \in Nat \ {0}
  BY <1>1, <1>types, FrameForType, BoundsAssumption DEF IInv, ControlOK, FrameFor, HeldOK
<1>3. Served(s) = Len(log) - 1 /\ Served(s)' = Len(log)
  BY <1>1 DEF Served
<1>4. CASE send' = [send EXCEPT ![s] = Append(send[s], FrameFor(s))] /\ dropped' = dropped
  <2>1. PICK e \in Frames : e = FrameFor(s)
    BY <1>2
  <2>2. PICK o \in Seq(Frames) : o = out[s]
    BY <1>types
  <2>3. PICK b \in Seq(Frames) : b = send[s]
    BY <1>types
  <2>4. out'[s] = o /\ send'[s] = Append(b, e)
    BY <1>1, <1>4, <1>types, <2>1, <2>2, <2>3
  <2>5. o \o Append(b, e) = Append(o \o b, e)
    BY AppendLater
  <2>6. Stream(s)' = Append(Stream(s), FrameFor(s))
    BY <2>1, <2>2, <2>3, <2>4, <2>5, Zenon DEF Stream
  <2> QED
    BY <1>1, <1>2, <1>3, <1>4, <2>6
<1>5. CASE send' = send /\ dropped' = [dropped EXCEPT ![s] = dropped[s] \cup {frame.item}]
  <2>1. Stream(s)' = Stream(s) /\ dropped'[s] = dropped[s] \cup {log[Len(log)]}
    BY <1>1, <1>2, <1>5, <1>types DEF Stream
  <2> QED
    BY <1>1, <1>2, <1>3, <2>1
<1> QED
  BY <1>4, <1>5 DEF RunDeliver

(* Every step preserves it: only the fan-out adds to a stream, and what it *)
(* adds is the last item of the log.                                       *)
LEMMA NextStreams == IInv /\ IInv' /\ HeldOK /\ Streams /\ [Next]_vars => Streams'
<1> SUFFICES ASSUME IInv, IInv', HeldOK, Streams, [Next]_vars, NEW s \in Clients
             PROVE  /\ pump'[s] \in {"idle", "registering"} => Stream(s)' = <<>>
                    /\ \E f : Places(s, f)'
  BY DEF Streams
<1>types. /\ log \in Seq(Items) /\ pump \in [Clients -> PumpStates]
          /\ Stream(s) \in Seq(Frames)
  BY DEF IInv, TypeOK, Stream
<1>1. CASE RunRegister(s)
  <2>1. Stream(s)' = <<>>
    BY <1>1 DEF RunRegister, Stream, Streams
  <2>2. Places(s, <<>>)'
    BY <2>1 DEF Places
  <2> QED
    BY <2>1, <2>2
<1>2. CASE ~RunRegister(s) /\ ~RunDeliver(s)
  <2>1. /\ Stream(s)' = Stream(s)
        /\ log' = log \/ \E e \in Items : log' = Append(log, e)
        /\ pump'[s] \in {"idle", "registering"} => pump[s] \in {"idle", "registering"}
        /\ s \in subscribers' => s \in subscribers /\ Served(s)' = Served(s)
    BY <1>2, QuietStep
  <2>2. Served(s) \in Int
    BY <1>types, ServedType
  <2>3. \E f : Places(s, f)'
    BY <2>1, <2>2, SameStream
  <2> QED
    BY <2>1, <2>3 DEF Streams
<1>3. CASE RunDeliver(s)
  <2>1. /\ s \in subscribers /\ UNCHANGED <<log, pump, subscribers>>
        /\ Len(log) \in Nat \ {0} /\ Served(s) = Len(log) - 1 /\ Served(s)' = Len(log)
        /\ FrameFor(s) \in Frames /\ FrameFor(s).item = log[Len(log)]
        /\ Stream(s)' = Append(Stream(s), FrameFor(s)) \/ Stream(s)' = Stream(s)
    BY <1>3, DeliverStep
  <2>2. pump'[s] \notin {"idle", "registering"}
    BY <2>1 DEF IInv, SubscribedOK
  <2>3. CASE Stream(s)' = Stream(s)
    BY <2>1, <2>2, <2>3, SameStream
  <2>4. CASE Stream(s)' = Append(Stream(s), FrameFor(s))
    <3>n. PICK n : n = Len(Stream(s))
      OBVIOUS
    <3>1. /\ n \in Nat /\ DOMAIN Stream(s) = 1..n /\ DOMAIN Stream(s)' = 1..(n + 1)
          /\ \A i \in 1..n : Stream(s)'[i] = Stream(s)[i]
          /\ Stream(s)'[n + 1] = FrameFor(s)
      BY <1>types, <2>1, <2>4, <3>n
    <3>f. PICK f : Places(s, f)
      BY DEF Streams
    <3>2. \A i \in 1..n : f[i] \in DOMAIN log /\ f[i] \in Int /\ f[i] <= Len(log) - 1
      <4>1. \A i \in 1..n : f[i] \in DOMAIN log /\ f[i] <= Served(s)
        BY <2>1, <3>1, <3>f DEF Places
      <4>2. DOMAIN log = 1..Len(log)
        BY <1>types
      <4> QED
        BY <2>1, <4>1, <4>2
    <3>3. Len(log) \in DOMAIN log
      BY <2>1, <1>types
    <3>g. PICK g : g = [i \in 1..(n + 1) |-> IF i = n + 1 THEN Len(log) ELSE f[i]]
      OBVIOUS
    <3>4. g \in [DOMAIN Stream(s)' -> DOMAIN log']
      BY <2>1, <3>1, <3>2, <3>3, <3>g
    <3>5. \A i, j \in DOMAIN Stream(s)' : i < j => g[i] < g[j]
      <4>1. \A i, j \in 1..n : i < j => f[i] < f[j]
        BY <3>1, <3>f DEF Places
      <4> QED
        BY <2>1, <3>1, <3>2, <3>g, <4>1
    <3>6. \A i \in DOMAIN Stream(s)' : Stream(s)'[i].item = log'[g[i]]
      <4>1. \A i \in 1..n : Stream(s)[i].item = log[f[i]]
        BY <3>1, <3>f DEF Places
      <4> QED
        BY <2>1, <3>1, <3>g, <4>1
    <3>7. \A i \in DOMAIN Stream(s)' : g[i] <= Served(s)'
      BY <2>1, <3>1, <3>2, <3>g
    <3>8. Places(s, g)'
      BY <3>4, <3>5, <3>6, <3>7 DEF Places
    <3> QED
      BY <2>2, <3>8
  <2> QED
    BY <2>1, <2>3, <2>4
<1> QED
  BY <1>1, <1>2, <1>3

(* All of it holds in every reachable state. *)
LEMMA SpecStreams == Spec => [](IInv /\ Messages /\ Events /\ Streams)
<1>1. Init => Events /\ Streams
  BY InitEvents, InitStreams
<1>2. IInv /\ IInv' /\ HeldOK /\ Messages /\ Events /\ Streams /\ [Next]_vars => Events' /\ Streams'
  BY NextEvents, NextStreams
<1> QED
  BY <1>1, <1>2, SpecMessages, PTL DEF Spec

(* No item comes twice on a stream and no sender's messages come out of    *)
(* order, for any numbers of connections and senders, and also on streams  *)
(* that lose frames.                                                       *)
THEOREM StreamsInOrder == Spec => []StreamOrder
<1>1. IInv /\ Messages /\ Events /\ Streams => StreamOrder
  <2> SUFFICES ASSUME IInv, Messages, Events, Streams, NEW s \in Clients,
                      NEW i \in 1..Len(ItemsOf(Stream(s))), NEW j \in 1..Len(ItemsOf(Stream(s))), i < j
               PROVE  LET items == ItemsOf(Stream(s))
                      IN /\ items[i] # items[j]
                         /\ items[i].kind = "message" /\ items[j].kind = "message"
                            /\ items[i].from = items[j].from
                            => items[i].id < items[j].id
    BY DEF StreamOrder
  <2>1. /\ broadcast \in Seq(Items) /\ log \in Seq(Items)
        /\ out[s] \in Seq(Frames) /\ send[s] \in Seq(Frames)
    BY DEF IInv, TypeOK
  <2>2. Stream(s) \in Seq(Frames)
    BY <2>1 DEF Stream
  <2>3. Len(ItemsOf(Stream(s))) = Len(Stream(s)) /\ i \in DOMAIN Stream(s) /\ j \in DOMAIN Stream(s)
    BY <2>2 DEF ItemsOf
  <2>4. PICK f : Places(s, f)
    BY DEF Streams
  <2>5. f[i] \in DOMAIN log /\ f[j] \in DOMAIN log /\ f[i] < f[j]
    BY <2>3, <2>4 DEF Places
  <2>6. ItemsOf(Stream(s))[i] = log[f[i]] /\ ItemsOf(Stream(s))[j] = log[f[j]]
    BY <2>3, <2>4 DEF Places, ItemsOf
  <2>7. \A k \in DOMAIN log : k \in DOMAIN Broadcasted /\ Broadcasted[k] = log[k]
    BY <2>1 DEF Broadcasted
  <2>8. f[i] # f[j]
    BY <2>1, <2>5
  <2> QED
    BY <2>5, <2>6, <2>7, <2>8 DEF Messages, PostedOK, Events
<1> QED
  BY <1>1, SpecStreams, PTL

-----------------------------------------------------------------------------
(* Completeness.  What the loop has offered a subscriber since it was      *)
(* registered is on its stream or was dropped for it, and nothing is both. *)
LogOK ==
    \A s \in Clients :
        /\ pump[s] \in {"idle", "registering"} => dropped[s] = {}
        /\ s \in subscribers =>
              /\ regAt[s] <= Served(s)
              /\ \A item \in dropped[s] : \E k \in 1..Served(s) : log[k] = item
              /\ \A i \in DOMAIN Stream(s) :
                    \E k \in (regAt[s] + 1)..Served(s) : Stream(s)[i].item = log[k]
              /\ \A k \in (regAt[s] + 1)..Served(s) :
                    (\E i \in DOMAIN Stream(s) : Stream(s)[i].item = log[k])
                      <=> log[k] \notin dropped[s]

(* It holds initially. *)
LEMMA InitLog == Init => LogOK
BY DEF Init, LogOK

(* Every step preserves it.  That an item is not both on the stream and    *)
(* dropped rests on no item being in the topic twice.                      *)
LEMMA NextLog == IInv /\ IInv' /\ HeldOK /\ Events /\ Streams /\ LogOK /\ [Next]_vars => LogOK'
<1> SUFFICES ASSUME IInv, IInv', HeldOK, Events, Streams, LogOK, [Next]_vars, NEW s \in Clients
             PROVE  /\ pump'[s] \in {"idle", "registering"} => dropped'[s] = {}
                    /\ s \in subscribers' =>
                          /\ regAt'[s] <= Served(s)'
                          /\ \A item \in dropped'[s] : \E k \in 1..Served(s)' : log'[k] = item
                          /\ \A i \in DOMAIN Stream(s)' :
                                \E k \in (regAt'[s] + 1)..Served(s)' : Stream(s)'[i].item = log'[k]
                          /\ \A k \in (regAt'[s] + 1)..Served(s)' :
                                (\E i \in DOMAIN Stream(s)' : Stream(s)'[i].item = log'[k])
                                  <=> log'[k] \notin dropped'[s]
  BY DEF LogOK
<1>types. /\ log \in Seq(Items) /\ pump \in [Clients -> PumpStates]
          /\ regAt \in [Clients -> Nat] /\ regAt[s] \in Nat /\ Len(log) \in Nat
          /\ Stream(s) \in Seq(Frames)
  <2>1. /\ log \in Seq(Items) /\ pump \in [Clients -> PumpStates] /\ regAt \in [Clients -> Nat]
        /\ out[s] \in Seq(Frames) /\ send[s] \in Seq(Frames)
    BY DEF IInv, TypeOK
  <2> QED
    BY <2>1 DEF Stream
<1>served. s \in subscribers => Served(s) \in Int /\ Served(s) <= Len(log)
  BY <1>types DEF Served
<1>1. CASE RunRegister(s)
  <2>1. /\ Stream(s)' = <<>> /\ dropped'[s] = {} /\ regAt'[s] = Len(log)
        /\ Served(s)' = Len(log)
    BY <1>1, <1>types DEF RunRegister, Stream, Streams, LogOK, Served
  <2>2. (regAt'[s] + 1)..Served(s)' = {}
    BY <2>1, <1>types
  <2> QED
    BY <2>1, <2>2, <1>types
<1>2. CASE ~RunRegister(s) /\ ~RunDeliver(s)
  <2>1. /\ Stream(s)' = Stream(s) /\ dropped'[s] = dropped[s] /\ regAt'[s] = regAt[s]
        /\ log' = log \/ \E e \in Items : log' = Append(log, e)
        /\ pump'[s] \in {"idle", "registering"} => pump[s] \in {"idle", "registering"}
        /\ s \in subscribers' => s \in subscribers /\ Served(s)' = Served(s)
    BY <1>2, QuietStep
  <2>2. \A k \in 1..Len(log) : log'[k] = log[k]
    BY <2>1, <1>types
  <2>3. s \in subscribers' => \A k \in 1..Served(s) : log'[k] = log[k]
    BY <2>1, <2>2, <1>served
  <2>4. s \in subscribers' => \A k \in (regAt[s] + 1)..Served(s) : k \in 1..Served(s)
    BY <2>1, <1>types, <1>served
  <2> QED
    BY <2>1, <2>3, <2>4 DEF LogOK
<1>3. CASE RunDeliver(s)
  <2>1. /\ s \in subscribers /\ UNCHANGED <<log, regAt, pump, subscribers>>
        /\ Len(log) \in Nat \ {0} /\ Served(s) = Len(log) - 1 /\ Served(s)' = Len(log)
        /\ FrameFor(s) \in Frames /\ FrameFor(s).item = log[Len(log)]
        /\ \/ Stream(s)' = Append(Stream(s), FrameFor(s)) /\ dropped'[s] = dropped[s]
           \/ Stream(s)' = Stream(s) /\ dropped'[s] = dropped[s] \cup {log[Len(log)]}
    BY <1>3, DeliverStep
  <2> DEFINE last == Len(log)
  <2>2. pump'[s] \notin {"idle", "registering"}
    BY <2>1 DEF IInv, SubscribedOK
  <2>3. \A k \in 1..last : log[k] = log[last] => k = last
    <3>1. \A k \in 1..last : k \in DOMAIN Broadcasted /\ Broadcasted[k] = log[k]
      BY <1>types DEF Broadcasted, IInv, TypeOK
    <3> QED
      BY <2>1, <3>1 DEF Events
  <2>5. /\ regAt[s] <= last - 1
        /\ \A item \in dropped[s] : \E k \in 1..(last - 1) : log[k] = item
        /\ \A i \in DOMAIN Stream(s) :
              \E k \in (regAt[s] + 1)..(last - 1) : Stream(s)[i].item = log[k]
        /\ \A k \in (regAt[s] + 1)..(last - 1) :
              (\E i \in DOMAIN Stream(s) : Stream(s)[i].item = log[k]) <=> log[k] \notin dropped[s]
    BY <2>1 DEF LogOK
  <2>6. \A k \in 1..last : k \in 1..(last - 1) \/ k = last
    BY <2>1
  <2>7. /\ (regAt[s] + 1)..(last - 1) \subseteq (regAt[s] + 1)..last
        /\ (regAt[s] + 1)..last \subseteq 1..last
        /\ 1..(last - 1) \subseteq 1..last
        /\ last \in (regAt[s] + 1)..last
        /\ (regAt[s] + 1)..(last - 1) \subseteq 1..(last - 1)
        /\ \A k \in 1..(last - 1) : k # last
    BY <2>1, <2>5, <1>types
  <2>4. /\ log[last] \notin dropped[s]
        /\ \A i \in DOMAIN Stream(s) : Stream(s)[i].item # log[last]
    BY <2>3, <2>5, <2>7
  <2>goal. ASSUME \A item \in dropped'[s] : \E k \in 1..last : log[k] = item,
                  \A i \in DOMAIN Stream(s)' :
                     \E k \in (regAt[s] + 1)..last : Stream(s)'[i].item = log[k],
                  \A k \in (regAt[s] + 1)..last :
                     (\E i \in DOMAIN Stream(s)' : Stream(s)'[i].item = log[k]) <=> log[k] \notin dropped'[s]
           PROVE  /\ regAt'[s] <= Served(s)'
                  /\ \A item \in dropped'[s] : \E k \in 1..Served(s)' : log'[k] = item
                  /\ \A i \in DOMAIN Stream(s)' :
                        \E k \in (regAt'[s] + 1)..Served(s)' : Stream(s)'[i].item = log'[k]
                  /\ \A k \in (regAt'[s] + 1)..Served(s)' :
                        (\E i \in DOMAIN Stream(s)' : Stream(s)'[i].item = log'[k])
                          <=> log'[k] \notin dropped'[s]
    <3>1. regAt'[s] = regAt[s] /\ Served(s)' = last /\ log' = log /\ regAt[s] <= last
      BY <2>1, <2>5, <1>types
    <3> HIDE DEF last
    <3> QED
      BY <2>goal, <3>1, Zenon
  <2>8. CASE Stream(s)' = Stream(s) /\ dropped'[s] = dropped[s] \cup {log[last]}
    <3>1. \A k \in (regAt[s] + 1)..last :
            (\E i \in DOMAIN Stream(s) : Stream(s)[i].item = log[k]) <=> log[k] \notin dropped'[s]
      BY <2>3, <2>4, <2>5, <2>6, <2>7, <2>8
    <3>2. /\ \A item \in dropped'[s] : \E k \in 1..last : log[k] = item
          /\ \A i \in DOMAIN Stream(s)' :
                \E k \in (regAt[s] + 1)..last : Stream(s)'[i].item = log[k]
      BY <2>1, <2>5, <2>7, <2>8
    <3> QED
      BY <2>2, <2>8, <2>goal, <3>1, <3>2
  <2>9. CASE Stream(s)' = Append(Stream(s), FrameFor(s)) /\ dropped'[s] = dropped[s]
    <3>n. PICK n : n = Len(Stream(s))
      OBVIOUS
    <3>1. /\ n \in Nat /\ DOMAIN Stream(s) = 1..n /\ DOMAIN Stream(s)' = 1..(n + 1)
          /\ \A i \in 1..n : Stream(s)'[i] = Stream(s)[i]
          /\ Stream(s)'[n + 1].item = log[last]
      BY <1>types, <2>1, <2>9, <3>n
    <3>2. \A i \in DOMAIN Stream(s)' : i \in DOMAIN Stream(s) \/ i = n + 1
      BY <3>1
    <3>3. n + 1 \in DOMAIN Stream(s)' /\ DOMAIN Stream(s) \subseteq DOMAIN Stream(s)'
      BY <3>1
    <3>4. \A i \in DOMAIN Stream(s)' :
            \E k \in (regAt[s] + 1)..last : Stream(s)'[i].item = log[k]
      BY <2>5, <2>7, <3>1, <3>2
    <3>5. \A k \in (regAt[s] + 1)..(last - 1) :
            (\E i \in DOMAIN Stream(s)' : Stream(s)'[i].item = log[k])
               <=> (\E i \in DOMAIN Stream(s) : Stream(s)[i].item = log[k])
      <4>1. \A k \in (regAt[s] + 1)..(last - 1) : log[k] # log[last]
        BY <2>1, <2>3, <2>7, <1>types
      <4> QED
        BY <3>1, <3>2, <3>3, <4>1
    <3>6. \A k \in (regAt[s] + 1)..last :
            (\E i \in DOMAIN Stream(s)' : Stream(s)'[i].item = log[k]) <=> log[k] \notin dropped[s]
      <4> SUFFICES ASSUME NEW k \in (regAt[s] + 1)..last
                   PROVE  (\E i \in DOMAIN Stream(s)' : Stream(s)'[i].item = log[k]) <=> log[k] \notin dropped[s]
        OBVIOUS
      <4>1. CASE k = last
        BY <4>1, <2>4, <3>1, <3>3
      <4>2. CASE k # last
        <5>1. k \in (regAt[s] + 1)..(last - 1)
          BY <4>2, <2>1, <1>types
        <5> QED
          BY <5>1, <2>5, <3>5
      <4> QED
        BY <4>1, <4>2
    <3>7. \A item \in dropped'[s] : \E k \in 1..last : log[k] = item
      BY <2>5, <2>7, <2>9
    <3> QED
      BY <2>2, <2>9, <2>goal, <3>4, <3>6, <3>7
  <2> QED
    BY <2>1, <2>8, <2>9
<1> QED
  BY <1>1, <1>2, <1>3

(* It holds in every reachable state. *)
LEMMA SpecLog == Spec => [](IInv /\ HeldOK /\ Messages /\ Events /\ Streams /\ LogOK)
<1>1. Init => LogOK
  BY InitLog
<1>2. IInv /\ IInv' /\ HeldOK /\ Events /\ Streams /\ LogOK /\ [Next]_vars => LogOK'
  BY NextLog
<1> QED
  BY <1>1, <1>2, SpecStreams, SpecHeldOK, PTL DEF Spec

(* A subscriber's stream is complete and in the loop's order but for what  *)
(* was dropped for that subscriber, for any numbers of connections and     *)
(* senders, any formats and any channel capacities.                        *)
THEOREM StreamsComplete == Spec => []StreamMatchesLog
<1>1. IInv /\ Events /\ Streams /\ LogOK => StreamMatchesLog
  <2> SUFFICES ASSUME IInv, Events, Streams, LogOK, NEW s \in subscribers
               PROVE  /\ Elements(ItemsOf(Stream(s))) = Elements(Offered(s)) \ dropped[s]
                      /\ \A i, j \in DOMAIN ItemsOf(Stream(s)), k, l \in DOMAIN Offered(s) :
                            /\ ItemsOf(Stream(s))[i] = Offered(s)[k]
                            /\ ItemsOf(Stream(s))[j] = Offered(s)[l]
                            => (i < j <=> k < l)
    BY DEF StreamMatchesLog
  <2>1. /\ s \in Clients /\ log \in Seq(Items) /\ regAt[s] \in Nat /\ Len(log) \in Nat
        /\ out[s] \in Seq(Frames) /\ send[s] \in Seq(Frames)
    BY DEF IInv, TypeOK
  <2>2. Stream(s) \in Seq(Frames)
    BY <2>1 DEF Stream
  <2>3. /\ DOMAIN ItemsOf(Stream(s)) = DOMAIN Stream(s)
        /\ Len(ItemsOf(Stream(s))) = Len(Stream(s))
        /\ DOMAIN Stream(s) = 1..Len(Stream(s))
        /\ \A i \in DOMAIN Stream(s) : ItemsOf(Stream(s))[i] = Stream(s)[i].item
    BY <2>2 DEF ItemsOf
  <2>a. PICK a : a = regAt[s]
    OBVIOUS
  <2>b. PICK b : b = Served(s)
    OBVIOUS
  <2>4. a \in Nat /\ b \in Nat /\ a <= b /\ b <= Len(log)
    <3>1. b = Len(log) \/ b = Len(log) - 1
      BY <2>b DEF Served
    <3>2. a <= b
      BY <2>1, <2>a, <2>b DEF LogOK
    <3> QED
      BY <2>1, <2>a, <3>1, <3>2
  <2>5. Offered(s) = SubSeq(log, a + 1, b)
    BY <2>a, <2>b DEF Offered, Served
  <2>6. /\ DOMAIN Offered(s) = 1..(b - a) /\ Len(Offered(s)) = b - a
        /\ \A k \in 1..(b - a) : Offered(s)[k] = log[a + k] /\ a + k \in (a + 1)..b
    BY <2>1, <2>4, <2>5
  <2>7. /\ \A i \in DOMAIN Stream(s) : \E k \in (a + 1)..b : Stream(s)[i].item = log[k]
        /\ \A k \in (a + 1)..b :
              (\E i \in DOMAIN Stream(s) : Stream(s)[i].item = log[k]) <=> log[k] \notin dropped[s]
    BY <2>1, <2>a, <2>b DEF LogOK
  <2>8. \A k \in (a + 1)..b : k - a \in 1..(b - a) /\ a + (k - a) = k
    BY <2>4
  <2>9. Elements(Offered(s)) = {log[k] : k \in (a + 1)..b}
    <3>1. \A x : (\E k \in 1..(b - a) : x = Offered(s)[k]) <=> (\E k \in (a + 1)..b : x = log[k])
      BY <2>6, <2>8
    <3> QED
      BY <2>6, <3>1 DEF Elements
  <2>10. Elements(ItemsOf(Stream(s))) = {Stream(s)[i].item : i \in DOMAIN Stream(s)}
    BY <2>3 DEF Elements
  <2>11. Elements(ItemsOf(Stream(s))) = Elements(Offered(s)) \ dropped[s]
    BY <2>7, <2>9, <2>10
  <2>f. PICK f : Places(s, f)
    BY <2>1 DEF Streams
  <2>12. /\ \A i \in DOMAIN Stream(s) : f[i] \in 1..Len(log) /\ ItemsOf(Stream(s))[i] = log[f[i]]
         /\ \A i, j \in DOMAIN Stream(s) : i < j => f[i] < f[j]
    BY <2>1, <2>3, <2>f DEF Places
  <2>13. \A k, l \in 1..Len(log) : log[k] = log[l] => k = l
    <3>1. \A k \in 1..Len(log) : k \in DOMAIN Broadcasted /\ Broadcasted[k] = log[k]
      BY DEF Broadcasted, IInv, TypeOK
    <3> QED
      BY <3>1 DEF Events
  <2>14. \A i \in DOMAIN Stream(s), k \in 1..(b - a) :
            ItemsOf(Stream(s))[i] = Offered(s)[k] => f[i] = a + k
    <3>1. \A k \in 1..(b - a) : a + k \in 1..Len(log)
      BY <2>4
    <3> QED
      BY <2>6, <2>12, <2>13, <3>1
  <2>15. ASSUME NEW i \in DOMAIN Stream(s), NEW j \in DOMAIN Stream(s),
                NEW k \in 1..(b - a), NEW l \in 1..(b - a),
                ItemsOf(Stream(s))[i] = Offered(s)[k], ItemsOf(Stream(s))[j] = Offered(s)[l]
         PROVE  i < j <=> k < l
    <3>1. f[i] = a + k /\ f[j] = a + l
      BY <2>14, <2>15
    <3>2. (i < j => f[i] < f[j]) /\ (j < i => f[j] < f[i])
      BY <2>12
    <3>3. i \in Int /\ j \in Int /\ k \in Int /\ l \in Int
      BY <2>3
    <3>4. i < j \/ i = j \/ j < i
      BY <3>3
    <3> QED
      BY <2>4, <3>1, <3>2, <3>3, <3>4
  <2> QED
    BY <2>3, <2>6, <2>11, <2>15
<1> QED
  BY <1>1, SpecLog, PTL

-----------------------------------------------------------------------------
(* Grouping.  What the fragment to come will be grouped against is the     *)
(* last message on every lossless HTML stream that is still subscribed.    *)
LastMessage(frames, i) ==
    /\ frames[i].item.kind = "message"
    /\ \A k \in DOMAIN frames : i < k => frames[k].item.kind # "message"

Shown(s) ==
    IF run = "deliver" /\ s \in todo /\ frame.item.kind = "message" THEN frame.prev ELSE lastMsg

GroupedOK ==
    /\ \A s \in HtmlClients : dropped[s] = {} =>
          /\ \A i, j \in DOMAIN Stream(s) :
                NextMessage(Stream(s), i, j) => Stream(s)[j].prev = Stream(s)[i].item.id
          /\ s \in subscribers =>
                \A i \in DOMAIN Stream(s) :
                   LastMessage(Stream(s), i) => Stream(s)[i].item.id = Shown(s)
    /\ run = "deliver" /\ frame.item.kind = "message" /\ subscribers \cap HtmlClients # {}
          => lastMsg = frame.item.id

(* It holds initially. *)
LEMMA InitGrouped == Init => GroupedOK
<1> SUFFICES ASSUME Init PROVE GroupedOK
  OBVIOUS
<1>1. \A s \in HtmlClients : Stream(s) = <<>>
  BY ClientsAssumption DEF Init, Stream
<1>2. run # "deliver"
  BY DEF Init
<1> QED
  BY <1>1, <1>2 DEF GroupedOK

(* Every step preserves it: rendering needs one HTML subscriber, and while *)
(* s is one, no message goes by that is not written to lastMsg.            *)
LEMMA NextGrouped == IInv /\ HeldOK /\ Streams /\ GroupedOK /\ [Next]_vars => GroupedOK'
<1> SUFFICES ASSUME IInv, HeldOK, Streams, GroupedOK, [Next]_vars PROVE GroupedOK'
  OBVIOUS
<1>1. run' = "deliver" /\ frame'.item.kind = "message" /\ subscribers' \cap HtmlClients # {}
        => lastMsg' = frame'.item.id
  <2>1. CASE RunTake
    BY <2>1 DEF RunTake
  <2>2. ASSUME NEW q \in Clients, RunDeliver(q)
        PROVE  UNCHANGED <<run, frame, subscribers, lastMsg>>
    BY <2>2 DEF RunDeliver
  <2>3. ASSUME NEW q \in Clients, RunRegister(q) \/ RunUnregister(q) PROVE run' # "deliver"
    BY <2>3 DEF RunRegister, RunUnregister
  <2>4. ASSUME NEW q \in Clients, PumpStep(q) PROVE UNCHANGED <<run, frame, subscribers, lastMsg>>
    BY <2>4 DEF PumpStep, HandleSSEStream, Disconnect, PumpDone, PumpTake, PumpWritten,
                PumpWriteFail, PumpClose, hubVars
  <2>5. CASE RunRemove \/ BroadcastEvent \/ RunDone \/ RunStop
    BY <2>5 DEF RunRemove, BroadcastEvent, RunDone, RunStop
  <2>6. CASE Stop \/ (\E w \in Senders : Save(w) \/ BroadcastMessage(w)) \/ UNCHANGED vars
    BY <2>6 DEF Stop, Save, BroadcastMessage, vars, hubVars, GroupedOK
  <2> QED
    BY <2>1, <2>2, <2>3, <2>4, <2>5, <2>6 DEF GroupedOK, Next, RunInternal
<1>2. ASSUME NEW s \in HtmlClients, dropped'[s] = {}
      PROVE  /\ \A i, j \in DOMAIN Stream(s)' :
                   NextMessage(Stream(s)', i, j) => Stream(s)'[j].prev = Stream(s)'[i].item.id
             /\ s \in subscribers' =>
                   \A i \in DOMAIN Stream(s)' :
                      LastMessage(Stream(s)', i) => Stream(s)'[i].item.id = Shown(s)'
  <2>types. s \in Clients /\ Stream(s) \in Seq(Frames) /\ \A f \in Frames : f.item \in Items
    <3>1. s \in Clients /\ out[s] \in Seq(Frames) /\ send[s] \in Seq(Frames)
      BY ClientsAssumption DEF IInv, TypeOK
    <3> QED
      BY <3>1 DEF Stream, Frames
  <2>1. CASE RunRegister(s)
    <3>1. Stream(s)' = <<>>
      BY <2>types, <2>1 DEF RunRegister, Stream, Streams
    <3> QED
      BY <3>1
  <2>2. CASE ~RunRegister(s) /\ ~RunDeliver(s)
    <3>1. /\ Stream(s)' = Stream(s) /\ dropped[s] = {}
          /\ s \in subscribers' => s \in subscribers
      BY <1>2, <2>types, <2>2, QuietStep
    <3>2. s \in subscribers' => Shown(s)' = Shown(s)
      <4>1. CASE RunTake
        BY <4>1 DEF RunTake, Shown
      <4>2. ASSUME NEW q \in Clients, RunDeliver(q) PROVE Shown(s)' = Shown(s)
        <5>1. /\ UNCHANGED <<run, frame, lastMsg>> /\ (s \in todo' <=> s \in todo)
          BY <2>2, <4>2 DEF RunDeliver
        <5> QED
          BY <5>1 DEF Shown
      <4>3. ASSUME NEW q \in Clients, RunRegister(q) \/ RunUnregister(q) PROVE Shown(s)' = Shown(s)
        BY <4>3 DEF RunRegister, RunUnregister, Shown
      <4>4. ASSUME NEW q \in Clients, PumpStep(q) PROVE Shown(s)' = Shown(s)
        BY <4>4 DEF PumpStep, HandleSSEStream, Disconnect, PumpDone, PumpTake, PumpWritten,
                    PumpWriteFail, PumpClose, hubVars, Shown
      <4>5. CASE RunRemove \/ BroadcastEvent \/ RunDone \/ RunStop
        BY <4>5 DEF RunRemove, BroadcastEvent, RunDone, RunStop, Shown
      <4>6. CASE Stop \/ (\E w \in Senders : Save(w) \/ BroadcastMessage(w)) \/ UNCHANGED vars
        BY <4>6 DEF Stop, Save, BroadcastMessage, vars, hubVars, Shown
      <4> QED
        BY <4>1, <4>2, <4>3, <4>4, <4>5, <4>6 DEF Next, RunInternal
    <3> QED
      BY <3>1, <3>2 DEF GroupedOK
  <2>3. CASE RunDeliver(s)
    <3>1. /\ s \in subscribers /\ UNCHANGED <<frame, lastMsg, run>>
          /\ FrameFor(s) \in Frames /\ FrameFor(s).item = frame.item /\ FrameFor(s).prev = frame.prev
          /\ run = "deliver" /\ s \in todo /\ s \notin todo'
          /\ \/ Stream(s)' = Append(Stream(s), FrameFor(s)) /\ dropped'[s] = dropped[s]
             \/ dropped'[s] = dropped[s] \cup {log[Len(log)]}
      BY <2>types, <2>3, DeliverStep DEF FrameFor
    <3>2. Stream(s)' = Append(Stream(s), FrameFor(s)) /\ dropped[s] = {}
      BY <1>2, <3>1
    <3>3. Shown(s)' = lastMsg
      BY <3>1 DEF Shown
    <3>4. /\ frame.item.kind = "message" => Shown(s) = frame.prev /\ lastMsg = frame.item.id
          /\ frame.item.kind # "message" => Shown(s) = lastMsg
      BY <3>1 DEF Shown, GroupedOK
    <3>n. PICK n : n = Len(Stream(s))
      OBVIOUS
    <3>o. PICK old : old = Stream(s)
      OBVIOUS
    <3>w. PICK new : new = Stream(s)'
      OBVIOUS
    <3>5. /\ n \in Nat /\ DOMAIN old = 1..n /\ DOMAIN new = 1..(n + 1)
          /\ \A i \in 1..n : new[i] = old[i]
          /\ new[n + 1].item = frame.item /\ new[n + 1].prev = frame.prev
      BY <2>types, <3>1, <3>2, <3>n, <3>o, <3>w
    <3>6. /\ \A i, j \in 1..n : NextMessage(old, i, j) => old[j].prev = old[i].item.id
          /\ \A i \in 1..n : LastMessage(old, i) => old[i].item.id = Shown(s)
      BY <3>1, <3>2, <3>5, <3>o DEF GroupedOK
    <3>7. \A i, j \in 1..n : NextMessage(new, i, j) => NextMessage(old, i, j)
      BY <3>5 DEF NextMessage
    <3>8. \A i \in 1..n : NextMessage(new, i, n + 1) => frame.item.kind = "message" /\ LastMessage(old, i)
      <4> SUFFICES ASSUME NEW i \in 1..n, NextMessage(new, i, n + 1)
                   PROVE  frame.item.kind = "message" /\ LastMessage(old, i)
        OBVIOUS
      <4>1. \A k \in 1..n : i < k => k \in (i + 1)..((n + 1) - 1)
        BY <3>5
      <4> QED
        BY <4>1, <3>5 DEF NextMessage, LastMessage
    <3>9. ASSUME NEW i \in 1..(n + 1), NEW j \in 1..(n + 1), NextMessage(new, i, j)
          PROVE  new[j].prev = new[i].item.id
      <4>1. i < j
        BY <3>9 DEF NextMessage
      <4>2. i \in 1..n
        BY <3>5, <4>1
      <4>3. CASE j \in 1..n
        BY <3>5, <3>6, <3>7, <3>9, <4>2, <4>3
      <4>4. CASE j = n + 1
        <5>1. frame.item.kind = "message" /\ LastMessage(old, i)
          BY <3>8, <3>9, <4>2, <4>4
        <5>2. old[i].item.id = frame.prev
          BY <3>4, <3>6, <4>2, <5>1
        <5> QED
          BY <3>5, <4>2, <4>4, <5>2
      <4> QED
        BY <3>5, <4>3, <4>4
    <3>10. ASSUME NEW i \in 1..(n + 1), LastMessage(new, i)
           PROVE  new[i].item.id = lastMsg
      <4>1. CASE i = n + 1
        BY <3>4, <3>5, <3>10, <4>1 DEF LastMessage
      <4>2. CASE i \in 1..n
        <5>1. frame.item.kind # "message"
          BY <3>5, <3>10, <4>2 DEF LastMessage
        <5>2. LastMessage(old, i)
          BY <3>5, <3>10, <4>2 DEF LastMessage
        <5> QED
          BY <3>4, <3>5, <3>6, <4>2, <5>1, <5>2
      <4> QED
        BY <3>5, <4>1, <4>2
    <3> QED
      BY <3>3, <3>5, <3>9, <3>10, <3>w
  <2> QED
    BY <2>1, <2>2, <2>3
<1> QED
  BY <1>1, <1>2 DEF GroupedOK

(* Live fragments are grouped against the message before them, for any     *)
(* numbers of connections of either format and of senders.                 *)
THEOREM GroupingInStream == Spec => []GroupingFollowsStream
<1>1. Init => GroupedOK
  BY InitGrouped
<1>2. IInv /\ HeldOK /\ Streams /\ GroupedOK /\ [Next]_vars => GroupedOK'
  BY NextGrouped
<1>3. GroupedOK => GroupingFollowsStream
  BY DEF GroupedOK, GroupingFollowsStream
<1> QED
  BY <1>1, <1>2, <1>3, SpecLog, PTL DEF Spec

-----------------------------------------------------------------------------
(* Presence.  As long as no event was lost, the topic has the event of     *)
(* every arrival and departure the loop is done with, and no other.        *)
Joined(s) == \E i \in DOMAIN Broadcasted : Broadcasted[i] = Event("join", s)
Left(s)   == \E i \in DOMAIN Broadcasted : Broadcasted[i] = Event("leave", s)

HasJoined(s) == pump[s] \notin {"idle", "registering"} /\ ~(run = "joined" /\ peer = s)
HasLeft(s)   == pump[s] \in {"closing", "closed"} /\ ~(run \in {"removing", "left"} /\ peer = s)

Presence ==
    /\ ~eventLost => \A s \in Clients : (HasJoined(s) => Joined(s)) /\ (HasLeft(s) => Left(s))
    /\ \A s \in Clients, i, j \in DOMAIN Broadcasted :
          Broadcasted[i] = Event("join", s) /\ Broadcasted[j] = Event("leave", s) => i < j

(* It holds initially. *)
LEMMA InitPresence == Init => Presence
<1> SUFFICES ASSUME Init PROVE Presence
  OBVIOUS
<1>1. Broadcasted = <<>> /\ \A s \in Clients : pump[s] = "idle"
  BY DEF Init, Broadcasted
<1> QED
  BY <1>1 DEF Presence, HasJoined, HasLeft

(* A step preserves it that leaves the topic alone and completes no        *)
(* arrival and no departure.                                               *)
LEMMA SamePresence ==
    ASSUME Presence, UNCHANGED <<Broadcasted, eventLost>>,
           \A s \in Clients : (HasJoined(s)' => HasJoined(s)) /\ (HasLeft(s)' => HasLeft(s))
    PROVE  Presence'
<1>1. \A s \in Clients : Joined(s)' = Joined(s) /\ Left(s)' = Left(s)
  BY DEF Joined, Left
<1> QED
  BY <1>1 DEF Presence

(* Every step preserves it. *)
LEMMA NextPresence == IInv /\ HeldOK /\ Events /\ Presence /\ [Next]_vars => Presence'
<1> SUFFICES ASSUME IInv, HeldOK, Events, Presence, [Next]_vars PROVE Presence'
  OBVIOUS
<1>types. /\ broadcast \in Seq(Items) /\ log \in Seq(Items) /\ Broadcasted \in Seq(Items)
          /\ pump \in [Clients -> PumpStates]
  BY DEF IInv, TypeOK, Broadcasted
<1>1. ASSUME NEW s \in Clients, RunRegister(s) \/ RunUnregister(s) PROVE Presence'
  <2>1. UNCHANGED <<Broadcasted, eventLost>>
    BY <1>1 DEF RunRegister, RunUnregister, Broadcasted, histVars
  <2>2. \A q \in Clients : (HasJoined(q)' => HasJoined(q)) /\ (HasLeft(q)' => HasLeft(q))
    BY <1>1, <1>types DEF RunRegister, RunUnregister, HasJoined, HasLeft
  <2> QED
    BY <2>1, <2>2, SamePresence
<1>2. ASSUME NEW s \in Clients, PumpStep(s) PROVE Presence'
  <2>1. UNCHANGED <<Broadcasted, eventLost, run, peer>>
    BY <1>2 DEF PumpStep, HandleSSEStream, Disconnect, PumpDone, PumpTake, PumpWritten,
                PumpWriteFail, PumpClose, Broadcasted, hubVars, histVars
  <2>2. \A q \in Clients : (HasJoined(q)' => HasJoined(q)) /\ (HasLeft(q)' => HasLeft(q))
    BY <1>2, <2>1, <1>types
       DEF PumpStep, HandleSSEStream, Disconnect, PumpDone, PumpTake, PumpWritten,
           PumpWriteFail, PumpClose, HasJoined, HasLeft
  <2> QED
    BY <2>1, <2>2, SamePresence
<1>3. CASE RunRemove
  <2>1. /\ UNCHANGED <<Broadcasted, eventLost, pump>>
        /\ run = "removing"
        /\ \/ run' = "left" /\ peer' = peer
           \/ peer \notin subscribers
    BY <1>3 DEF RunRemove, Broadcasted, pumpVars, histVars
  <2>2. peer \in subscribers
    BY <2>1 DEF Events, IInv, ControlOK, SubscribedOK
  <2>3. \A q \in Clients : (HasJoined(q)' => HasJoined(q)) /\ (HasLeft(q)' => HasLeft(q))
    BY <2>1, <2>2 DEF HasJoined, HasLeft
  <2> QED
    BY <2>1, <2>3, SamePresence
<1>4. CASE BroadcastEvent
  <2> DEFINE e == Event(IF run = "joined" THEN "join" ELSE "leave", peer)
  <2>1. /\ run \in {"joined", "left"} /\ run' = "select" /\ peer \in Clients
        /\ UNCHANGED <<log, pump>> /\ OfferEvent(e)
    BY <1>4 DEF BroadcastEvent, IInv, ControlOK, pumpVars
  <2>2. /\ e \in Items
        /\ run = "joined" => e = Event("join", peer)
        /\ run = "left" => e = Event("leave", peer)
        /\ \A s \in Clients : (e = Event("join", s) => s = peer /\ run = "joined")
                          /\ (e = Event("leave", s) => s = peer /\ run = "left")
    BY <2>1, EventType DEF Event
  <2>3. run = "joined" => ~Left(peer)
    BY <2>1 DEF Events, Left, HeldOK, IInv, SubscribedOK
  <2> HIDE DEF e
  <2>4. CASE eventLost' /\ broadcast' = broadcast
    BY <2>4, <2>1 DEF Presence, Broadcasted
  <2>5. CASE eventLost' = eventLost /\ broadcast' = Append(broadcast, e)
    <3>1. Broadcasted' = Append(Broadcasted, e)
      BY <1>types, <2>1, <2>2, <2>5, AppendLater DEF Broadcasted
    <3>2. /\ DOMAIN Broadcasted' = DOMAIN Broadcasted \cup {Len(Broadcasted) + 1}
          /\ DOMAIN Broadcasted = 1..Len(Broadcasted) /\ Len(Broadcasted) \in Nat
          /\ \A i \in DOMAIN Broadcasted : Broadcasted'[i] = Broadcasted[i]
          /\ Broadcasted'[Len(Broadcasted) + 1] = e
      BY <1>types, <2>2, <3>1
    <3>3. \A s \in Clients : (Joined(s) => Joined(s)') /\ (Left(s) => Left(s)')
      BY <3>2 DEF Joined, Left
    <3>4. \A s \in Clients : (s = peer /\ run = "joined" => Joined(s)') /\ (s = peer /\ run = "left" => Left(s)')
      BY <2>2, <3>2 DEF Joined, Left
    <3>5. \A s \in Clients : /\ HasJoined(s)' => HasJoined(s) \/ (s = peer /\ run = "joined")
                             /\ HasLeft(s)' => HasLeft(s) \/ (s = peer /\ run = "left")
      BY <2>1 DEF HasJoined, HasLeft
    <3>6. ~eventLost' => \A s \in Clients : (HasJoined(s)' => Joined(s)') /\ (HasLeft(s)' => Left(s)')
      BY <2>5, <3>3, <3>4, <3>5, Zenon DEF Presence
    <3>7. \A s \in Clients, i, j \in DOMAIN Broadcasted' :
            Broadcasted'[i] = Event("join", s) /\ Broadcasted'[j] = Event("leave", s) => i < j
      <4> SUFFICES ASSUME NEW s \in Clients, NEW i \in DOMAIN Broadcasted', NEW j \in DOMAIN Broadcasted',
                          Broadcasted'[i] = Event("join", s), Broadcasted'[j] = Event("leave", s)
                   PROVE  i < j
        OBVIOUS
      <4>1. CASE i \in DOMAIN Broadcasted /\ j \in DOMAIN Broadcasted
        BY <4>1, <3>2 DEF Presence
      <4>2. CASE i \in DOMAIN Broadcasted /\ j = Len(Broadcasted) + 1
        BY <4>2, <3>2
      <4>3. CASE i = Len(Broadcasted) + 1 /\ j \in DOMAIN Broadcasted
        BY <4>3, <2>2, <2>3, <3>2 DEF Left
      <4>4. CASE i = Len(Broadcasted) + 1 /\ j = Len(Broadcasted) + 1
        BY <4>4, <2>2, <3>2
      <4> QED
        BY <3>2, <4>1, <4>2, <4>3, <4>4
    <3> QED
      BY <3>6, <3>7 DEF Presence
  <2> QED
    BY <2>1, <2>4, <2>5 DEF OfferEvent
<1>5. CASE RunTake
  <2>1. /\ broadcast # <<>> /\ broadcast' = Tail(broadcast) /\ run = "select" /\ run' = "deliver"
        /\ log' = Append(log, Head(broadcast)) /\ UNCHANGED <<pump, peer, eventLost>>
    BY <1>5 DEF RunTake, pumpVars
  <2>2. Broadcasted' = Broadcasted
    BY <2>1, <1>types, MoveHead DEF Broadcasted
  <2>3. \A q \in Clients : (HasJoined(q)' => HasJoined(q)) /\ (HasLeft(q)' => HasLeft(q))
    BY <2>1 DEF HasJoined, HasLeft
  <2> QED
    BY <2>1, <2>2, <2>3, SamePresence
<1>6. CASE RunDone \/ RunStop \/ Stop \/ UNCHANGED vars \/ (\E s \in Clients : RunDeliver(s))
                   \/ (\E w \in Senders : Save(w))
  <2>1. UNCHANGED <<Broadcasted, eventLost, pump, peer>>
    BY <1>6 DEF RunDone, RunStop, Stop, vars, RunDeliver, Save, Broadcasted, hubVars, pumpVars, histVars
  <2>2. run' = run \/ run \in {"deliver", "select"}
    BY <1>6 DEF RunDone, RunStop, Stop, vars, RunDeliver, Save, hubVars
  <2>3. \A q \in Clients : (HasJoined(q)' => HasJoined(q)) /\ (HasLeft(q)' => HasLeft(q))
    BY <2>1, <2>2 DEF HasJoined, HasLeft
  <2> QED
    BY <2>1, <2>3, SamePresence
<1>7. ASSUME NEW w \in Senders, BroadcastMessage(w) PROVE Presence'
  <2> DEFINE m == Message(w, msgId[w])
  <2>1. /\ UNCHANGED <<log, pump, run, peer, eventLost>> /\ broadcast' = Append(broadcast, m) /\ handler[w] = "saved"
    BY <1>7 DEF BroadcastMessage, hubVars, pumpVars, histVars
  <2>2. m \in Items /\ \A s \in Clients : m # Event("join", s) /\ m # Event("leave", s)
    BY <2>1, MessageType DEF IInv, ControlOK, Message, Event
  <2> HIDE DEF m
  <2>3. Broadcasted' = Append(Broadcasted, m)
    BY <1>types, <2>1, <2>2, AppendLater DEF Broadcasted
  <2>4. /\ DOMAIN Broadcasted' = DOMAIN Broadcasted \cup {Len(Broadcasted) + 1}
        /\ \A i \in DOMAIN Broadcasted : Broadcasted'[i] = Broadcasted[i]
        /\ Broadcasted'[Len(Broadcasted) + 1] = m
    BY <1>types, <2>2, <2>3
  <2>5. \A s \in Clients : (Joined(s) => Joined(s)') /\ (Left(s) => Left(s)')
    BY <2>4 DEF Joined, Left
  <2>6. \A s \in Clients : HasJoined(s)' = HasJoined(s) /\ HasLeft(s)' = HasLeft(s)
    BY <2>1 DEF HasJoined, HasLeft
  <2>7. \A s \in Clients, i, j \in DOMAIN Broadcasted' :
          Broadcasted'[i] = Event("join", s) /\ Broadcasted'[j] = Event("leave", s) => i < j
    BY <2>2, <2>4 DEF Presence
  <2> QED
    BY <2>1, <2>5, <2>6, <2>7 DEF Presence
<1> QED
  BY <1>1, <1>2, <1>3, <1>4, <1>5, <1>6, <1>7 DEF Next, RunInternal

(* Whoever folds the join and leave events knows the subscriber map, as    *)
(* long as none was lost, for any numbers of connections and senders.      *)
THEOREM PresenceKnown == Spec => []PresenceFromEvents
<1>1. IInv /\ Events /\ Presence => PresenceFromEvents
  <2> SUFFICES ASSUME IInv, Events, Presence, run = "select", ~eventLost
               PROVE  /\ subscribers =
                            {s \in Clients : /\ Event("join", s) \in Elements(Broadcasted)
                                             /\ Event("leave", s) \notin Elements(Broadcasted)}
                      /\ \A i, j \in 1..Len(Broadcasted) :
                            /\ Broadcasted[i].kind = "join"
                            /\ Broadcasted[j] = Event("leave", Broadcasted[i].from)
                            => i < j
    BY DEF PresenceFromEvents
  <2>1. Broadcasted \in Seq(Items)
    BY DEF IInv, TypeOK, Broadcasted
  <2>2. DOMAIN Broadcasted = 1..Len(Broadcasted)
    BY <2>1
  <2>3. \A s \in Clients : /\ Event("join", s) \in Elements(Broadcasted) <=> Joined(s)
                           /\ Event("leave", s) \in Elements(Broadcasted) <=> Left(s)
    BY <2>2, Zenon DEF Elements, Joined, Left
  <2>4. \A s \in Clients : (Joined(s) <=> HasJoined(s)) /\ (Left(s) <=> HasLeft(s))
    BY DEF Presence, Events, Joined, Left, HasJoined, HasLeft
  <2>5. \A s \in Clients : s \in subscribers <=> HasJoined(s) /\ ~HasLeft(s)
    BY DEF IInv, TypeOK, SubscribedOK, PumpStates, HasJoined, HasLeft
  <2>6. subscribers \subseteq Clients
    BY DEF IInv, TypeOK
  <2>7. subscribers =
          {s \in Clients : /\ Event("join", s) \in Elements(Broadcasted)
                           /\ Event("leave", s) \notin Elements(Broadcasted)}
    <3>1. \A s \in Clients : s \in subscribers <=> /\ Event("join", s) \in Elements(Broadcasted)
                                                   /\ Event("leave", s) \notin Elements(Broadcasted)
      BY <2>3, <2>4, <2>5, Zenon
    <3> QED
      BY <2>6, <3>1
  <2>8. \A i \in 1..Len(Broadcasted) : Broadcasted[i].kind = "join" =>
          Broadcasted[i].from \in Clients /\ Broadcasted[i] = Event("join", Broadcasted[i].from)
    <3>1. \A i \in 1..Len(Broadcasted) : Broadcasted[i] \in Items
      BY <2>1
    <3> QED
      BY <3>1 DEF Items, Event
  <2>9. \A i, j \in 1..Len(Broadcasted) :
          /\ Broadcasted[i].kind = "join"
          /\ Broadcasted[j] = Event("leave", Broadcasted[i].from)
          => i < j
    BY <2>2, <2>8 DEF Presence
  <2> QED
    BY <2>7, <2>9
<1>2. Init => Presence
  BY InitPresence
<1>3. IInv /\ HeldOK /\ Events /\ Presence /\ [Next]_vars => Presence'
  BY NextPresence
<1> QED
  BY <1>1, <1>2, <1>3, SpecStreams, SpecHeldOK, PTL DEF Spec
=============================================================================
