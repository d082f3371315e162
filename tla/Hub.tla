-------------------------------- MODULE Hub --------------------------------
(***************************************************************************)
(* The chat hub (server/hub.go) together with the handlers that drive it.  *)
(*                                                                         *)
(* Goroutines:                                                             *)
(*   - Hub.Run, one event loop selecting over the channels register,       *)
(*     unregister, stop and broadcast;                                     *)
(*   - per SSE connection, HandleSSEStream followed by writePump, which    *)
(*     selects over the request context and the subscriber's send channel; *)
(*   - per POST /messages request, apiImpl.SendMessage: Save, then         *)
(*     BroadcastMessage, then the reply.                                   *)
(*                                                                         *)
(* register and unregister are unbuffered, so a send and its receive are   *)
(* one joint step.  broadcast and every send channel are buffered and are  *)
(* modelled as sequences.  A connection has a fresh random client id, so   *)
(* an element of Clients stands for one connection and connects once.      *)
(* Requests that a handler rejects change no state and are stuttering.     *)
(***************************************************************************)
EXTENDS Integers, Sequences, FiniteSets

CONSTANTS
    Clients,      \* SSE connections, each with its own client id
    HtmlClients,  \* those that asked for ?format=html (renderHTML)
    Senders,      \* users posting messages, one request at a time each
    MaxMessages,  \* bound: number of messages ever saved
    BroadcastCap, \* capacity of Hub.broadcast (256 in the code)
    SendCap,      \* capacity of Subscriber.send (256 in the code)
    NoClient      \* "no subscriber is being handled by the Run loop"

ASSUME ClientsAssumption == HtmlClients \subseteq Clients /\ NoClient \notin Clients
ASSUME BoundsAssumption  == MaxMessages \in Nat
ASSUME CapAssumption     == BroadcastCap \in Nat \ {0} /\ SendCap \in Nat \ {0}

VARIABLES
    broadcast,    \* Hub.broadcast: items waiting for the Run loop
    subscribers,  \* Hub.subscribers: the keys of the map
    run,          \* where Hub.Run is
    peer,         \* the subscriber of the register/unregister case being run
    frame,        \* the item being fanned out and what it was grouped against
    todo,         \* subscribers the fan-out has not reached yet
    stop,         \* Hub.stop is closed
    lastMsg,      \* id of the message lastMsgUser/Time/Date describe, 0 if none
    pump,         \* where each connection's handler goroutine is
    send,         \* Subscriber.send
    out,          \* frames the pump has received, oldest first
    ctxDone,      \* the request context is cancelled (the client is gone)
    handler,      \* where each sender's SendMessage request is
    msgId,        \* id Save returned to the request, 0 when there is none
    lastId,       \* highest id of the messages table (AUTOINCREMENT)
    log,          \* history: items the Run loop has taken off broadcast
    regAt,        \* history: Len(log) when the connection was registered
    dropped,      \* history: items fanned out to a subscriber and discarded
    eventLost     \* history: broadcastEvent has discarded an event

hubVars     == <<subscribers, run, peer, frame, todo, stop, lastMsg>>
pumpVars    == <<pump, send, out, ctxDone>>
handlerVars == <<handler, msgId, lastId>>
histVars    == <<log, regAt, dropped, eventLost>>
vars == <<broadcast, hubVars, pumpVars, handlerVars, histVars>>

-----------------------------------------------------------------------------
(* What travels on Hub.broadcast: a client.Broadcast or a client.Event.    *)
(* The JSON encoding keeps every field used here.                          *)

Message(w, n)  == [kind |-> "message", from |-> w, id |-> n]
Event(k, s)    == [kind |-> k, from |-> s, id |-> 0]

Items == [kind : {"message"}, from : Senders, id : 1..MaxMessages]
           \cup [kind : {"join", "leave"}, from : Clients, id : {0}]

(* What travels on Subscriber.send.  prev is the id of the message the     *)
(* rendered fragment was grouped against (it decides whether avatar, name, *)
(* timestamp and date header are shown); 0 for JSON frames, for events and *)
(* for a fragment rendered before any other.                               *)
Frames == [item : Items, prev : 0..MaxMessages]

NoFrame == [item |-> Event("join", NoClient), prev |-> 0]

RunStates     == {"select", "joined", "removing", "left", "deliver", "stopped"}
PumpStates    == {"idle", "registering", "select", "writing",
                  "leaving", "closing", "closed"}
HandlerStates == {"idle", "saved"}

-----------------------------------------------------------------------------
(* Mutated forms of the actions below: each is a bug this code could have. *)
(* They are no part of the specification; every property is violated when  *)
(* the one listed for it in PROJECT.json stands in for the real action.    *)

(* broadcastEvent with a plain, blocking channel send.                     *)
OfferEvent_Blocking(e) ==
    /\ Len(broadcast) < BroadcastCap
    /\ broadcast' = Append(broadcast, e)
    /\ UNCHANGED eventLost

(* The register case does not announce the subscriber.                     *)
RunRegister_Silent(s) ==
    /\ run = "select"
    /\ pump[s] = "registering"
    /\ pump' = [pump EXCEPT ![s] = "select"]
    /\ subscribers' = subscribers \cup {s}
    /\ regAt' = [regAt EXCEPT ![s] = Len(log)]
    /\ UNCHANGED <<broadcast, run, peer, frame, todo, stop, lastMsg, send, out,
                   ctxDone, handlerVars, log, dropped, eventLost>>

(* The unregister case forgets the leave event.                            *)
RunRemove_Silent ==
    /\ run = "removing"
    /\ subscribers' = subscribers \ {peer}
    /\ run'  = "select"
    /\ peer' = NoClient
    /\ UNCHANGED <<broadcast, frame, todo, stop, lastMsg,
                   pumpVars, handlerVars, histVars>>

(* The fan-out happens only inside "if hasHTMLSubs".                       *)
RunTake_OnlyHtml ==
    LET item   == Head(broadcast)
        html   == subscribers \cap HtmlClients # {}
        render == item.kind = "message" /\ html
    IN /\ run = "select"
       /\ broadcast # <<>>
       /\ broadcast' = Tail(broadcast)
       /\ frame'   = [item |-> item, prev |-> IF render THEN lastMsg ELSE 0]
       /\ lastMsg' = IF render THEN item.id ELSE lastMsg
       /\ todo'    = IF html THEN subscribers ELSE {}
       /\ run'     = "deliver"
       /\ log'     = Append(log, item)
       /\ UNCHANGED <<subscribers, peer, stop, pumpVars, handlerVars,
                      regAt, dropped, eventLost>>

(* lastMsgUser, lastMsgTime and lastMsgDate are never written back.        *)
RunTake_KeepsLast ==
    LET item   == Head(broadcast)
        render == item.kind = "message" /\ subscribers \cap HtmlClients # {}
    IN /\ run = "select"
       /\ broadcast # <<>>
       /\ broadcast' = Tail(broadcast)
       /\ frame'   = [item |-> item, prev |-> IF render THEN lastMsg ELSE 0]
       /\ lastMsg' = lastMsg
       /\ todo'    = subscribers
       /\ run'     = "deliver"
       /\ log'     = Append(log, item)
       /\ UNCHANGED <<subscribers, peer, stop, pumpVars, handlerVars,
                      regAt, dropped, eventLost>>

(* A full subscriber puts the item back on broadcast to be retried.        *)
RunDeliver_Requeue(s) ==
    /\ run = "deliver"
    /\ s \in todo
    /\ todo' = todo \ {s}
    /\ IF Len(send[s]) < SendCap
         THEN /\ send' = [send EXCEPT ![s] =
                           Append(@, [item |-> frame.item, prev |-> 0])]
              /\ UNCHANGED broadcast
         ELSE /\ Len(broadcast) < BroadcastCap
              /\ broadcast' = Append(broadcast, frame.item)
              /\ UNCHANGED send
    /\ UNCHANGED <<subscribers, run, peer, frame, stop, lastMsg,
                   pump, out, ctxDone, handlerVars, histVars>>

(* A full subscriber loses its oldest frame instead of this one.           *)
RunDeliver_OldestOut(s) ==
    /\ run = "deliver"
    /\ s \in todo
    /\ todo' = todo \ {s}
    /\ send' = [send EXCEPT ![s] =
                 Append(IF Len(@) < SendCap THEN @ ELSE Tail(@), [item |-> frame.item, prev |-> 0])]
    /\ UNCHANGED <<broadcast, subscribers, run, peer, frame, stop, lastMsg,
                   pump, out, ctxDone, handlerVars, histVars>>

(* The fan-out waits for room in a full subscriber's buffer.               *)
RunDeliver_Blocking(s) ==
    /\ run = "deliver"
    /\ s \in todo
    /\ Len(send[s]) < SendCap
    /\ todo' = todo \ {s}
    /\ send' = [send EXCEPT ![s] = Append(@, [item |-> frame.item, prev |-> 0])]
    /\ UNCHANGED <<broadcast, subscribers, run, peer, frame, stop, lastMsg,
                   pump, out, ctxDone, handlerVars, histVars>>

(* The context is looked at only after a frame has been received.          *)
PumpDone_IfQueued(s) ==
    /\ pump[s] = "select"
    /\ ctxDone[s]
    /\ send[s] # <<>>
    /\ pump' = [pump EXCEPT ![s] = "leaving"]
    /\ UNCHANGED <<broadcast, hubVars, send, out, ctxDone, handlerVars, histVars>>

(* Frames are written in pairs and a lone one is kept back.                *)
PumpTake_Pairs(s) ==
    /\ pump[s] = "select"
    /\ Len(send[s]) >= 2
    /\ send' = [send EXCEPT ![s] = Tail(@)]
    /\ out'  = [out EXCEPT ![s] = Append(@, Head(send[s]))]
    /\ pump' = [pump EXCEPT ![s] = "writing"]
    /\ UNCHANGED <<broadcast, hubVars, ctxDone, handlerVars, histVars>>

(* The deferred function closes send without waiting for the hub.          *)
PumpClose_WithoutUnregister(s) ==
    /\ pump[s] = "leaving"
    /\ pump' = [pump EXCEPT ![s] = "closed"]
    /\ UNCHANGED <<broadcast, hubVars, send, out, ctxDone, handlerVars, histVars>>

(* BroadcastMessage overruns the buffer, or gives up when it is full.      *)
BroadcastMessage_Unbounded(w) ==
    /\ handler[w] = "saved"
    /\ broadcast' = Append(broadcast, Message(w, msgId[w]))
    /\ handler'   = [handler EXCEPT ![w] = "idle"]
    /\ msgId'     = [msgId EXCEPT ![w] = 0]
    /\ UNCHANGED <<hubVars, pumpVars, lastId, histVars>>

BroadcastMessage_DropWhenFull(w) ==
    /\ handler[w] = "saved"
    /\ broadcast' = IF Len(broadcast) < BroadcastCap
                      THEN Append(broadcast, Message(w, msgId[w]))
                      ELSE broadcast
    /\ handler'   = [handler EXCEPT ![w] = "idle"]
    /\ msgId'     = [msgId EXCEPT ![w] = 0]
    /\ UNCHANGED <<hubVars, pumpVars, lastId, histVars>>

-----------------------------------------------------------------------------
Init ==
    /\ broadcast   = <<>>
    /\ subscribers = {}
    /\ run         = "select"
    /\ peer        = NoClient
    /\ frame       = NoFrame
    /\ todo        = {}
    /\ stop        = FALSE
    /\ lastMsg     = 0
    /\ pump        = [s \in Clients |-> "idle"]
    /\ send        = [s \in Clients |-> <<>>]
    /\ out         = [s \in Clients |-> <<>>]
    /\ ctxDone     = [s \in Clients |-> FALSE]
    /\ handler     = [w \in Senders |-> "idle"]
    /\ msgId       = [w \in Senders |-> 0]
    /\ lastId      = 0
    /\ log         = <<>>
    /\ regAt       = [s \in Clients |-> 0]
    /\ dropped     = [s \in Clients |-> {}]
    /\ eventLost   = FALSE

-----------------------------------------------------------------------------
(* Hub.Run and broadcastEvent.                                             *)

(* Offer one event to the broadcast channel without ever blocking.         *)
OfferEvent(e) ==
    IF Len(broadcast) < BroadcastCap
      THEN /\ broadcast' = Append(broadcast, e)
           /\ UNCHANGED eventLost
      ELSE /\ eventLost' = TRUE
           /\ UNCHANGED broadcast

(* case sub := <-h.register; the handler goroutine goes on into writePump. *)
RunRegister(s) ==
    /\ run = "select"
    /\ pump[s] = "registering"
    /\ subscribers' = subscribers \cup {s}
    /\ pump'  = [pump EXCEPT ![s] = "select"]
    /\ run'   = "joined"
    /\ peer'  = s
    /\ regAt' = [regAt EXCEPT ![s] = Len(log)]
    /\ UNCHANGED <<broadcast, frame, todo, stop, lastMsg, send, out, ctxDone,
                   handlerVars, log, dropped, eventLost>>

(* case sub := <-h.unregister; the pump's deferred function is released    *)
(* and closes send while the loop goes on to look the subscriber up.       *)
RunUnregister(s) ==
    /\ run = "select"
    /\ pump[s] = "leaving"
    /\ pump' = [pump EXCEPT ![s] = "closing"]
    /\ run'  = "removing"
    /\ peer' = s
    /\ UNCHANGED <<broadcast, subscribers, frame, todo, stop, lastMsg,
                   send, out, ctxDone, handlerVars, histVars>>

(* Delete the subscriber if the map has it; only then is there an event.   *)
RunRemove ==
    /\ run = "removing"
    /\ subscribers' = subscribers \ {peer}
    /\ IF peer \in subscribers
         THEN run' = "left" /\ UNCHANGED peer
         ELSE run' = "select" /\ peer' = NoClient
    /\ UNCHANGED <<broadcast, frame, todo, stop, lastMsg,
                   pumpVars, handlerVars, histVars>>

(* broadcastEvent("join" / "leave", ...), then back to the select.         *)
BroadcastEvent ==
    /\ run \in {"joined", "left"}
    /\ OfferEvent(Event(IF run = "joined" THEN "join" ELSE "leave", peer))
    /\ run'  = "select"
    /\ peer' = NoClient
    /\ UNCHANGED <<subscribers, frame, todo, stop, lastMsg,
                   pumpVars, handlerVars, log, regAt, dropped>>

(* case msg := <-h.broadcast: with an HTML subscriber present a message is *)
(* rendered against lastMsg, which it then replaces; without one lastMsg   *)
(* is left as it was.  The fan-out covers the map as it is now.            *)
RunTake ==
    LET item   == Head(broadcast)
        render == item.kind = "message" /\ subscribers \cap HtmlClients # {}
    IN /\ run = "select"
       /\ broadcast # <<>>
       /\ broadcast' = Tail(broadcast)
       /\ frame'   = [item |-> item, prev |-> IF render THEN lastMsg ELSE 0]
       /\ lastMsg' = IF render THEN item.id ELSE lastMsg
       /\ todo'    = subscribers
       /\ run'     = "deliver"
       /\ log'     = Append(log, item)
       /\ UNCHANGED <<subscribers, peer, stop, pumpVars, handlerVars,
                      regAt, dropped, eventLost>>

(* The frame as subscriber s gets it: the fragment or the raw JSON.        *)
FrameFor(s) == [item |-> frame.item,
                prev |-> IF s \in HtmlClients THEN frame.prev ELSE 0]

(* Non-blocking send to one subscriber, in the map's arbitrary order; a    *)
(* full buffer drops the frame, a closed channel panics and is recovered.  *)
RunDeliver(s) ==
    /\ run = "deliver"
    /\ s \in todo
    /\ todo' = todo \ {s}
    /\ IF pump[s] # "closed" /\ Len(send[s]) < SendCap
         THEN /\ send' = [send EXCEPT ![s] = Append(@, FrameFor(s))]
              /\ UNCHANGED dropped
         ELSE /\ dropped' = [dropped EXCEPT ![s] = @ \cup {frame.item}]
              /\ UNCHANGED send
    /\ UNCHANGED <<broadcast, subscribers, run, peer, frame, stop, lastMsg,
                   pump, out, ctxDone, handlerVars, log, regAt, eventLost>>

(* The fan-out loop is over.                                               *)
RunDone ==
    /\ run = "deliver"
    /\ todo = {}
    /\ run'   = "select"
    /\ frame' = NoFrame
    /\ UNCHANGED <<broadcast, subscribers, peer, todo, stop, lastMsg,
                   pumpVars, handlerVars, histVars>>

(* case <-h.stop: the loop returns.                                        *)
RunStop ==
    /\ run = "select"
    /\ stop
    /\ run' = "stopped"
    /\ UNCHANGED <<broadcast, subscribers, peer, frame, todo, stop, lastMsg,
                   pumpVars, handlerVars, histVars>>

(* Hub.Stop, called once by the shutdown goroutine of Server.Serve.        *)
Stop ==
    /\ ~stop
    /\ stop' = TRUE
    /\ UNCHANGED <<broadcast, subscribers, run, peer, frame, todo, lastMsg,
                   pumpVars, handlerVars, histVars>>

-----------------------------------------------------------------------------
(* HandleSSEStream and writePump.                                          *)

(* An accepted GET /messages/stream reaches h.register <- subscriber.      *)
HandleSSEStream(s) ==
    /\ pump[s] = "idle"
    /\ pump' = [pump EXCEPT ![s] = "registering"]
    /\ UNCHANGED <<broadcast, hubVars, send, out, ctxDone, handlerVars, histVars>>

(* The client goes away; net/http cancels the request context.             *)
Disconnect(s) ==
    /\ pump[s] \notin {"idle", "closed"}
    /\ ~ctxDone[s]
    /\ ctxDone' = [ctxDone EXCEPT ![s] = TRUE]
    /\ UNCHANGED <<broadcast, hubVars, pump, send, out, handlerVars, histVars>>

(* case <-s.ctx.Done(): return, which runs the deferred function.          *)
PumpDone(s) ==
    /\ pump[s] = "select"
    /\ ctxDone[s]
    /\ pump' = [pump EXCEPT ![s] = "leaving"]
    /\ UNCHANGED <<broadcast, hubVars, send, out, ctxDone, handlerVars, histVars>>

(* case msg := <-s.send: a frame is received and written to the response.  *)
PumpTake(s) ==
    /\ pump[s] = "select"
    /\ send[s] # <<>>
    /\ send' = [send EXCEPT ![s] = Tail(@)]
    /\ out'  = [out EXCEPT ![s] = Append(@, Head(send[s]))]
    /\ pump' = [pump EXCEPT ![s] = "writing"]
    /\ UNCHANGED <<broadcast, hubVars, ctxDone, handlerVars, histVars>>

(* All writes of the frame succeeded and it was flushed.                   *)
PumpWritten(s) ==
    /\ pump[s] = "writing"
    /\ pump' = [pump EXCEPT ![s] = "select"]
    /\ UNCHANGED <<broadcast, hubVars, send, out, ctxDone, handlerVars, histVars>>

(* One of the writes failed: return.  net/http cancels the context of a    *)
(* connection whose write fails.                                           *)
PumpWriteFail(s) ==
    /\ pump[s] = "writing"
    /\ pump'    = [pump EXCEPT ![s] = "leaving"]
    /\ ctxDone' = [ctxDone EXCEPT ![s] = TRUE]
    /\ UNCHANGED <<broadcast, hubVars, send, out, handlerVars, histVars>>

(* close(s.send), after s.hub.unregister <- s has been received.           *)
PumpClose(s) ==
    /\ pump[s] = "closing"
    /\ pump' = [pump EXCEPT ![s] = "closed"]
    /\ UNCHANGED <<broadcast, hubVars, send, out, ctxDone, handlerVars, histVars>>

-----------------------------------------------------------------------------
(* apiImpl.SendMessage.                                                    *)

(* An accepted request stores its message and learns its id.  The bound    *)
(* MaxMessages ends the supply of messages.                                *)
Save(w) ==
    /\ handler[w] = "idle"
    /\ lastId < MaxMessages
    /\ lastId'  = lastId + 1
    /\ msgId'   = [msgId EXCEPT ![w] = lastId + 1]
    /\ handler' = [handler EXCEPT ![w] = "saved"]
    /\ UNCHANGED <<broadcast, hubVars, pumpVars, histVars>>

(* h.broadcast <- data blocks while the buffer is full; then the reply.    *)
BroadcastMessage(w) ==
    /\ handler[w] = "saved"
    /\ Len(broadcast) < BroadcastCap
    /\ broadcast' = Append(broadcast, Message(w, msgId[w]))
    /\ handler'   = [handler EXCEPT ![w] = "idle"]
    /\ msgId'     = [msgId EXCEPT ![w] = 0]
    /\ UNCHANGED <<hubVars, pumpVars, lastId, histVars>>

-----------------------------------------------------------------------------
RunInternal == RunRemove \/ BroadcastEvent \/ RunDone \/ \E s \in Clients : RunDeliver(s)

PumpStep(s) ==
    \/ HandleSSEStream(s) \/ Disconnect(s) \/ PumpDone(s) \/ PumpTake(s)
    \/ PumpWritten(s) \/ PumpWriteFail(s) \/ PumpClose(s)

Next ==
    \/ \E s \in Clients : RunRegister(s) \/ RunUnregister(s) \/ PumpStep(s)
    \/ RunInternal \/ RunTake \/ RunStop \/ Stop
    \/ \E w \in Senders : Save(w) \/ BroadcastMessage(w)

Spec == Init /\ [][Next]_vars

(* Scheduling the Go runtime provides.  A goroutine that can run does run; *)
(* a select picks among its ready cases at random and waiters on a channel *)
(* are served in order, hence strong fairness for the cases that compete.  *)
(* A write on a connection whose client is gone returns.  Nothing is       *)
(* assumed of a client that stays connected and does not read (the server  *)
(* has WriteTimeout 0), nor that anyone connects, leaves, posts or stops.  *)
PumpFairness(s) ==
    /\ SF_vars(RunRegister(s)) /\ SF_vars(RunUnregister(s))
    /\ SF_vars(PumpDone(s))
    /\ WF_vars(PumpTake(s)) /\ WF_vars(PumpClose(s))
    /\ WF_vars(ctxDone[s] /\ (PumpWritten(s) \/ PumpWriteFail(s)))

Fairness ==
    /\ WF_vars(RunInternal) /\ SF_vars(RunTake)
    /\ \A s \in Clients : PumpFairness(s)
    /\ \A w \in Senders : SF_vars(BroadcastMessage(w))

FairSpec == Spec /\ Fairness

-----------------------------------------------------------------------------
(* Safety.                                                                 *)

(* Every variable has its type and no channel exceeds its capacity.        *)
TypeOK ==
    /\ broadcast \in Seq(Items) /\ Len(broadcast) <= BroadcastCap
    /\ subscribers \subseteq Clients
    /\ run \in RunStates
    /\ peer \in Clients \cup {NoClient}
    /\ frame \in Frames \cup {NoFrame}
    /\ todo \subseteq Clients
    /\ stop \in BOOLEAN
    /\ lastMsg \in 0..MaxMessages
    /\ pump \in [Clients -> PumpStates]
    /\ send \in [Clients -> Seq(Frames)]
    /\ \A s \in Clients : Len(send[s]) <= SendCap
    /\ out \in [Clients -> Seq(Frames)]
    /\ ctxDone \in [Clients -> BOOLEAN]
    /\ handler \in [Senders -> HandlerStates]
    /\ msgId \in [Senders -> 0..MaxMessages]
    /\ lastId \in 0..MaxMessages
    /\ log \in Seq(Items)
    /\ regAt \in [Clients -> Nat]
    /\ dropped \in [Clients -> SUBSET Items]
    /\ eventLost \in BOOLEAN

(* The fan-out never sends on a closed channel: the recover() around it in *)
(* Run is never needed, because a pump closes send only after the loop has *)
(* received it from unregister, and the loop deletes it before it fans out *)
(* again.                                                                  *)
NoSendOnClosedChannel ==
    run = "deliver" => \A s \in todo : pump[s] # "closed"

ItemsOf(frames) == [i \in 1..Len(frames) |-> frames[i].item]
Stream(s) == out[s] \o send[s]
Elements(seq) == {seq[i] : i \in 1..Len(seq)}

(* What the Run loop has offered s since it was registered.                *)
Offered(s) ==
    SubSeq(log, regAt[s] + 1,
           IF run = "deliver" /\ s \in todo THEN Len(log) - 1 ELSE Len(log))

(* A registered subscriber's stream holds what the loop took off broadcast *)
(* since the registration, less exactly what was dropped for that          *)
(* subscriber, each item once and in the loop's order: no other            *)
(* subscriber's full buffer, format or departure shows in it.              *)
StreamMatchesLog ==
    \A s \in subscribers :
        LET items   == ItemsOf(Stream(s))
            offered == Offered(s)
        IN /\ Elements(items) = Elements(offered) \ dropped[s]
           /\ \A i \in DOMAIN items, k \in DOMAIN offered : items[i] = offered[k] =>
                 \A j \in DOMAIN items, l \in DOMAIN offered :
                    items[j] = offered[l] => (i < j <=> k < l)

(* Everything ever put on broadcast and not discarded by broadcastEvent.   *)
Broadcasted == log \o broadcast

(* Whoever folds the join and leave events, in the order they are          *)
(* broadcast, knows the subscriber map, as long as no event found the      *)
(* broadcast buffer full.                                                  *)
PresenceFromEvents ==
    run = "select" /\ ~eventLost =>
        /\ subscribers =
              {s \in Clients : /\ Event("join", s) \in Elements(Broadcasted)
                               /\ Event("leave", s) \notin Elements(Broadcasted)}
        /\ \A i, j \in 1..Len(Broadcasted) :
              /\ Broadcasted[i].kind = "join"
              /\ Broadcasted[j] = Event("leave", Broadcasted[i].from)
              => i < j

(* frames[i] and frames[j] are messages with only events between them.     *)
NextMessage(frames, i, j) ==
    /\ i < j /\ frames[i].item.kind = "message" /\ frames[j].item.kind = "message"
    /\ \A k \in (i + 1)..(j - 1) : frames[k].item.kind # "message"

(* A live HTML fragment is grouped (avatar, name, time and date header     *)
(* shown or not) against the message displayed right before it: lastMsg is *)
(* shared by all HTML subscribers and yet, for one that has lost nothing,  *)
(* always describes the previous message of its own stream.                *)
GroupingFollowsStream ==
    \A s \in HtmlClients :
        dropped[s] = {} =>
            \A i, j \in DOMAIN Stream(s) :
                NextMessage(Stream(s), i, j) => Stream(s)[j].prev = Stream(s)[i].item.id

Posted(n) == \E i \in DOMAIN Broadcasted :
                Broadcasted[i].kind = "message" /\ Broadcasted[i].id = n
Owed(n)   == \E w \in Senders : handler[w] = "saved" /\ msgId[w] = n

(* Every stored message is broadcast exactly once, or its request is still *)
(* waiting to hand it over: a reply 200 means the hub has the message.     *)
AckedIsBroadcast ==
    /\ \A n \in 1..lastId : Posted(n) # Owed(n)
    /\ \A i, j \in DOMAIN Broadcasted :
          /\ Broadcasted[i].kind = "message" /\ Broadcasted[j].kind = "message"
          /\ Broadcasted[i].id = Broadcasted[j].id
          => i = j

(* On every stream, lossy ones included, no item appears twice and the     *)
(* messages of one sender appear in the order the sender posted them.      *)
StreamOrder ==
    \A s \in Clients :
        LET items == ItemsOf(Stream(s))
        IN \A i, j \in 1..Len(items) :
             i < j => /\ items[i] # items[j]
                      /\ items[i].kind = "message" /\ items[j].kind = "message"
                         /\ items[i].from = items[j].from
                         => items[i].id < items[j].id

-----------------------------------------------------------------------------
(* Refinement.                                                             *)

(* How far s has come in the topic: the loop is at its last item when it   *)
(* has yet to reach s in the fan-out of that item.                         *)
Served(s) ==
    IF s \notin subscribers THEN 0
    ELSE IF run = "deliver" /\ s \in todo THEN Len(log) - 1 ELSE Len(log)

PublishSubscribe ==
    INSTANCE Topic WITH
        Readers  <- Clients,
        Writers  <- Senders,
        topic    <- Broadcasted,
        accepted <- lastId,
        owed     <- msgId,
        present  <- subscribers,
        cursor   <- [s \in Clients |-> Served(s)],
        inbox    <- [s \in Clients |-> ItemsOf(Stream(s))]

(* The hub, its pumps and SendMessage implement the publish/subscribe      *)
(* topic: one order for all streams, each stream a part of it from the     *)
(* place of its registration on, nothing twice, each stored message put    *)
(* into it once.                                                           *)
ImplementsTopic == PublishSubscribe!Spec

-----------------------------------------------------------------------------
(* Liveness, under FairSpec.                                               *)

(* The Run loop always comes back to its select (or has returned): neither *)
(* a full broadcast buffer nor a client that has stopped reading holds it. *)
HubNeverBlocks == []<>(run \in {"select", "stopped"})

(* A connection whose client has gone is unregistered and its goroutine    *)
(* ends, unless the hub is stopped first.                                  *)
DisconnectCompletes ==
    \A s \in Clients :
        (ctxDone[s] /\ pump[s] # "idle") ~> (pump[s] = "closed" \/ stop)

(* A request that has stored its message gets it into the hub and replies, *)
(* unless the hub is stopped first.                                        *)
SendCompletes ==
    \A w \in Senders : handler[w] = "saved" ~> (handler[w] = "idle" \/ stop)

(* Items whose write to the response has been completed.                   *)
Written(s) ==
    {out[s][i].item : i \in 1..(Len(out[s]) - IF pump[s] = "writing" THEN 1 ELSE 0)}

(* A message stored while s is registered reaches a client that goes on    *)
(* reading, unless it was dropped for s, s leaves or the hub is stopped.   *)
MessageReachesReader ==
    \A s \in Clients :
        []<>(pump[s] # "writing") =>
            \A w \in Senders, n \in 1..MaxMessages :
                (s \in subscribers /\ handler[w] = "saved" /\ msgId[w] = n)
                  ~> \/ Message(w, n) \in Written(s) \cup dropped[s]
                     \/ ctxDone[s] \/ stop

(* net/http sends the response headers with the first flush, and nothing   *)
(* is flushed before the first frame: it is the hub's join event that lets *)
(* Client.Connect and the browser's EventSource return, also when nobody   *)
(* ever posts.  They do, if the client reads and no event is lost.         *)
StreamOpens ==
    \A s \in Clients :
        []<>(pump[s] # "writing") =>
            (pump[s] = "registering")
                ~> (Written(s) # {} \/ ctxDone[s] \/ stop \/ eventLost)
=============================================================================
