------------------------------- MODULE Client -------------------------------
(***************************************************************************)
(* The streaming side of the Go client library (client/client.go):         *)
(* Connect, StartListening, StopListening and Close called by any number   *)
(* of goroutines, the readPump goroutine each StartListening spawns, and   *)
(* the reader that ranges over the message channel.                        *)
(*                                                                         *)
(* A method is split where it releases or does not hold the mutex.  A run  *)
(* time panic (closing a closed channel, sending on one, dereferencing a   *)
(* nil response) ends the process: "panic" names it and nothing follows.   *)
(* A server-sent event is the pair of its connection and its number; its   *)
(* lines are read as one step.  The stateless request methods of the       *)
(* library keep nothing and are left out.                                  *)
(***************************************************************************)
EXTENDS Integers, Sequences, FiniteSets

CONSTANTS
    Callers,    \* goroutines that call the library
    ChanCap,    \* capacity of messageChan (100 in the code)
    MaxConnects, MaxStarts, MaxStops, MaxCloses, \* bounds: effective calls
    MaxEvents   \* bound: events the server sends on one connection

ASSUME ChanCapAssumption == ChanCap \in Nat \ {0}
ASSUME CallAssumption    == {MaxConnects, MaxStarts, MaxStops, MaxCloses, MaxEvents} \subseteq Nat

VARIABLES
    connected, listening, \* the two flags the mutex guards
    resp,        \* c.resp: the number of a connection, 0 for nil
    doneClosed, listenDoneClosed, chanClosed, \* the three channels' states
    chan,        \* messageChan
    call,        \* where each caller is inside Connect or Close
    pump,        \* where each readPump is; pump i belongs to the i-th start
    body,        \* the connection the pump captured, 0 before
    held,        \* the event the pump has read and not delivered
    conn,        \* the connections: "none", "open", "eof" or "closed"
    sent, taken, \* events sent on, and read from, each connection
    received,    \* history: events the reader has received
    reader,      \* the reader: "ranging" or "ended"
    starts, stops, closes, \* history: effective calls
    panic        \* "no", or what the process died of

flagVars   == <<connected, listening, resp>>
chanVars   == <<doneClosed, listenDoneClosed, chanClosed, chan>>
pumpVars   == <<pump, body, held>>
netVars    == <<conn, sent, taken>>
readerVars == <<received, reader>>
countVars  == <<starts, stops, closes>>
vars == <<flagVars, chanVars, call, pumpVars, netVars, readerVars, countVars, panic>>

Conns  == 1..MaxConnects
Pumps  == 1..MaxStarts
Events == Conns \X (1..MaxEvents)
None   == <<0, 0>>

Panics == {"no", "closeDoneChan", "closeListenDone",
           "closeMessageChan", "sendMessageChan", "nilResponse"}

Stopping == doneClosed \/ listenDoneClosed

-----------------------------------------------------------------------------
(* Mutated forms of actions below: bugs this code could have.              *)

(* The event is dropped when messageChan is full.                          *)
PumpSend_DropWhenFull(p) ==
    /\ panic = "no"
    /\ pump[p] = "have"
    /\ chan' = IF Len(chan) < ChanCap THEN Append(chan, held[p]) ELSE chan
    /\ held' = [held EXCEPT ![p] = None]
    /\ pump' = [pump EXCEPT ![p] = "top"]
    /\ UNCHANGED <<flagVars, doneClosed, listenDoneClosed, chanClosed, call, body,
                   netVars, readerVars, countVars, panic>>

(* The send on messageChan is not in a select with doneChan.               *)
PumpGiveUp_OnlyListenDone(p) ==
    /\ panic = "no"
    /\ pump[p] = "have"
    /\ listenDoneClosed
    /\ pump' = [pump EXCEPT ![p] = "exiting"]
    /\ UNCHANGED <<flagVars, chanVars, call, body, held, netVars, readerVars,
                   countVars, panic>>

(* Close also closes messageChan.                                          *)
CloseDone_AndMessages(t) ==
    /\ panic = "no"
    /\ call[t] = "closing"
    /\ doneClosed' = TRUE
    /\ chanClosed' = TRUE
    /\ panic' = IF doneClosed THEN "closeDoneChan" ELSE "no"
    /\ call'  = [call EXCEPT ![t] = "closingBody"]
    /\ UNCHANGED <<flagVars, listenDoneClosed, chan, pumpVars, netVars,
                   readerVars, countVars>>

(* The deferred close(c.messageChan) is missing.                           *)
PumpExit_ChannelLeftOpen(p) ==
    /\ panic = "no"
    /\ pump[p] = "exiting"
    /\ pump' = [pump EXCEPT ![p] = "ended"]
    /\ UNCHANGED <<flagVars, chanVars, call, body, held, netVars, readerVars,
                   countVars, panic>>

-----------------------------------------------------------------------------
Init ==
    /\ connected = FALSE /\ listening = FALSE /\ resp = 0
    /\ doneClosed = FALSE /\ listenDoneClosed = FALSE /\ chanClosed = FALSE
    /\ chan     = <<>>
    /\ call     = [t \in Callers |-> "outside"]
    /\ pump     = [p \in Pumps |-> "none"]
    /\ body     = [p \in Pumps |-> 0]
    /\ held     = [p \in Pumps |-> None]
    /\ conn     = [c \in Conns |-> "none"]
    /\ sent     = [c \in Conns |-> 0]
    /\ taken    = [c \in Conns |-> 0]
    /\ received = <<>>
    /\ reader   = "ranging"
    /\ starts = 0 /\ stops = 0 /\ closes = 0
    /\ panic    = "no"

-----------------------------------------------------------------------------
(* The library's methods.  Calls that return early change nothing.         *)

(* Connect: the flag is read under the mutex, the request is sent without. *)
Connect(t) ==
    /\ panic = "no"
    /\ call[t] = "outside"
    /\ ~connected
    /\ \E c \in Conns : conn[c] = "none"
    /\ call' = [call EXCEPT ![t] = "connecting"]
    /\ UNCHANGED <<flagVars, chanVars, pumpVars, netVars, readerVars, countVars,
                   panic>>

(* The server answers 200: the response is stored under the mutex.         *)
Connected(t) ==
    /\ panic = "no"
    /\ call[t] = "connecting"
    /\ \E c \in Conns :
         /\ conn[c] = "none" /\ \A d \in Conns : d < c => conn[d] # "none"
         /\ conn' = [conn EXCEPT ![c] = "open"]
         /\ resp' = c
    /\ connected' = TRUE
    /\ call' = [call EXCEPT ![t] = "outside"]
    /\ UNCHANGED <<listening, chanVars, pumpVars, sent, taken, readerVars,
                   countVars, panic>>

(* The request fails or is refused.                                        *)
ConnectFails(t) ==
    /\ panic = "no"
    /\ call[t] = "connecting"
    /\ call' = [call EXCEPT ![t] = "outside"]
    /\ UNCHANGED <<flagVars, chanVars, pumpVars, netVars, readerVars, countVars,
                   panic>>

(* StartListening: go c.readPump(), unless one is thought to run.          *)
StartListening(t) ==
    /\ panic = "no"
    /\ call[t] = "outside"
    /\ connected
    /\ ~listening
    /\ starts < MaxStarts
    /\ listening' = TRUE
    /\ starts' = starts + 1
    /\ pump'   = [pump EXCEPT ![starts + 1] = "spawned"]
    /\ UNCHANGED <<connected, resp, chanVars, call, body, held, netVars,
                   readerVars, stops, closes, panic>>

(* StopListening: close(c.listenDone), which is never replaced.            *)
StopListening(t) ==
    /\ panic = "no"
    /\ call[t] = "outside"
    /\ listening
    /\ stops < MaxStops
    /\ listening' = FALSE
    /\ stops' = stops + 1
    /\ listenDoneClosed' = TRUE
    /\ panic' = IF listenDoneClosed THEN "closeListenDone" ELSE "no"
    /\ UNCHANGED <<connected, resp, doneClosed, chanClosed, chan, call, pumpVars,
                   netVars, readerVars, starts, closes>>

(* Close: the flag is read under the mutex, which is then released ...     *)
Close(t) ==
    /\ panic = "no"
    /\ call[t] = "outside"
    /\ connected
    /\ closes < MaxCloses
    /\ closes' = closes + 1
    /\ call' = [call EXCEPT ![t] = "closing"]
    /\ UNCHANGED <<flagVars, chanVars, pumpVars, netVars, readerVars, starts,
                   stops, panic>>

(* ... close(c.doneChan), which is never replaced ...                      *)
CloseDone(t) ==
    /\ panic = "no"
    /\ call[t] = "closing"
    /\ doneClosed' = TRUE
    /\ panic' = IF doneClosed THEN "closeDoneChan" ELSE "no"
    /\ call'  = [call EXCEPT ![t] = "closingBody"]
    /\ UNCHANGED <<flagVars, listenDoneClosed, chanClosed, chan, pumpVars, netVars,
                   readerVars, countVars>>

(* ... c.resp.Body.Close(), which ends a blocked read ...                  *)
CloseBody(t) ==
    /\ panic = "no"
    /\ call[t] = "closingBody"
    /\ conn' = IF resp = 0 THEN conn ELSE [conn EXCEPT ![resp] = "closed"]
    /\ call' = [call EXCEPT ![t] = "closedBody"]
    /\ UNCHANGED <<flagVars, chanVars, pumpVars, sent, taken, readerVars,
                   countVars, panic>>

(* ... and the flag and the response are cleared under the mutex.          *)
CloseReturn(t) ==
    /\ panic = "no"
    /\ call[t] = "closedBody"
    /\ connected' = FALSE
    /\ resp' = 0
    /\ call' = [call EXCEPT ![t] = "outside"]
    /\ UNCHANGED <<listening, chanVars, pumpVars, netVars, readerVars, countVars,
                   panic>>

-----------------------------------------------------------------------------
(* readPump.                                                               *)

(* bufio.NewReader(c.resp.Body), without the mutex.                        *)
PumpStart(p) ==
    /\ panic = "no"
    /\ pump[p] = "spawned"
    /\ IF resp = 0
         THEN panic' = "nilResponse" /\ UNCHANGED <<body, pump>>
         ELSE /\ body' = [body EXCEPT ![p] = resp]
              /\ pump' = [pump EXCEPT ![p] = "top"]
              /\ UNCHANGED panic
    /\ UNCHANGED <<flagVars, chanVars, call, held, netVars, readerVars, countVars>>

(* The top of the loop: leave if told to, else block in ReadBytes.         *)
PumpTop(p) ==
    /\ panic = "no"
    /\ pump[p] = "top"
    /\ pump' = [pump EXCEPT ![p] = IF Stopping THEN "exiting" ELSE "blocked"]
    /\ UNCHANGED <<flagVars, chanVars, call, body, held, netVars, readerVars,
                   countVars, panic>>

(* The next event has been read, up to its empty line.  What is already in *)
(* the buffer is read even after the body was closed.                      *)
PumpRead(p) ==
    /\ panic = "no"
    /\ pump[p] = "blocked"
    /\ taken[body[p]] < sent[body[p]]
    /\ held'  = [held EXCEPT ![p] = <<body[p], taken[body[p]] + 1>>]
    /\ taken' = [taken EXCEPT ![body[p]] = @ + 1]
    /\ pump'  = [pump EXCEPT ![p] = "have"]
    /\ UNCHANGED <<flagVars, chanVars, call, body, conn, sent, readerVars,
                   countVars, panic>>

(* The read fails: the body was closed, or the server has hung up and      *)
(* everything it sent has been read.                                       *)
PumpReadError(p) ==
    /\ panic = "no"
    /\ pump[p] = "blocked"
    /\ \/ conn[body[p]] = "closed"
       \/ conn[body[p]] = "eof" /\ taken[body[p]] = sent[body[p]]
    /\ pump' = [pump EXCEPT ![p] = "exiting"]
    /\ UNCHANGED <<flagVars, chanVars, call, body, held, netVars, readerVars,
                   countVars, panic>>

(* case c.messageChan <- data: waits while the channel is full.            *)
PumpSend(p) ==
    /\ panic = "no"
    /\ pump[p] = "have"
    /\ chanClosed \/ Len(chan) < ChanCap
    /\ IF chanClosed
         THEN panic' = "sendMessageChan" /\ UNCHANGED chan
         ELSE panic' = "no" /\ chan' = Append(chan, held[p])
    /\ held' = [held EXCEPT ![p] = None]
    /\ pump' = [pump EXCEPT ![p] = "top"]
    /\ UNCHANGED <<flagVars, doneClosed, listenDoneClosed, chanClosed, call, body,
                   netVars, readerVars, countVars>>

(* case <-c.doneChan / <-c.listenDone: the event is given up.              *)
PumpGiveUp(p) ==
    /\ panic = "no"
    /\ pump[p] = "have"
    /\ Stopping
    /\ pump' = [pump EXCEPT ![p] = "exiting"]
    /\ UNCHANGED <<flagVars, chanVars, call, body, held, netVars, readerVars,
                   countVars, panic>>

(* The deferred close(c.messageChan).                                      *)
PumpExit(p) ==
    /\ panic = "no"
    /\ pump[p] = "exiting"
    /\ chanClosed' = TRUE
    /\ panic' = IF chanClosed THEN "closeMessageChan" ELSE "no"
    /\ pump'  = [pump EXCEPT ![p] = "ended"]
    /\ UNCHANGED <<flagVars, doneClosed, listenDoneClosed, chan, call, body, held,
                   netVars, readerVars, countVars>>

-----------------------------------------------------------------------------
(* The server and the reader.                                              *)

(* The server sends an event.                                              *)
Emit(c) ==
    /\ panic = "no"
    /\ conn[c] = "open"
    /\ sent[c] < MaxEvents
    /\ sent' = [sent EXCEPT ![c] = @ + 1]
    /\ UNCHANGED <<flagVars, chanVars, call, pumpVars, conn, taken, readerVars,
                   countVars, panic>>

(* The server ends the response.                                           *)
HangUp(c) ==
    /\ panic = "no"
    /\ conn[c] = "open"
    /\ conn' = [conn EXCEPT ![c] = "eof"]
    /\ UNCHANGED <<flagVars, chanVars, call, pumpVars, sent, taken, readerVars,
                   countVars, panic>>

(* for msgBytes := range messages, as in grunt recv.                       *)
Receive ==
    /\ panic = "no"
    /\ starts > 0
    /\ chan # <<>>
    /\ received' = Append(received, Head(chan))
    /\ chan' = Tail(chan)
    /\ UNCHANGED <<flagVars, doneClosed, listenDoneClosed, chanClosed, call,
                   pumpVars, netVars, reader, countVars, panic>>

RangeEnd ==
    /\ panic = "no"
    /\ starts > 0
    /\ chan = <<>> /\ chanClosed
    /\ reader = "ranging"
    /\ reader' = "ended"
    /\ UNCHANGED <<flagVars, chanVars, call, pumpVars, netVars, received,
                   countVars, panic>>

-----------------------------------------------------------------------------
CloseStep(t) == CloseDone(t) \/ CloseBody(t) \/ CloseReturn(t)

CallerStep(t) ==
    \/ Connect(t) \/ Connected(t) \/ ConnectFails(t)
    \/ StartListening(t) \/ StopListening(t) \/ Close(t) \/ CloseStep(t)

PumpStep(p) ==
    \/ PumpStart(p) \/ PumpTop(p) \/ PumpRead(p) \/ PumpReadError(p)
    \/ PumpSend(p) \/ PumpGiveUp(p) \/ PumpExit(p)

Next ==
    \/ \E t \in Callers : CallerStep(t)
    \/ \E p \in Pumps : PumpStep(p)
    \/ \E c \in Conns : Emit(c) \/ HangUp(c)
    \/ Receive \/ RangeEnd

Spec == Init /\ [][Next]_vars

(* A goroutine that can run does run, and a select picks among its ready   *)
(* cases at random.  Nothing is assumed of the server, of further calls,   *)
(* or of whether the messages are received at all.                         *)
FairSpec ==
    /\ Spec
    /\ \A t \in Callers : WF_vars(CloseStep(t))
    /\ \A p \in Pumps : WF_vars(PumpStep(p))

(* The premise of the one property that needs a reader who keeps receiving. *)
ReaderKeepsReceiving == WF_vars(Receive) /\ WF_vars(RangeEnd)

-----------------------------------------------------------------------------
(* Safety.                                                                 *)

FlagTypes ==
    /\ connected \in BOOLEAN /\ listening \in BOOLEAN
    /\ doneClosed \in BOOLEAN /\ listenDoneClosed \in BOOLEAN /\ chanClosed \in BOOLEAN

DataTypes ==
    /\ resp \in 0..MaxConnects
    /\ chan \in Seq(Events) /\ Len(chan) <= ChanCap
    /\ call \in [Callers -> {"outside", "connecting", "closing", "closingBody",
                             "closedBody"}]
    /\ pump \in [Pumps -> {"none", "spawned", "top", "blocked", "have",
                           "exiting", "ended"}]
    /\ body \in [Pumps -> 0..MaxConnects]
    /\ held \in [Pumps -> Events \cup {None}]
    /\ conn \in [Conns -> {"none", "open", "eof", "closed"}]
    /\ sent \in [Conns -> 0..MaxEvents] /\ taken \in [Conns -> 0..MaxEvents]
    /\ received \in Seq(Events)
    /\ reader \in {"ranging", "ended"}
    /\ starts \in 0..MaxStarts /\ stops \in 0..MaxStops /\ closes \in 0..MaxCloses
    /\ panic \in Panics

(* Every variable has its type and messageChan stays within its capacity.  *)
TypeOK == FlagTypes /\ DataTypes

(* A client that is started, stopped and closed at most once each never    *)
(* closes a channel twice and never sends on a closed one, however Close,  *)
(* StopListening and the pump overlap.                                     *)
OneSessionIsSafe ==
    starts <= 1 /\ stops <= 1 /\ closes <= 1 => panic \in {"no", "nilResponse"}

(* The library loses and reorders nothing: with one pump per connection,   *)
(* what has been received or waits in messageChan is what the server sent, *)
(* from the first event on, and at most the event in the pump's hands as   *)
(* it was told to stop can be missing.                                     *)
NothingLost ==
    starts = 1 =>
        LET got == received \o chan
        IN /\ \A i \in 1..Len(got) : got[i] = <<body[1], i>>
           /\ pump[1] \in {"top", "blocked"} => Len(got) = taken[body[1]]
           /\ body[1] # 0 => Len(got) >= taken[body[1]] - 1

(* A pump that StartListening started after Connect finds the response it  *)
(* is to read, however soon Close follows.                                 *)
PumpFindsResponse == panic # "nilResponse"

-----------------------------------------------------------------------------
(* Liveness.                                                               *)

(* Under FairSpec: once Close has begun, the pump that was reading ends,   *)
(* whether or not anybody receives from a full messageChan.                *)
CloseEndsPump ==
    \A p \in Pumps :
        (doneClosed /\ pump[p] \in {"top", "blocked", "have"})
            ~> (pump[p] = "ended" \/ panic # "no")

(* When the server ends the stream a listener reads, the listener's range  *)
(* loop ends after the last event, provided the listener keeps receiving.  *)
HangUpEndsRange ==
    ReaderKeepsReceiving =>
        ((starts > 0 /\ resp # 0 /\ conn[resp] = "eof")
            ~> (reader = "ended" \/ panic # "no"))
=============================================================================
