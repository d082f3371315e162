---------------------------- MODULE ClientProofs ----------------------------
(***************************************************************************)
(* Proofs about module Client, for any number of goroutines, connections,  *)
(* events and any capacity of messageChan: the variables keep their types, *)
(* a client that is started, stopped and closed once never panics on a     *)
(* channel, and the one pump of a client loses and reorders nothing.       *)
(***************************************************************************)
EXTENDS Client, SequenceTheorems, TLAPS

(* The calls and channels of a client closed once at most, and so on: one  *)
(* caller is inside Close and has not closed doneChan before it does;      *)
(* listenDone is closed by StopListening alone and messageChan by a pump   *)
(* as it ends; a pump that exists was started.                             *)
InClose(t) == call[t] \in {"closing", "closingBody", "closedBody"}

Calls ==
    /\ closes = 0 => ~doneClosed /\ \A t \in Callers : ~InClose(t)
    /\ closes = 1 => /\ \A t, u \in Callers : InClose(t) /\ InClose(u) => t = u
                     /\ \A t \in Callers : call[t] = "closing" => ~doneClosed
    /\ stops = 0 => ~listenDoneClosed
    /\ \A p \in Pumps : pump[p] # "none" => p <= starts
    /\ chanClosed => \E p \in Pumps : pump[p] = "ended"

Safe == Calls /\ OneSessionIsSafe

(* Where the events of the one connection that is read have got to, by the *)
(* place of the only pump.                                                 *)
Got == received \o chan

Unread ==
    starts = 0 => /\ Got = <<>>
                  /\ \A c \in Conns : taken[c] = 0
                  /\ \A p \in Pumps : pump[p] = "none" /\ body[p] = 0

Reads ==
    starts = 1 =>
        /\ 1 \in Pumps /\ pump[1] # "none"
        /\ \A c \in Conns : c # body[1] => taken[c] = 0
        /\ \A i \in 1..Len(Got) : Got[i] = <<body[1], i>>
        /\ pump[1] = "spawned" => body[1] = 0 /\ Got = <<>>
        /\ pump[1] \in {"top", "blocked"} => Len(Got) = taken[body[1]]
        /\ pump[1] = "have" => /\ taken[body[1]] = Len(Got) + 1
                               /\ held[1] = <<body[1], Len(Got) + 1>>
        /\ body[1] # 0 => Len(Got) >= taken[body[1]] - 1

-----------------------------------------------------------------------------
(* Type correctness.                                                       *)

(* A pump that reads has a connection, and one that has read, an event.    *)
Reading ==
    \A p \in Pumps : /\ pump[p] \in {"top", "blocked", "have"} => body[p] \in Conns
                     /\ pump[p] = "have" => held[p] \in Events

LEMMA Bounds ==
    /\ MaxConnects \in Nat /\ MaxStarts \in Nat /\ MaxStops \in Nat
    /\ MaxCloses \in Nat /\ MaxEvents \in Nat
BY CallAssumption

LEMMA InitType == Init => TypeOK /\ Reading
<1> SUFFICES ASSUME Init PROVE TypeOK /\ Reading
  OBVIOUS
<1>1. FlagTypes
  BY DEF Init, FlagTypes
<1>2. DataTypes
  BY ChanCapAssumption, Bounds DEF Init, DataTypes, Pumps, Conns, Events, None, Panics
<1>3. Reading
  BY DEF Init, Reading
<1> QED
  BY <1>1, <1>2, <1>3 DEF TypeOK

(* Every step keeps the types of the flags ...                             *)
LEMMA NextFlags == TypeOK /\ [Next]_vars => FlagTypes'
<1> SUFFICES ASSUME FlagTypes, [Next]_vars PROVE FlagTypes'
  BY DEF TypeOK
<1> USE DEF FlagTypes, flagVars, chanVars
<1>1. ASSUME NEW t \in Callers, CallerStep(t) PROVE FlagTypes'
  BY <1>1 DEF CallerStep, CloseStep, Connect, Connected, ConnectFails, StartListening,
              StopListening, Close, CloseDone, CloseBody, CloseReturn
<1>2. ASSUME NEW p \in Pumps, PumpStep(p) PROVE FlagTypes'
  BY <1>2 DEF PumpStep, PumpStart, PumpTop, PumpRead, PumpReadError, PumpSend,
              PumpGiveUp, PumpExit
<1>3. ASSUME NEW c \in Conns, Emit(c) \/ HangUp(c) PROVE FlagTypes'
  BY <1>3 DEF Emit, HangUp
<1>4. CASE Receive \/ RangeEnd
  BY <1>4 DEF Receive, RangeEnd
<1>5. CASE UNCHANGED vars
  BY <1>5 DEF vars
<1> QED
  BY <1>1, <1>2, <1>3, <1>4, <1>5 DEF Next

(* ... and of the rest.                                                    *)
LEMMA NextData == TypeOK /\ Reading /\ [Next]_vars => DataTypes'
<1> SUFFICES ASSUME DataTypes, Reading, [Next]_vars PROVE DataTypes'
  BY DEF TypeOK
<1> USE DEF DataTypes, flagVars, chanVars, pumpVars, netVars, readerVars, countVars, Panics
<1>1. ASSUME NEW t \in Callers, CallerStep(t) PROVE DataTypes'
  <2>1. CASE Connect(t)
    BY <2>1 DEF Connect
  <2>2. CASE Connected(t)
    BY <2>2, Bounds DEF Connected, Conns
  <2>3. CASE ConnectFails(t)
    BY <2>3 DEF ConnectFails
  <2>4. CASE StartListening(t)
    <3>1. starts' \in 0..MaxStarts
      BY <2>4, Bounds DEF StartListening
    <3>2. pump' \in [Pumps -> {"none", "spawned", "top", "blocked", "have", "exiting", "ended"}]
      BY <2>4 DEF StartListening
    <3> QED
      BY <2>4, <3>1, <3>2 DEF StartListening
  <2>5. CASE StopListening(t)
    BY <2>5, Bounds DEF StopListening
  <2>6. CASE Close(t)
    BY <2>6, Bounds DEF Close
  <2>7. CASE CloseDone(t)
    BY <2>7 DEF CloseDone
  <2>8. CASE CloseBody(t)
    BY <2>8 DEF CloseBody
  <2>9. CASE CloseReturn(t)
    BY <2>9, Bounds DEF CloseReturn
  <2> QED
    BY <1>1, <2>1, <2>2, <2>3, <2>4, <2>5, <2>6, <2>7, <2>8, <2>9 DEF CallerStep, CloseStep
<1>2. ASSUME NEW p \in Pumps, PumpStep(p) PROVE DataTypes'
  <2>1. CASE PumpStart(p)
    BY <2>1 DEF PumpStart
  <2>2. CASE PumpTop(p)
    BY <2>2 DEF PumpTop
  <2>3. CASE PumpRead(p)
    <3>1. /\ body[p] \in Conns
          /\ sent[body[p]] \in 0..MaxEvents /\ taken[body[p]] \in 0..MaxEvents
          /\ taken[body[p]] < sent[body[p]]
      BY <2>3 DEF PumpRead, Reading
    <3>2. taken[body[p]] + 1 \in 1..MaxEvents /\ taken[body[p]] + 1 \in 0..MaxEvents
      BY <3>1, Bounds
    <3>3. <<body[p], taken[body[p]] + 1>> \in Events
      BY <3>1, <3>2 DEF Events
    <3>4. held' \in [Pumps -> Events \cup {None}]
      BY <2>3, <3>3 DEF PumpRead
    <3>5. taken' \in [Conns -> 0..MaxEvents]
      BY <2>3, <3>2 DEF PumpRead
    <3> QED
      BY <2>3, <3>4, <3>5 DEF PumpRead
  <2>4. CASE PumpReadError(p)
    BY <2>4 DEF PumpReadError
  <2>5. CASE PumpSend(p)
    <3>1. held[p] \in Events
      BY <2>5 DEF PumpSend, Reading
    <3>2. /\ Append(chan, held[p]) \in Seq(Events)
          /\ Len(Append(chan, held[p])) = Len(chan) + 1 /\ Len(chan) \in Nat
      BY <3>1, AppendProperties
    <3>3. \/ chan' = chan
          \/ Len(chan) < ChanCap /\ chan' = Append(chan, held[p])
      BY <2>5 DEF PumpSend
    <3>4. chan' \in Seq(Events) /\ Len(chan') <= ChanCap
      <4>1. CASE chan' = chan
        BY <4>1
      <4>2. CASE Len(chan) < ChanCap /\ chan' = Append(chan, held[p])
        BY <3>2, <4>2, ChanCapAssumption
      <4> QED
        BY <3>3, <4>1, <4>2
    <3>5. held' \in [Pumps -> Events \cup {None}]
      BY <2>5 DEF PumpSend
    <3>6. panic' \in Panics
      BY <2>5 DEF PumpSend
    <3> QED
      BY <2>5, <3>4, <3>5, <3>6 DEF PumpSend
  <2>6. CASE PumpGiveUp(p)
    BY <2>6 DEF PumpGiveUp
  <2>7. CASE PumpExit(p)
    BY <2>7 DEF PumpExit
  <2> QED
    BY <1>2, <2>1, <2>2, <2>3, <2>4, <2>5, <2>6, <2>7 DEF PumpStep
<1>3. ASSUME NEW c \in Conns, Emit(c) PROVE DataTypes'
  BY <1>3, Bounds DEF Emit
<1>4. ASSUME NEW c \in Conns, HangUp(c) PROVE DataTypes'
  BY <1>4 DEF HangUp
<1>5. CASE Receive
  <2>1. chan \in Seq(Events) /\ chan # <<>> /\ Len(chan) <= ChanCap
    BY <1>5 DEF Receive
  <2>2. /\ Head(chan) \in Events /\ Tail(chan) \in Seq(Events)
        /\ Len(Tail(chan)) = Len(chan) - 1 /\ Len(chan) \in Nat
    BY <2>1, HeadTailProperties
  <2>3. chan' \in Seq(Events) /\ Len(chan') <= ChanCap
    BY <1>5, <2>1, <2>2, ChanCapAssumption DEF Receive
  <2>4. received' \in Seq(Events)
    BY <1>5, <2>2, AppendProperties DEF Receive
  <2> QED
    BY <1>5, <2>3, <2>4 DEF Receive
<1>6. CASE RangeEnd
  BY <1>6 DEF RangeEnd
<1>7. CASE UNCHANGED vars
  BY <1>7 DEF vars
<1> QED
  BY <1>1, <1>2, <1>3, <1>4, <1>5, <1>6, <1>7 DEF Next

(* A pump reads only from a connection it has.                             *)
LEMMA NextReading == TypeOK /\ Reading /\ [Next]_vars => Reading'
<1> SUFFICES ASSUME DataTypes, Reading, [Next]_vars PROVE Reading'
  BY DEF TypeOK
<1> USE DEF Reading
<1>1. ASSUME NEW t \in Callers, CallerStep(t) PROVE Reading'
  BY <1>1 DEF DataTypes, CallerStep, CloseStep, Connect, Connected, ConnectFails,
              StartListening, StopListening, Close, CloseDone, CloseBody, CloseReturn, pumpVars
<1>2. ASSUME NEW p \in Pumps, PumpStep(p) PROVE Reading'
  <2>1. CASE PumpStart(p)
    BY <2>1, Bounds DEF DataTypes, PumpStart, Conns
  <2>2. CASE PumpTop(p)
    BY <2>2 DEF DataTypes, PumpTop
  <2>3. CASE PumpRead(p)
    BY <2>3, Bounds DEF DataTypes, PumpRead, Conns, Events
  <2>4. CASE PumpReadError(p) \/ PumpGiveUp(p) \/ PumpExit(p)
    BY <2>4 DEF DataTypes, PumpReadError, PumpGiveUp, PumpExit
  <2>5. CASE PumpSend(p)
    BY <2>5 DEF DataTypes, PumpSend
  <2> QED
    BY <1>2, <2>1, <2>2, <2>3, <2>4, <2>5 DEF PumpStep
<1>3. ASSUME NEW c \in Conns, Emit(c) \/ HangUp(c) PROVE Reading'
  BY <1>3 DEF Emit, HangUp, pumpVars
<1>4. CASE Receive \/ RangeEnd
  BY <1>4 DEF Receive, RangeEnd, pumpVars
<1>5. CASE UNCHANGED vars
  BY <1>5 DEF vars, pumpVars
<1> QED
  BY <1>1, <1>2, <1>3, <1>4, <1>5 DEF Next

(* Every variable keeps its type and messageChan its capacity.             *)
THEOREM TypeCorrect == Spec => []TypeOK
<1>1. Init => TypeOK /\ Reading
  BY InitType
<1>2. TypeOK /\ Reading /\ [Next]_vars => (TypeOK /\ Reading)'
  BY NextFlags, NextData, NextReading DEF TypeOK
<1> QED
  BY <1>1, <1>2, PTL DEF Spec

-----------------------------------------------------------------------------
(* One session is safe.                                                    *)

LEMMA InitSafe == Init => Safe
BY DEF Init, Safe, Calls, InClose, OneSessionIsSafe

(* A step that only closes no channel, makes no pump and enters no Close.  *)
LEMMA StillSafe ==
    ASSUME TypeOK, Safe, panic = "no", panic' \in {"no", "nilResponse"},
           UNCHANGED <<doneClosed, listenDoneClosed, chanClosed, countVars>>,
           \A t \in Callers : /\ InClose(t)' => InClose(t)
                              /\ call'[t] = "closing" => call[t] = "closing",
           \A p \in Pumps : /\ pump'[p] # "none" => pump[p] # "none"
                            /\ pump[p] = "ended" => pump'[p] = "ended"
    PROVE  Safe'
<1>1. Calls'
  BY DEF Safe, Calls, InClose, countVars
<1>2. OneSessionIsSafe'
  BY DEF OneSessionIsSafe
<1> QED
  BY <1>1, <1>2 DEF Safe

LEMMA NextSafe == TypeOK /\ Safe /\ [Next]_vars => Safe'
<1> SUFFICES ASSUME TypeOK, Safe, [Next]_vars PROVE Safe'
  OBVIOUS
<1>0. /\ starts \in Nat /\ stops \in Nat /\ closes \in Nat
      /\ call \in [Callers -> {"outside", "connecting", "closing", "closingBody", "closedBody"}]
      /\ pump \in [Pumps -> {"none", "spawned", "top", "blocked", "have", "exiting", "ended"}]
  BY Bounds DEF TypeOK, DataTypes
<1> DEFINE Quiet ==
        /\ panic = "no" /\ panic' \in {"no", "nilResponse"}
        /\ UNCHANGED <<doneClosed, listenDoneClosed, chanClosed, countVars>>
        /\ \A t \in Callers : /\ InClose(t)' => InClose(t)
                              /\ call'[t] = "closing" => call[t] = "closing"
        /\ \A p \in Pumps : /\ pump'[p] # "none" => pump[p] # "none"
                            /\ pump[p] = "ended" => pump'[p] = "ended"
<1>a. Quiet => Safe'
  BY StillSafe
<1>1. ASSUME NEW t \in Callers, CallerStep(t) PROVE Safe'
  <2>1. CASE Connect(t) \/ Connected(t) \/ ConnectFails(t) \/ CloseBody(t) \/ CloseReturn(t)
    <3>1. Quiet
      BY <1>0, <2>1 DEF Connect, Connected, ConnectFails, CloseBody, CloseReturn,
                        InClose, chanVars, pumpVars
    <3> QED
      BY <1>a, <3>1
  <2>2. CASE StartListening(t)
    <3>1. Calls'
      <4>1. /\ starts' = starts + 1 /\ pump' = [pump EXCEPT ![starts + 1] = "spawned"]
            /\ call' = call /\ closes' = closes /\ stops' = stops
            /\ doneClosed' = doneClosed /\ listenDoneClosed' = listenDoneClosed
            /\ chanClosed' = chanClosed
        BY <2>2 DEF StartListening, chanVars
      <4>2. \A p \in Pumps : pump'[p] # "none" => p <= starts'
        BY <1>0, <4>1, Bounds DEF Safe, Calls, Pumps
      <4>3. \A p \in Pumps : pump[p] = "ended" => p # starts + 1
        BY <1>0, Bounds DEF Safe, Calls, Pumps
      <4>4. \A p \in Pumps : pump[p] = "ended" => pump'[p] = "ended"
        BY <1>0, <4>1, <4>3
      <4> QED
        BY <4>1, <4>2, <4>4 DEF Safe, Calls, InClose
    <3>2. OneSessionIsSafe'
      BY <2>2 DEF StartListening, OneSessionIsSafe
    <3> QED
      BY <3>1, <3>2 DEF Safe
  <2>3. CASE StopListening(t)
    <3>1. Calls'
      BY <1>0, <2>3 DEF StopListening, Safe, Calls, InClose, pumpVars
    <3>2. OneSessionIsSafe'
      BY <1>0, <2>3 DEF StopListening, OneSessionIsSafe, Safe, Calls
    <3> QED
      BY <3>1, <3>2 DEF Safe
  <2>4. CASE Close(t)
    <3>1. Calls'
      BY <1>0, <2>4 DEF Close, Safe, Calls, InClose, chanVars, pumpVars
    <3>2. OneSessionIsSafe'
      BY <2>4 DEF Close, OneSessionIsSafe
    <3> QED
      BY <3>1, <3>2 DEF Safe
  <2>5. CASE CloseDone(t)
    <3>1. closes # 0
      BY <2>5 DEF CloseDone, Safe, Calls, InClose
    <3>2. Calls'
      BY <1>0, <2>5, <3>1 DEF CloseDone, Safe, Calls, InClose, pumpVars, countVars
    <3>3. OneSessionIsSafe'
      BY <1>0, <2>5, <3>1 DEF CloseDone, OneSessionIsSafe, Safe, Calls, countVars
    <3> QED
      BY <3>2, <3>3 DEF Safe
  <2> QED
    BY <1>1, <2>1, <2>2, <2>3, <2>4, <2>5 DEF CallerStep, CloseStep
<1>2. ASSUME NEW p \in Pumps, PumpStep(p) PROVE Safe'
  <2>1. p \in Nat /\ (chanClosed /\ pump[p] \in {"have", "exiting"} => starts > 1)
    BY <1>0, Bounds DEF Safe, Calls, Pumps
  <2>2. CASE PumpStart(p) \/ PumpTop(p) \/ PumpRead(p) \/ PumpReadError(p) \/ PumpGiveUp(p)
    <3>1. Quiet
      BY <1>0, <2>2 DEF PumpStart, PumpTop, PumpRead, PumpReadError, PumpGiveUp,
                        InClose, chanVars
    <3> QED
      BY <1>a, <3>1
  <2>3. CASE PumpSend(p)
    <3>1. Calls'
      BY <1>0, <2>3 DEF PumpSend, Safe, Calls, InClose, countVars
    <3>2. OneSessionIsSafe'
      BY <1>0, <2>1, <2>3 DEF PumpSend, OneSessionIsSafe, countVars
    <3> QED
      BY <3>1, <3>2 DEF Safe
  <2>4. CASE PumpExit(p)
    <3>1. Calls'
      BY <1>0, <2>4 DEF PumpExit, Safe, Calls, InClose, countVars
    <3>2. OneSessionIsSafe'
      BY <1>0, <2>1, <2>4 DEF PumpExit, OneSessionIsSafe, countVars
    <3> QED
      BY <3>1, <3>2 DEF Safe
  <2> QED
    BY <1>2, <2>2, <2>3, <2>4 DEF PumpStep
<1>3. ASSUME NEW c \in Conns, Emit(c) \/ HangUp(c) PROVE Safe'
  <2>1. Quiet
    BY <1>3 DEF Emit, HangUp, InClose, chanVars, pumpVars
  <2> QED
    BY <1>a, <2>1
<1>4. CASE Receive \/ RangeEnd
  <2>1. Quiet
    BY <1>4 DEF Receive, RangeEnd, InClose, chanVars, pumpVars
  <2> QED
    BY <1>a, <2>1
<1>5. CASE UNCHANGED vars
  BY <1>5 DEF vars, chanVars, pumpVars, countVars, Safe, Calls, InClose, OneSessionIsSafe
<1> QED
  BY <1>1, <1>2, <1>3, <1>4, <1>5 DEF Next

(* A client started, stopped and closed once at most closes no channel     *)
(* twice and never sends on a closed one, whatever goroutines call it and  *)
(* however Close, StopListening and the pump overlap.                      *)
THEOREM OneSessionNeverPanics == Spec => []OneSessionIsSafe
<1>1. Init => TypeOK /\ Reading /\ Safe
  BY InitType, InitSafe
<1>2. TypeOK /\ Reading /\ Safe /\ [Next]_vars => (TypeOK /\ Reading /\ Safe)'
  BY NextFlags, NextData, NextReading, NextSafe DEF TypeOK
<1>3. Safe => OneSessionIsSafe
  BY DEF Safe
<1> QED
  BY <1>1, <1>2, <1>3, PTL DEF Spec

-----------------------------------------------------------------------------
(* Nothing is lost.                                                        *)

Places == Unread /\ Reads

(* An event moves from messageChan to the reader, or into messageChan.     *)
LEMMA ReceivingKeepsGot ==
    ASSUME TypeOK, chan # <<>>
    PROVE  Append(received, Head(chan)) \o Tail(chan) = received \o chan
<1>1. received \in Seq(Events) /\ chan \in Seq(Events)
  BY DEF TypeOK, DataTypes
<1>2. /\ Head(chan) \in Events /\ Tail(chan) \in Seq(Events)
      /\ Len(Tail(chan)) = Len(chan) - 1
      /\ \A i \in 1..Len(Tail(chan)) : Tail(chan)[i] = chan[i + 1]
  BY <1>1, HeadTailProperties
<1>3. /\ Append(received, Head(chan)) \in Seq(Events)
      /\ Append(received, Head(chan)) = received \o <<Head(chan)>>
      /\ <<Head(chan)>> \in Seq(Events)
  BY <1>1, <1>2, AppendProperties, AppendIsConcat
<1>4. <<Head(chan)>> \o Tail(chan) = chan
  BY <1>1
<1>5. (received \o <<Head(chan)>>) \o Tail(chan) = received \o (<<Head(chan)>> \o Tail(chan))
  BY <1>1, <1>2, <1>3, ConcatAssociative
<1> QED
  BY <1>3, <1>4, <1>5

LEMMA SendingAppends ==
    ASSUME TypeOK, NEW e \in Events
    PROVE  received \o Append(chan, e) = Append(received \o chan, e)
<1>1. received \in Seq(Events) /\ chan \in Seq(Events) /\ <<e>> \in Seq(Events)
  BY DEF TypeOK, DataTypes
<1>2. received \o chan \in Seq(Events)
  BY <1>1, ConcatProperties
<1>3. Append(chan, e) = chan \o <<e>> /\ Append(received \o chan, e) = (received \o chan) \o <<e>>
  BY <1>1, <1>2, AppendIsConcat
<1>4. (received \o chan) \o <<e>> = received \o (chan \o <<e>>)
  BY <1>1, ConcatAssociative
<1> QED
  BY <1>3, <1>4

(* Steps that move no event and no pump.                                   *)
LEMMA StillPlaced ==
    ASSUME Places, Got' = Got, UNCHANGED <<pump, body, held, taken, starts>>
    PROVE  Places'
BY DEF Places, Unread, Reads

LEMMA InitPlaces == Init => Places
<1> SUFFICES ASSUME Init PROVE Places
  OBVIOUS
<1>1. Got = <<>>
  BY DEF Init, Got
<1> QED
  BY <1>1 DEF Init, Places, Unread, Reads

LEMMA NextPlaces == TypeOK /\ Reading /\ Calls /\ Places /\ [Next]_vars => Places'
<1> SUFFICES ASSUME TypeOK, Reading, Calls, Places, [Next]_vars PROVE Places'
  OBVIOUS
<1>0. /\ starts \in Nat /\ received \in Seq(Events) /\ chan \in Seq(Events)
      /\ pump \in [Pumps -> {"none", "spawned", "top", "blocked", "have", "exiting", "ended"}]
      /\ body \in [Pumps -> 0..MaxConnects] /\ held \in [Pumps -> Events \cup {None}]
      /\ taken \in [Conns -> 0..MaxEvents]
  BY Bounds DEF TypeOK, DataTypes
<1>a. Got \in Seq(Events) /\ Len(Got) \in Nat
  BY <1>0, ConcatProperties DEF Got
<1>1. ASSUME NEW t \in Callers, CallerStep(t) PROVE Places'
  <2>1. CASE StartListening(t)
    <3>1. /\ starts' = starts + 1 /\ starts < MaxStarts
          /\ pump' = [pump EXCEPT ![starts + 1] = "spawned"]
          /\ body' = body /\ taken' = taken /\ Got' = Got
      BY <2>1 DEF StartListening, Got, chanVars, netVars, readerVars
    <3>2. Unread'
      BY <1>0, <3>1 DEF Unread
    <3>3. Reads'
      <4> SUFFICES ASSUME starts' = 1 PROVE Reads'
        BY DEF Reads
      <4>1. starts = 0 /\ 1 \in Pumps
        BY <1>0, <3>1, Bounds DEF Pumps
      <4>2. pump'[1] = "spawned" /\ body'[1] = 0
        BY <1>0, <3>1, <4>1 DEF Places, Unread
      <4>3. Got' = <<>> /\ \A c \in Conns : taken'[c] = 0
        BY <3>1, <4>1 DEF Places, Unread
      <4> QED
        BY <4>1, <4>2, <4>3 DEF Reads
    <3> QED
      BY <3>2, <3>3 DEF Places
  <2>2. CASE ~StartListening(t)
    <3>1. Got' = Got /\ UNCHANGED <<pump, body, held, taken, starts>>
      BY <1>1, <2>2 DEF CallerStep, CloseStep, Connect, Connected, ConnectFails,
             StopListening, Close, CloseDone, CloseBody, CloseReturn, Got, chanVars,
             pumpVars, netVars, readerVars, countVars
    <3> QED
      BY <3>1, StillPlaced
  <2> QED
    BY <2>1, <2>2
<1>2. ASSUME NEW p \in Pumps, PumpStep(p) PROVE Places'
  <2>1. starts' = starts /\ pump[p] # "none"
    BY <1>2 DEF PumpStep, PumpStart, PumpTop, PumpRead, PumpReadError, PumpSend,
                PumpGiveUp, PumpExit, countVars
  <2>2. Unread'
    BY <2>1 DEF Places, Unread
  <2>3. Reads'
    <3> SUFFICES ASSUME starts = 1 PROVE Reads'
      BY <2>1 DEF Reads
    <3>1. p = 1
      BY <2>1, Bounds DEF Calls, Pumps
    <3>2. CASE PumpStart(p)
      <4>1. /\ pump[1] = "spawned" /\ Got' = Got /\ taken' = taken
            /\ \/ pump' = pump /\ body' = body
               \/ /\ resp # 0 /\ pump' = [pump EXCEPT ![1] = "top"]
                  /\ body' = [body EXCEPT ![1] = resp]
        BY <3>1, <3>2 DEF PumpStart, Got, chanVars, netVars, readerVars
      <4>2. /\ body[1] = 0 /\ Got = <<>> /\ \A c \in Conns : taken[c] = 0
            /\ 1 \in Pumps
        BY <4>1, Bounds DEF Places, Reads, Conns
      <4>3. resp \in 0..MaxConnects /\ (resp # 0 => resp \in Conns)
        BY Bounds DEF TypeOK, DataTypes, Conns
      <4>4. CASE pump' = pump /\ body' = body
        BY <2>1, <4>1, <4>2, <4>4 DEF Reads
      <4>5. CASE /\ resp # 0 /\ pump' = [pump EXCEPT ![1] = "top"]
                 /\ body' = [body EXCEPT ![1] = resp]
        <5>1. pump'[1] = "top" /\ body'[1] = resp
          BY <1>0, <4>2, <4>5
        <5>2. Len(Got') = 0 /\ taken'[resp] = 0 /\ \A c \in Conns : taken'[c] = 0
          BY <4>1, <4>2, <4>3, <4>5
        <5> QED
          BY <4>2, <5>1, <5>2 DEF Reads
      <4> QED
        BY <4>1, <4>4, <4>5
    <3>3. CASE PumpTop(p)
      <4>1. /\ pump[1] = "top" /\ pump'[1] \in {"exiting", "blocked"}
            /\ Got' = Got /\ taken' = taken /\ body' = body
        BY <1>0, <3>1, <3>3 DEF PumpTop, Got, chanVars, netVars, readerVars
      <4> QED
        BY <2>1, <4>1 DEF Places, Reads
    <3>4. CASE PumpRead(p)
      <4>1. /\ pump[1] = "blocked" /\ pump'[1] = "have" /\ Got' = Got /\ body' = body
            /\ held'[1] = <<body[1], taken[body[1]] + 1>>
            /\ taken' = [taken EXCEPT ![body[1]] = @ + 1]
        BY <1>0, <3>1, <3>4 DEF PumpRead, Got, chanVars, readerVars
      <4>2. body[1] \in Conns /\ Len(Got) = taken[body[1]]
        BY <3>1, <4>1 DEF Reading, Places, Reads
      <4>3. /\ taken'[body[1]] = Len(Got) + 1
            /\ \A c \in Conns : c # body[1] => taken'[c] = taken[c]
        BY <1>0, <4>1, <4>2
      <4> QED
        BY <1>a, <2>1, <4>1, <4>2, <4>3 DEF Places, Reads
    <3>5. CASE PumpReadError(p)
      <4>1. /\ pump[1] = "blocked" /\ pump'[1] = "exiting"
            /\ Got' = Got /\ taken' = taken /\ body' = body
        BY <1>0, <3>1, <3>5 DEF PumpReadError, Got, chanVars, netVars, readerVars
      <4> QED
        BY <2>1, <4>1 DEF Places, Reads
    <3>6. CASE PumpSend(p)
      <4>1. ~chanClosed
        BY <3>1, <3>6 DEF PumpSend, Calls, Pumps
      <4>2. /\ pump[1] = "have" /\ pump'[1] = "top" /\ taken' = taken /\ body' = body
            /\ chan' = Append(chan, held[1]) /\ received' = received
        BY <1>0, <3>1, <3>6, <4>1 DEF PumpSend, netVars, readerVars
      <4>3. /\ held[1] \in Events /\ held[1] = <<body[1], Len(Got) + 1>>
            /\ taken[body[1]] = Len(Got) + 1
        BY <3>1, <4>2 DEF Reading, Places, Reads
      <4>4. Got' = Append(Got, held[1])
        BY <4>2, <4>3, SendingAppends DEF Got
      <4>5. /\ Len(Got') = Len(Got) + 1 /\ Got'[Len(Got) + 1] = held[1]
            /\ \A i \in 1..Len(Got) : Got'[i] = Got[i]
        BY <1>a, <4>3, <4>4, AppendProperties
      <4>6. \A i \in 1..Len(Got') : Got'[i] = <<body[1], i>>
        <5> SUFFICES ASSUME NEW i \in 1..Len(Got') PROVE Got'[i] = <<body[1], i>>
          OBVIOUS
        <5>1. CASE i = Len(Got) + 1
          BY <4>3, <4>5, <5>1
        <5>2. CASE i # Len(Got) + 1
          <6>1. i \in 1..Len(Got)
            BY <1>a, <4>5, <5>2
          <6> QED
            BY <4>5, <6>1 DEF Places, Reads
        <5> QED
          BY <5>1, <5>2
      <4> QED
        BY <1>a, <2>1, <4>2, <4>3, <4>5, <4>6 DEF Places, Reads
    <3>7. CASE PumpGiveUp(p)
      <4>1. /\ pump[1] = "have" /\ pump'[1] = "exiting"
            /\ Got' = Got /\ taken' = taken /\ body' = body
        BY <1>0, <3>1, <3>7 DEF PumpGiveUp, Got, chanVars, netVars, readerVars
      <4> QED
        BY <2>1, <4>1 DEF Places, Reads
    <3>8. CASE PumpExit(p)
      <4>1. /\ pump[1] = "exiting" /\ pump'[1] = "ended"
            /\ Got' = Got /\ taken' = taken /\ body' = body
        BY <1>0, <3>1, <3>8 DEF PumpExit, Got, netVars, readerVars
      <4> QED
        BY <2>1, <4>1 DEF Places, Reads
    <3> QED
      BY <1>2, <3>2, <3>3, <3>4, <3>5, <3>6, <3>7, <3>8 DEF PumpStep
  <2> QED
    BY <2>2, <2>3 DEF Places
<1>3. ASSUME NEW c \in Conns, Emit(c) \/ HangUp(c) PROVE Places'
  <2>1. Got' = Got /\ UNCHANGED <<pump, body, held, taken, starts>>
    BY <1>3 DEF Emit, HangUp, Got, chanVars, pumpVars, readerVars, countVars
  <2> QED
    BY <2>1, StillPlaced
<1>4. CASE Receive
  <2>1. Got' = Got
    BY <1>4, ReceivingKeepsGot DEF Receive, Got
  <2>2. UNCHANGED <<pump, body, held, taken, starts>>
    BY <1>4 DEF Receive, pumpVars, netVars, countVars
  <2> QED
    BY <2>1, <2>2, StillPlaced
<1>5. CASE RangeEnd \/ UNCHANGED vars
  <2>1. Got' = Got /\ UNCHANGED <<pump, body, held, taken, starts>>
    BY <1>5 DEF RangeEnd, vars, Got, chanVars, pumpVars, netVars, readerVars, countVars
  <2> QED
    BY <2>1, StillPlaced
<1> QED
  BY <1>1, <1>2, <1>3, <1>4, <1>5 DEF Next

(* Of a client started once, the events received or waiting in messageChan *)
(* are the connection's, from the first, in order and without a gap, but   *)
(* for at most the one the pump held when it was told to stop.             *)
THEOREM NothingIsLost == Spec => []NothingLost
<1>1. Init => TypeOK /\ Reading /\ Safe /\ Places
  BY InitType, InitSafe, InitPlaces
<1>2. TypeOK /\ Reading /\ Safe /\ Places /\ [Next]_vars
      => (TypeOK /\ Reading /\ Safe /\ Places)'
  BY NextFlags, NextData, NextReading, NextSafe, NextPlaces DEF TypeOK, Safe
<1>3. Places => NothingLost
  BY DEF Places, Reads, NothingLost, Got
<1> QED
  BY <1>1, <1>2, <1>3, PTL DEF Spec
=============================================================================
