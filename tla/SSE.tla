-------------------------------- MODULE SSE --------------------------------
(***************************************************************************)
(* The htmx extension that feeds the chat page from the message stream     *)
(* (server/static/ext/sse.js).                                             *)
(*                                                                         *)
(* An element with sse-connect owns an EventSource, kept in its internal   *)
(* data; elements with sse-swap, or with hx-trigger="sse:...", at or below *)
(* it listen to that source.  Everything runs on the page's one thread, so *)
(* an action is one callback: a node being processed or cleaned up, a      *)
(* timer, or an event of a source.  When the browser gives a source up     *)
(* (readyState CLOSED) the extension makes a new one after a growing       *)
(* delay; an error the browser recovers from itself is left to it.         *)
(*                                                                         *)
(* EventSource is the browser's and modelled from what sse.js relies on: a *)
(* dropped connection is retried by the browser (CONNECTING, error event), *)
(* an answer that is no stream ends the source (CLOSED, error event), and  *)
(* close() ends it without an event.                                       *)
(***************************************************************************)
EXTENDS Integers, Sequences, FiniteSets

CONSTANTS
    Elements,     \* elements of the page the extension looks at
    NoElement,    \* "has no parent among Elements"
    Parent,       \* the DOM above each element, a function
    Connects,     \* elements with sse-connect
    Swappers,     \* elements with sse-swap
    Triggers,     \* elements with hx-trigger="sse:..."
    Closers,      \* elements with sse-close
    Slots,        \* bound: EventSource objects in use at one time
    NoSource,     \* "internal data holds no sseEventSource"
    RetryCap,     \* upper limit of retryCount (128 in the code)
    MaxMessages,  \* bound: messages the server sends
    MaxFaults     \* bound: dropped connections and refused requests

ASSUME ElementsAssumption ==
    /\ Parent \in [Elements -> Elements \cup {NoElement}] /\ NoElement \notin Elements
    /\ Connects \cup Swappers \cup Triggers \cup Closers \subseteq Elements
    /\ \A e \in Elements : Parent[e] # e /\ (Parent[e] \in Elements => Parent[Parent[e]] = NoElement)
(* No page nests elements with sse-connect: chat.html has the only one.    *)
(* Were they nested, onopen of the outer source would register the inner   *)
(* element once more, on the inner source.                                 *)
ASSUME NestingAssumption == \A e \in Connects : Parent[e] \notin Connects
ASSUME SlotsAssumption == NoSource \notin Slots /\ RetryCap \in Nat \ {0}
ASSUME BoundsAssumption == MaxMessages \in Nat /\ MaxFaults \in Nat

VARIABLES
    place,      \* where an element is: absent, in the body, or detached
    processed,  \* elements htmx has processed (htmx:afterProcessNode)
    data,       \* getInternalData(elt).sseEventSource
    source,     \* the EventSource objects with their listeners
    timers,     \* reconnection timers of each element, with their retryCount
    published,  \* messages the server has sent
    faults,     \* faults so far
    got,        \* history: messages handled by each listener, in order
    missed,     \* history: messages a source's element cannot have received
    over        \* history: elements whose stream ended with a sse-close event

vars == <<place, processed, data, source, timers, published, faults, got, missed, over>>

-----------------------------------------------------------------------------
Listeners == {<<e, "swap">> : e \in Swappers} \cup {<<e, "trigger">> : e \in Triggers}
Retries   == 0..RetryCap

(* elt, readyState, the closure variable retryCount, how often each        *)
(* listener is registered, and messages received but not yet dispatched.   *)
(* again and joined are history: the source replaced a failed one, and the *)
(* elements processed since it was made.                                   *)
NewSource(e, r) ==
    [elt |-> e, state |-> "connecting", retry |-> r, count |-> [l \in Listeners |-> 0],
     inbox |-> <<>>, again |-> r > 0, joined |-> {}]
Unused == [NewSource(NoElement, 0) EXCEPT !.state = "closed"]

Values(seq)  == {seq[i] : i \in DOMAIN seq}
InBody(e)    == place[e] = "body"
Under(e)     == {d \in Elements : Parent[d] = e}
SelfAndUnder(e) == {e} \cup Under(e)
Live(s)      == source[s].state # "closed"
Closed(src)  == [src EXCEPT !.state = "closed", !.inbox = <<>>]
FreeSlots    == {s \in Slots : ~Live(s) /\ \A e \in Elements : data[e] # s}

(* getClosestMatch(elt, hasEventSource)                                    *)
ClosestSource(dat, e) ==
    IF dat[e] # NoSource THEN dat[e]
    ELSE IF Parent[e] # NoElement /\ dat[Parent[e]] # NoSource THEN dat[Parent[e]]
    ELSE NoSource

(* registerSSE, for each element of D: a new listener for each of its      *)
(* attributes, on the source of the closest element that has one.          *)
RegisterSSE(src, dat, D) ==
    [s \in Slots |->
        [src[s] EXCEPT !.count = [l \in Listeners |->
            IF l[1] \in D /\ ClosestSource(dat, l[1]) = s THEN @[l] + 1 ELSE @[l]]]]

(* maybeCloseSSESource: TRUE, and the element's source is to be closed,    *)
(* when the element has left the body and still has one.                   *)
MaybeCloses(e) == ~InBody(e) /\ data[e] # NoSource

-----------------------------------------------------------------------------
Init ==
    /\ place     = [e \in Elements |-> "absent"]
    /\ processed = {}
    /\ data      = [e \in Elements |-> NoSource]
    /\ source    = [s \in Slots |-> Unused]
    /\ timers    = [e \in Elements |-> <<>>]
    /\ published = 0
    /\ faults    = 0
    /\ got       = [l \in Listeners |-> <<>>]
    /\ missed    = [e \in Connects |-> {}]
    /\ over      = {}

(* Mutated forms, here and below: each is a bug this code could have.      *)
(* They are no part of the specification; every property is violated when  *)
(* the one listed for it in PROJECT.json stands in for the real operator.  *)

(* registerSSE is left to onopen, which looks below the element only.      *)
EnsureEventSourceOnElement_SourceOnly(e, r) ==
    IF e \in Connects
      THEN LET s == CHOOSE t \in FreeSlots : TRUE
           IN /\ FreeSlots # {}
              /\ data'   = [data EXCEPT ![e] = s]
              /\ source' = [source EXCEPT ![s] = NewSource(e, r)]
      ELSE /\ source' = RegisterSSE(source, data, {e})
           /\ UNCHANGED data

(* ensureEventSourceOnElement: with sse-connect a source is made and takes *)
(* the place of the one before in the element's data; then the element's   *)
(* own listeners are registered.                                           *)
EnsureEventSourceOnElement(e, r) ==
    IF e \in Connects
      THEN LET s == CHOOSE t \in FreeSlots : TRUE
           IN /\ FreeSlots # {}
              /\ data'   = [data EXCEPT ![e] = s]
              /\ source' = RegisterSSE([source EXCEPT ![s] = NewSource(e, r)], data', {e})
      ELSE LET s == ClosestSource(data, e)
               joining == IF s = NoSource THEN source
                                          ELSE [source EXCEPT ![s].joined = @ \cup {e}]
           IN /\ source' = RegisterSSE(joining, data, {e})
              /\ UNCHANGED data

(* The page is parsed, or htmx swaps the element in.                       *)
Insert(e) ==
    /\ place[e] = "absent"
    /\ Parent[e] # NoElement => InBody(Parent[e])
    /\ place' = [place EXCEPT ![e] = "body"]
    /\ UNCHANGED <<processed, data, source, timers, published, faults, got, missed, over>>

(* htmx:afterProcessNode.  A swapped-in element is processed when the swap *)
(* settles, without a look at whether it is still in the body; elements    *)
(* are processed from the outside in.  Each is processed once: htmx does   *)
(* it again for an element it initialises again, which would open a second *)
(* EventSource, but those of chat.html keep their attributes and come in   *)
(* with the page.                                                          *)
ProcessNode(e) ==
    /\ place[e] # "absent" /\ e \notin processed
    /\ Parent[e] # NoElement => Parent[e] \in processed
    /\ processed' = processed \cup {e}
    /\ EnsureEventSourceOnElement(e, 0)
    /\ UNCHANGED <<place, timers, published, faults, got, missed, over>>

(* The element and what is below it leave the body.  htmx cleans up what   *)
(* it removes: htmx:beforeCleanupElement closes the source and the         *)
(* internal data is emptied.  A script that removes it does not.           *)
RemoveElement(e, cleaned) ==
    LET gone == {d \in SelfAndUnder(e) : InBody(d)}
    IN /\ InBody(e)
       /\ place' = [d \in Elements |-> IF d \in gone THEN "detached" ELSE place[d]]
       /\ IF cleaned
            THEN /\ source' = [s \in Slots |-> IF \E d \in gone : data[d] = s
                                                 THEN Closed(source[s]) ELSE source[s]]
                 /\ data' = [d \in Elements |-> IF d \in gone THEN NoSource ELSE data[d]]
            ELSE UNCHANGED <<source, data>>
       /\ UNCHANGED <<processed, timers, published, faults, got, missed, over>>

(* window.setTimeout of onerror                                            *)
Reconnect(e) ==
    /\ timers[e] # <<>>
    /\ timers' = [timers EXCEPT ![e] = Tail(@)]
    /\ EnsureEventSourceOnElement(e, Head(timers[e]))
    /\ UNCHANGED <<place, processed, published, faults, got, missed, over>>

(* retryCount is not reset by a connection that works.                     *)
OnOpen_KeepsRetry(s) ==
    LET opened == [source EXCEPT ![s].state = "open"]
        below  == {d \in Under(source[s].elt) : place[d] # "absent"}
    IN /\ source[s].state = "connecting"
       /\ source' = IF source[s].retry > 0 THEN RegisterSSE(opened, data, below) ELSE opened
       /\ UNCHANGED <<place, processed, data, timers, published, faults, got, missed, over>>

(* onopen: below the element of a source that replaces a failed one every  *)
(* element with a listener attribute is registered again.                  *)
OnOpen(s) ==
    LET opened == [source EXCEPT ![s].state = "open", ![s].retry = 0]
        below  == {d \in Under(source[s].elt) : place[d] # "absent"}
    IN /\ source[s].state = "connecting"
       /\ source' = IF source[s].retry > 0 THEN RegisterSSE(opened, data, below) ELSE opened
       /\ UNCHANGED <<place, processed, data, timers, published, faults, got, missed, over>>

(* What a source's element cannot receive any more when the connection or  *)
(* the source goes: the messages still on their way.                       *)
Losing(s) == [e \in Connects |->
    IF e = source[s].elt THEN missed[e] \cup Values(source[s].inbox) ELSE missed[e]]

(* A new source is asked for although the browser reconnects.              *)
OnErrorConnecting_AsksToo(s) ==
    LET e == source[s].elt
        dropped == [source EXCEPT ![s].state = "connecting", ![s].inbox = <<>>]
    IN /\ Live(s) /\ faults < MaxFaults
       /\ faults' = faults + 1
       /\ source' = dropped
       /\ timers' = [timers EXCEPT ![e] = Append(@, 1)]
       /\ missed' = Losing(s)
       /\ UNCHANGED <<place, processed, data, published, got, over>>

(* onerror, with the source CONNECTING: the browser reconnects by itself.  *)
OnErrorConnecting(s) ==
    LET e == source[s].elt
        dropped == [source EXCEPT ![s].state = "connecting", ![s].inbox = <<>>]
    IN /\ Live(s) /\ faults < MaxFaults
       /\ faults' = faults + 1
       /\ source' = IF MaybeCloses(e) THEN [dropped EXCEPT ![data[e]] = Closed(@)] ELSE dropped
       /\ missed' = Losing(s)
       /\ UNCHANGED <<place, processed, data, timers, published, got, over>>

(* onerror, with the source CLOSED (no stream was answered): try again     *)
(* after retryCount half seconds, doubled up to the cap.                   *)
NextRetry(r) == IF r = 0 THEN 1 ELSE IF 2 * r > RetryCap THEN RetryCap ELSE 2 * r

(* The element is not looked for; or no source is asked for.               *)
OnErrorClosed_Always(s) ==
    /\ source[s].state = "connecting" /\ faults < MaxFaults
    /\ faults' = faults + 1
    /\ source' = [source EXCEPT ![s] = Closed(@)]
    /\ timers' = [timers EXCEPT ![source[s].elt] = Append(@, NextRetry(source[s].retry))]
    /\ UNCHANGED <<place, processed, data, published, got, missed, over>>
OnErrorClosed_GivesUp(s) ==
    /\ source[s].state = "connecting" /\ faults < MaxFaults
    /\ faults' = faults + 1
    /\ source' = [source EXCEPT ![s] = Closed(@)]
    /\ UNCHANGED <<place, processed, data, timers, published, got, missed, over>>

OnErrorClosed(s) ==
    LET e == source[s].elt
        failed == [source EXCEPT ![s] = Closed(@)]
        r == NextRetry(source[s].retry)
    IN /\ source[s].state = "connecting" /\ faults < MaxFaults
       /\ faults' = faults + 1
       /\ IF MaybeCloses(e)
            THEN /\ source' = [failed EXCEPT ![data[e]] = Closed(@)]
                 /\ UNCHANGED timers
            ELSE /\ source' = [failed EXCEPT ![s].retry = r]
                 /\ timers' = [timers EXCEPT ![e] = Append(@, r)]
       /\ UNCHANGED <<place, processed, data, published, got, missed, over>>

(* A message event.  Each listener first looks whether the source's        *)
(* element is gone, and then closes the element's source and does nothing. *)
(* Otherwise a listener whose own element is gone is taken off the source, *)
(* sse-swap without and hx-trigger (no return there) with handling the     *)
(* event once more; the others swap the message in, or trigger.            *)
OnMessage(s) ==
    LET src  == source[s]
        n    == Head(src.inbox)
        gone == MaybeCloses(src.elt)
        hears(l) == src.count[l] > 0 /\ ~gone /\ (InBody(l[1]) \/ l[2] = "trigger")
        taken == [source EXCEPT ![s].inbox = Tail(@),
                                ![s].count = [l \in Listeners |->
                                    IF ~gone /\ ~InBody(l[1]) THEN 0 ELSE @[l]]]
    IN /\ src.state = "open" /\ src.inbox # <<>>
       /\ source' = IF gone /\ \E l \in Listeners : src.count[l] > 0
                      THEN [taken EXCEPT ![data[src.elt]] = Closed(@)] ELSE taken
       /\ got' = [l \in Listeners |->
                    IF hears(l) THEN got[l] \o [i \in 1..src.count[l] |-> n] ELSE got[l]]
       /\ UNCHANGED <<place, processed, data, timers, published, faults, missed, over>>

(* The event named by sse-close.                                           *)
OnCloseEvent(s) ==
    /\ source[s].state = "open" /\ source[s].elt \in Closers
    /\ source' = [source EXCEPT ![s] = Closed(@)]
    /\ missed' = Losing(s)
    /\ over' = over \cup {source[s].elt}
    /\ UNCHANGED <<place, processed, data, timers, published, faults, got>>

(* The server sends a message on every open stream.                        *)
Publish ==
    /\ published < MaxMessages
    /\ published' = published + 1
    /\ source' = [s \in Slots |-> IF source[s].state = "open"
                     THEN [source[s] EXCEPT !.inbox = Append(@, published + 1)] ELSE source[s]]
    /\ missed' = [e \in Connects |->
                    IF \E s \in Slots : source[s].elt = e /\ source[s].state = "open"
                      THEN missed[e] ELSE missed[e] \cup {published + 1}]
    /\ UNCHANGED <<place, processed, data, timers, faults, got, over>>

-----------------------------------------------------------------------------
Next ==
    \/ \E e \in Elements : Insert(e) \/ ProcessNode(e) \/ Reconnect(e)
                             \/ \E cleaned \in BOOLEAN : RemoveElement(e, cleaned)
    \/ \E s \in Slots : OnOpen(s) \/ OnErrorConnecting(s) \/ OnErrorClosed(s)
                          \/ OnMessage(s) \/ OnCloseEvent(s)
    \/ Publish

Spec == Init /\ [][Next]_vars

(* Timers fire, and a server that is up answers a connection attempt: with *)
(* the faults bounded, an attempt succeeds in the end.  Nothing is assumed *)
(* of the page, of the server's messages or of what goes wrong.            *)
Fairness ==
    /\ \A e \in Elements : WF_vars(Reconnect(e))
    /\ \A s \in Slots : WF_vars(OnOpen(s))

FairSpec == Spec /\ Fairness

-----------------------------------------------------------------------------
(* Safety.                                                                 *)

Sources == [elt : Elements \cup {NoElement}, state : {"connecting", "open", "closed"},
            retry : Retries, count : [Listeners -> Nat], inbox : Seq(1..MaxMessages),
            again : BOOLEAN, joined : SUBSET Elements]

(* Every variable has its type; the delay never exceeds its cap.           *)
TypeOK ==
    /\ place \in [Elements -> {"absent", "body", "detached"}]
    /\ processed \subseteq Elements
    /\ data \in [Elements -> Slots \cup {NoSource}]
    /\ source \in [Slots -> Sources]
    /\ timers \in [Elements -> Seq(Retries)]
    /\ published \in 0..MaxMessages
    /\ faults \in 0..MaxFaults
    /\ got \in [Listeners -> Seq(1..MaxMessages)]
    /\ missed \in [Connects -> SUBSET (1..MaxMessages)]
    /\ over \subseteq Elements

(* An element never has two connections, nor a connection and a timer that *)
(* will make another; and a connection is always the one in the element's  *)
(* internal data, so that cleaning the element up, or the next event after *)
(* it has left the body, finds and closes it.                              *)
OneConnection ==
    \A e \in Elements :
        /\ Len(timers[e]) <= 1
        /\ \A s \in Slots : Live(s) /\ source[s].elt = e => data[e] = s /\ timers[e] = <<>>

(* On an open stream every element of the page listens exactly once, after *)
(* any number of reconnections: the extension registers again what was     *)
(* registered with the failed source and nothing else.  (Not so for an     *)
(* element that joins while a replacement source exists: it registers      *)
(* itself and may be registered by onopen too.)                            *)
ListensOnce ==
    \A s \in Slots :
        source[s].state = "open" /\ InBody(source[s].elt) =>
            \A l \in Listeners :
                (l[1] \in processed /\ InBody(l[1]) /\ ClosestSource(data, l[1]) = s)
                => \/ source[s].count[l] = 1
                   \/ source[s].again /\ l[1] \in source[s].joined /\ source[s].count[l] \in 1..2

(* The element with the connection swaps in every message sent, in order   *)
(* and once, but for those sent while its connection was down or lost on   *)
(* their way when it broke.                                                *)
PageShowsStream ==
    \A e \in Connects \cap Swappers :
        LET waiting == IF data[e] = NoSource THEN {} ELSE Values(source[data[e]].inbox)
            shown   == got[<<e, "swap">>]
        IN InBody(e) =>
              /\ Values(shown) = (1..published) \ (missed[e] \cup waiting)
              /\ \A i, j \in DOMAIN shown : i < j => shown[i] < shown[j]

(* A source whose element has left the body ends with its first event,     *)
(* error or message for some listener: it swaps nothing in and asks for no *)
(* other source.                                                           *)
OrphanEnds(s) ==
    LET e == source[s].elt
        message == /\ Len(source'[s].inbox) < Len(source[s].inbox)
                   /\ \E l \in Listeners : source[s].count[l] > 0
        error   == faults' > faults /\ source'[s] # source[s]
    IN (Live(s) /\ ~InBody(e) /\ (message \/ error))
       => source'[s].state = "closed" /\ timers'[e] = timers[e] /\ got' = got

FirstEventEndsOrphan == [][\A s \in Slots : OrphanEnds(s)]_vars

(* A page whose stream fails gets it back, unless its element is removed   *)
(* or the server has said that the stream is over.                         *)
StreamComesBack ==
    \A e \in Connects :
        (e \in processed /\ InBody(e))
           ~> \/ ~InBody(e) \/ e \in over
              \/ data[e] # NoSource /\ source[data[e]].state = "open"
=============================================================================
