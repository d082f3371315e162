------------------------------ MODULE Requests ------------------------------
(***************************************************************************)
(* How htmx issues the requests of a page (issueAjaxRequest and what it    *)
(* calls, server/static/htmx.js), with the form of the chat page, which    *)
(* empties its text area after every request (server/templates/chat.html). *)
(*                                                                         *)
(* An element with hx-post, hx-get or hx-delete is a control.  Without     *)
(* hx-sync a control is its own sync element, with it controls share one.  *)
(* The sync element's internal data holds the request in flight (xhr),     *)
(* whether it may be aborted, and the requests that wait.  Everything runs *)
(* on the page's one thread; a request that ends issues the next waiting   *)
(* one from within its own end, and so does one that is aborted in the     *)
(* middle of issuing another.  Such chains are one action here.            *)
(***************************************************************************)
EXTENDS Integers, Sequences, FiniteSets

CONSTANTS
    Controls,     \* elements that issue requests
    Shared,       \* the element hx-sync names
    Composers,    \* controls with a required text that is emptied afterwards
    Asking,       \* controls whose request hx-confirm or a handler may refuse
    Confirming,   \* controls an htmx:confirm handler or a missing target may turn away
    Leaving,      \* controls that may be answered with HX-Redirect or HX-Refresh
    Failing,      \* controls whose answer may fail to be handled (onload throws)
    Mixes,        \* how hx-sync is given to the controls, a set of functions
    MaxFires,     \* bound: triggering events
    MaxTexts      \* bound: texts typed

(* Values of hx-sync; "none" stands for no hx-sync attribute.              *)
Strategies == {"none", "drop", "abort", "replace", "queueFirst", "queueLast", "queueAll"}

ASSUME ControlsAssumption ==
    /\ Shared \notin Controls
    /\ Composers \cup Asking \cup Confirming \cup Leaving \cup Failing \subseteq Controls
    /\ Asking \cap Confirming = {}
ASSUME MixesAssumption == Mixes \subseteq [Controls -> Strategies]
ASSUME BoundsAssumption == MaxFires \in Nat /\ MaxTexts \in Nat

VARIABLES
    strategy,   \* the hx-sync of each control, never changed
    inBody,     \* controls still in the document
    field,      \* text of each composer, 0 when empty
    typed,      \* texts typed so far; a text is its number
    fired,      \* triggering events so far
    issued,     \* requests sent so far; a request is its number
    lock,       \* xhr, abortable and queuedRequests of each sync element
    flight,     \* requests sent and not ended
    count,      \* requestCount of the common indicator
    busy,       \* the indicator has the class htmx-request
    posted,     \* history: texts the server has taken from each composer, in order
    sent,       \* history: texts in requests sent
    calm,       \* history: texts entered with no request of the composer in flight,
                \*          and not refused
    stuck,      \* history: requests that ended without removing their indicator
    stranded    \* history: a waiting request was turned away before others that wait

vars == <<strategy, inBody, field, typed, fired, issued, lock, flight,
          count, busy, posted, sent, calm, stuck, stranded>>

-----------------------------------------------------------------------------
Idle  == [xhr |-> 0, abortable |-> FALSE, queue |-> <<>>]
Locks == Controls \cup {Shared}

(* The sync element: hx-sync names it, otherwise the control itself.       *)
SyncElt(c) == IF strategy[c] = "none" THEN c ELSE Shared

(* What the steps below work on: one lock and the rest of the page.        *)
Page(k) == [lock |-> lock[k], flight |-> flight, issued |-> issued, count |-> count,
            busy |-> busy, field |-> field, sent |-> sent, stranded |-> stranded]

(* getInputValues: the text of the form, now; a required one that is empty *)
(* is an error.                                                            *)
InputText(S, c) == IF c \in Composers THEN S.field[c] ELSE 0
Invalid(S, c)   == c \in Composers /\ InputText(S, c) = 0

(* An element that is gone, a target that is not there, or an htmx:confirm *)
(* handler that says no: issueAjaxRequest returns before it gets to the    *)
(* lock.                                                                   *)
TurnedAway(c, refused) == c \notin inBody \/ c \in Confirming \cap refused

(* hx-prompt or hx-confirm answered with no, a handler that prevents       *)
(* htmx:configRequest or htmx:beforeRequest, or an invalid form: the       *)
(* request takes the lock and gives it back without being sent.            *)
Halts(S, c, refused) == c \in refused \/ Invalid(S, c)

AddRequestIndicators(S) == [S EXCEPT !.count = @ + 1, !.busy = TRUE]

(* The request is sent, with the values the form has now.                  *)
Send(S, c) ==
    LET id   == S.issued + 1
        text == InputText(S, c)
    IN AddRequestIndicators(
          [S EXCEPT !.lock.xhr = id, !.lock.abortable = (strategy[c] = "abort"),
                    !.flight = @ \cup {[id |-> id, ctl |-> c, text |-> text, served |-> FALSE]},
                    !.issued = id, !.sent = @ \cup ({text} \ {0})])

(* Mutated forms, here and below: each is a bug this code could have.      *)
(* They are no part of the specification; every property is violated when  *)
(* the one listed for it in PROJECT.json stands in for the real operator.  *)

(* The lock is freed and nobody's turn comes.                              *)
EndRequestLock_NoQueue(S, refused) == [S EXCEPT !.lock.xhr = 0, !.lock.abortable = FALSE]

(* endRequestLock: the lock is free and the next waiting request issued.   *)
(* One that halts ends the lock again, so the one after it has its turn;   *)
(* one that is turned away leaves those after it waiting.                  *)
EndRequestLock(S, refused) ==
    LET q    == S.lock.queue
        last == {i \in 1..Len(q) : TurnedAway(q[i], refused) \/ ~Halts(S, q[i], refused)}
        i    == CHOOSE j \in last : \A m \in last : j <= m
        rest == [S EXCEPT !.lock = [Idle EXCEPT !.queue = SubSeq(q, i + 1, Len(q))]]
    IN IF last = {} THEN [S EXCEPT !.lock = Idle]
       ELSE IF TurnedAway(q[i], refused) THEN [rest EXCEPT !.stranded = @ \/ i < Len(q)]
       ELSE Send(rest, q[i])

(* The class goes with the first request that ends.                        *)
RemoveRequestIndicators_Clears(S) == [S EXCEPT !.count = @ - 1, !.busy = FALSE]

(* removeRequestIndicators: a missing count is taken for 1.                *)
RemoveRequestIndicators(S) ==
    LET n == (IF S.count = 0 THEN 1 ELSE S.count) - 1
    IN [S EXCEPT !.count = n, !.busy = (n # 0)]

(* The text area keeps its text.                                           *)
AfterRequest_KeepsText(S, c) == S

(* htmx:afterRequest: the composer's hx-on handler empties the text area.  *)
AfterRequest(S, c) == IF c \in Composers THEN [S EXCEPT !.field[c] = 0] ELSE S

(* htmx:afterRequest comes after the end of the lock.                      *)
Ended_BeforeHandlers(S, r) == RemoveRequestIndicators([S EXCEPT !.flight = @ \ {r}])

(* onabort, onerror and ontimeout up to the end of the lock.               *)
Ended(S, r) == AfterRequest(RemoveRequestIndicators([S EXCEPT !.flight = @ \ {r}]), r.ctl)

(* The request is forgotten without being aborted.                         *)
Abort_Forgets(S, refused) == [S EXCEPT !.lock.xhr = 0]

(* htmx:abort on the sync element: xhr.abort() runs onabort before it      *)
(* returns.                                                                *)
Abort(S, refused) ==
    IF S.lock.xhr = 0 THEN S
    ELSE EndRequestLock(Ended(S, CHOOSE r \in S.flight : r.id = S.lock.xhr), refused)

(* The lock is taken, whatever it holds.                                   *)
Acquire(S, c, refused) ==
    IF Halts(S, c, refused) THEN EndRequestLock(S, refused) ELSE Send(S, c)

(* The request is put among the waiting ones, by default as the only one.  *)
Enqueue(S, c) ==
    CASE strategy[c] = "queueAll"   -> [S EXCEPT !.lock.queue = Append(@, c)]
      [] strategy[c] = "queueFirst" -> [S EXCEPT !.lock.queue = IF @ = <<>> THEN <<c>> ELSE @]
      [] OTHER                       -> [S EXCEPT !.lock.queue = <<c>>]

(* issueAjaxRequest of a control in the body.                              *)
Issue(S, c, refused) ==
    LET s == strategy[c]
        R == IF s = "replace" THEN Abort(S, refused) ELSE S
    IN IF \/ TurnedAway(c, refused)
          \/ s = "drop" /\ S.lock.xhr # 0 /\ ~S.lock.abortable
          \/ s = "abort" /\ S.lock.xhr # 0
         THEN S
       ELSE IF R.lock.xhr = 0 THEN Acquire(R, c, refused)
       ELSE IF R.lock.abortable THEN Acquire(Abort(R, refused), c, refused)
       ELSE Enqueue(R, c)

(* The page after the steps taken on lock k.                               *)
Becomes(result, k) ==
    \E S \in {result} :
        /\ lock' = [lock EXCEPT ![k] = S.lock]
        /\ flight' = S.flight /\ issued' = S.issued
        /\ count' = S.count /\ busy' = S.busy
        /\ field' = S.field /\ sent' = S.sent /\ stranded' = S.stranded

-----------------------------------------------------------------------------
Init ==
    /\ strategy \in Mixes
    /\ inBody   = Controls
    /\ field    = [c \in Composers |-> 0]
    /\ typed    = 0
    /\ fired    = 0
    /\ issued   = 0
    /\ lock     = [k \in Locks |-> Idle]
    /\ flight   = {}
    /\ count    = 0
    /\ busy     = FALSE
    /\ posted   = [c \in Composers |-> <<>>]
    /\ sent     = {}
    /\ calm     = {}
    /\ stuck    = 0
    /\ stranded = FALSE

(* The user types a text into the text area.                               *)
Type(c) ==
    /\ c \in Composers /\ c \in inBody
    /\ typed < MaxTexts
    /\ typed' = typed + 1
    /\ field' = [field EXCEPT ![c] = typed + 1]
    /\ UNCHANGED <<strategy, inBody, fired, issued, lock, flight, count, busy,
                   posted, sent, calm, stuck, stranded>>

(* The control's event (submit, click) fires and htmx handles it.  The     *)
(* browser submits no form with an empty required field.                   *)
Fire(c, refused) ==
    /\ c \in inBody
    /\ c \in Composers => field[c] # 0
    /\ fired < MaxFires
    /\ fired' = fired + 1
    /\ calm' = IF c \in Composers \ refused /\ ~\E r \in flight : r.ctl = c
                 THEN calm \cup {field[c]} ELSE calm
    /\ Becomes(Issue(Page(SyncElt(c)), c, refused), SyncElt(c))
    /\ UNCHANGED <<strategy, inBody, typed, posted, stuck>>

(* The server handles a request.                                           *)
Serve(r) ==
    /\ r \in flight /\ ~r.served
    /\ flight' = (flight \ {r}) \cup {[r EXCEPT !.served = TRUE]}
    /\ posted' = IF r.text = 0 THEN posted
                 ELSE [posted EXCEPT ![r.ctl] = Append(@, r.text)]
    /\ UNCHANGED <<strategy, inBody, field, typed, fired, issued, lock,
                   count, busy, sent, calm, stuck, stranded>>

(* handleAjaxResponse.  With HX-Redirect or HX-Refresh the indicators stay *)
(* because the page is about to be left; when a retarget names nothing or  *)
(* the swap fails it throws; otherwise the answer is swapped in or not,    *)
(* which is the subject of module Nodes.                                   *)
HandleAjaxResponse(c) ==
    {"done"} \cup (IF c \in Leaving THEN {"keepIndicators"} ELSE {})
             \cup (IF c \in Failing THEN {"throws"} ELSE {})

(* onload: the answer is handled, the indicators are removed and the       *)
(* events triggered; whatever happens, the lock ends (finally).            *)
OnLoad(r, refused) ==
    \E outcome \in HandleAjaxResponse(r.ctl) :
        LET k == SyncElt(r.ctl)
            S == [Page(k) EXCEPT !.flight = @ \ {r}]
            T == CASE outcome = "done"            -> AfterRequest(RemoveRequestIndicators(S), r.ctl)
                   [] outcome = "keepIndicators" -> AfterRequest(S, r.ctl)
                   [] outcome = "throws"          -> S
        IN /\ r \in flight /\ r.served
           /\ Becomes(EndRequestLock(T, refused), k)
           /\ stuck' = IF outcome = "done" THEN stuck ELSE stuck + 1
           /\ UNCHANGED <<strategy, inBody, typed, fired, posted, calm>>

(* onerror and ontimeout: the server may have handled the request or not.  *)
OnError(r, refused) ==
    LET k == SyncElt(r.ctl)
    IN /\ r \in flight
       /\ Becomes(EndRequestLock(Ended(Page(k), r), refused), k)
       /\ UNCHANGED <<strategy, inBody, typed, fired, posted, calm, stuck>>

(* A swap removes the control: cleanUpElement empties its internal data,   *)
(* its own lock with it.  Its request in flight goes on.                   *)
Remove(c) ==
    /\ c \in inBody
    /\ inBody' = inBody \ {c}
    /\ lock' = [lock EXCEPT ![c] = Idle]
    /\ UNCHANGED <<strategy, field, typed, fired, issued, flight, count, busy,
                   posted, sent, calm, stuck, stranded>>

Next ==
    \/ \E c \in Controls : Type(c) \/ Remove(c)
    \/ \E refused \in SUBSET (Asking \cup Confirming) :
          \/ \E c \in Controls : Fire(c, refused)
          \/ \E r \in flight : OnLoad(r, refused) \/ OnError(r, refused)
    \/ \E r \in flight : Serve(r)

Spec == Init /\ [][Next]_vars

-----------------------------------------------------------------------------
(* Safety.                                                                 *)

Requests == [id : Nat, ctl : Controls, text : 0..MaxTexts, served : BOOLEAN]

(* Every variable has its type.                                            *)
TypeOK ==
    /\ strategy \in [Controls -> Strategies]
    /\ inBody \subseteq Controls
    /\ field \in [Composers -> 0..MaxTexts]
    /\ typed \in 0..MaxTexts /\ fired \in 0..MaxFires
    /\ issued \in Nat /\ count \in Nat /\ stuck \in Nat
    /\ lock \in [Locks -> [xhr : Nat, abortable : BOOLEAN, queue : Seq(Controls)]]
    /\ flight \subseteq Requests
    /\ busy \in BOOLEAN /\ stranded \in BOOLEAN
    /\ posted \in [Composers -> Seq(1..MaxTexts)]
    /\ sent \subseteq 1..MaxTexts /\ calm \subseteq 1..MaxTexts

(* A request that waited for the shared lock behind one that was turned    *)
(* away stays there while the lock is free.                                *)
Orderly(k) == k # Shared \/ ~stranded

(* Such a request is issued on top of another only by the end of an        *)
(* abortable one, which makes way for a third.                             *)
NobodyAborts == \A c \in Controls : strategy[c] # "abort"
Alone(k) == Orderly(k) \/ NobodyAborts

Present(k) == k \in inBody \cup {Shared}
InFlight(k) == {r \in flight : SyncElt(r.ctl) = k}

(* The lock of an element of the page names the one request in flight for  *)
(* it, and is free when there is none, through every abort, queue and      *)
(* halt: two requests of one sync element never overlap.  Requests left    *)
(* waiting change nothing of that, unless requests can be aborted for      *)
(* others as well.                                                         *)
LockIsTheFlight ==
    \A k \in Locks :
        Present(k) /\ Alone(k) => {r.id : r \in InFlight(k)} = {lock[k].xhr} \ {0}

(* Nothing waits for a lock that is free: whoever frees it issues the next *)
(* request that can be sent.                                               *)
NothingWaitsForNobody ==
    \A k \in Locks : Orderly(k) /\ lock[k].xhr = 0 => lock[k].queue = <<>>

(* The indicator is shown while a request is in flight, and for ever after *)
(* one that ended without removing it; overlapping requests of several     *)
(* controls and requests that abort each other do not confuse the count.   *)
IndicatorCounts ==
    count = Cardinality(flight) + stuck /\ (busy <=> count > 0)

(* No message of a composer is posted twice or out of order, however often *)
(* its text is entered and whatever fails; unless its answer throws before *)
(* the text area is emptied, which the answer to the chat form, swapping   *)
(* nothing in, does not.                                                   *)
PostedOnce ==
    \A c \in Composers \ Failing : Alone(SyncElt(c)) =>
        \A i, j \in DOMAIN posted[c] : i < j => posted[c][i] < posted[c][j]

(* Of composers with locks of their own, the texts sent are exactly those  *)
(* entered, and not refused, while no request of the composer is in        *)
(* flight.  One entered earlier is queued and then lost: the end of the    *)
(* request before it empties the text area, and the queued request is      *)
(* halted for want of a text.                                              *)
SentWhenCalm ==
    (\A c \in Composers : strategy[c] = "none" /\ c \notin Failing) => sent = calm
=============================================================================
