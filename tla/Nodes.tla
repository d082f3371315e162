------------------------------- MODULE Nodes -------------------------------
(***************************************************************************)
(* How htmx puts new content into a page and gives it behaviour            *)
(* (server/static/htmx.js): swap, settle, processNode, and the triggers    *)
(* initNode attaches.                                                      *)
(*                                                                         *)
(* A swap changes the document at once and cleans up what it removes; the  *)
(* new content gets its listeners and timers only when the swap settles,   *)
(* 20 ms later, with everything below it at that moment.  In between the   *)
(* content may be removed, or be the target of further swaps, whose own    *)
(* settling processes parts of it again.  maybeDeInitAndHash is what keeps *)
(* that from doubling listeners: an element is initialised again only if   *)
(* its attributes have changed, and deinitialised first.  Its hash covers  *)
(* the class attribute, to which htmx itself adds htmx-added and           *)
(* htmx-settling; these two are the only attributes that change here.      *)
(*                                                                         *)
(* Every element carries one verb, one trigger and one hx-on attribute.    *)
(* What its handler does is the subject of module Requests.                *)
(***************************************************************************)
EXTENDS Integers, FiniteSets, SequencesExt

CONSTANTS
    Nodes,      \* elements that swaps bring in, each once
    Root,       \* an element of the page that is there from the start
    Nowhere,    \* "has no parent"
    Mixes,      \* which trigger the elements may have
    MaxSwaps,   \* bound: swaps
    MaxClicks   \* bound: events

(* click; click once; click delay:...; load delay:...; every ...           *)
AllKinds == {"click", "once", "delay", "load", "poll"}

(* afterbegin is as beforeend, and afterend as beforebegin, but for the    *)
(* order of siblings.                                                      *)
Styles == {"innerHTML", "outerHTML", "beforebegin", "beforeend", "delete", "none", "textContent"}

ASSUME PlacesAssumption == Root \notin Nodes /\ Nowhere \notin Nodes \cup {Root}
ASSUME MixesAssumption  == Mixes \subseteq [Nodes -> AllKinds]
ASSUME BoundsAssumption == MaxSwaps \in Nat /\ MaxClicks \in Nat

VARIABLES
    elt,      \* the elements: place, trigger, class, internal data, timers
    used,     \* those that have been swapped in
    settles,  \* swaps whose settling is due: new content, and marked elements
    swaps,    \* swaps so far
    clicks,   \* events so far
    handled,  \* history: calls of the handler, for the triggers that should call it once
    early,    \* history: elements that came into content not settled yet
    lost      \* history: content of a swap that threw before it was finished

vars == <<elt, used, settles, swaps, clicks, handled, early, lost>>

-----------------------------------------------------------------------------
(* hash is the class attribute at initialisation and No before; timeout    *)
(* and delayed tell whether the data names a timer that is still to fire.  *)
No == {"no"}
Blank == [hash |-> No, listeners |-> 0, onHandlers |-> 0, once |-> FALSE, delayed |-> FALSE,
          timeout |-> FALSE, cancelled |-> FALSE, loaded |-> FALSE, completed |-> FALSE]

(* above: the element and all above it.  polls, loads and orphans count    *)
(* its timers: of polling, of the load trigger, and of delayed events that *)
(* the internal data does not name (any more).  inits is history.          *)
NewElement(n, k) ==
    [above |-> {n}, trigger |-> k, class |-> {}, data |-> Blank,
     polls |-> 0, loads |-> 0, orphans |-> 0, inits |-> 0]

Under(E, D)    == {n \in Nodes : E[n].above \cap D # {}}
Above(E, p)    == IF p = Root THEN {Root} ELSE E[p].above
Parent(E, n)   == LET up == Above(E, n) \ {n}
                  IN IF up = {} THEN Nowhere ELSE CHOOSE p \in up : Above(E, p) = up
Children(E, p) == {n \in Nodes : Parent(E, n) = p}
Attached(n)    == Root \in elt[n].above  \* bodyContains

(* attributeHash: of the attributes only class changes here.               *)
AttributeHash(e) == e.class

-----------------------------------------------------------------------------
(* Mutated forms, here and below: each is a bug this code could have.      *)
(* They are no part of the specification; every property is violated when  *)
(* the one listed for it in PROJECT.json stands in for the real operator.  *)

(* deInitNode: the polling timer is cleared and the listeners removed; a   *)
(* delayed event goes on without the data knowing.  firstInitCompleted     *)
(* stays, everything else is forgotten.                                    *)
DeInitNode(e) ==
    [e EXCEPT !.polls   = IF e.data.timeout THEN @ - 1 ELSE @,
              !.orphans = IF e.data.delayed THEN @ + 1 ELSE @,
              !.data    = [Blank EXCEPT !.completed = e.data.completed]]

(* addTriggerHandler: a polling timer, a timer of the load trigger, at the *)
(* first initialisation only, or a listener; a later load trigger is a     *)
(* listener for an event that does not come.                               *)
AddTriggerHandler(e) ==
    CASE e.trigger = "load" /\ ~e.data.completed -> [e EXCEPT !.loads = @ + 1]
      [] e.trigger = "poll" -> [e EXCEPT !.polls = @ + 1, !.data.timeout = TRUE]
      [] OTHER              -> [e EXCEPT !.data.listeners = @ + 1]

InitNode(e) == [AddTriggerHandler(e) EXCEPT !.inits = @ + 1, !.data.completed = TRUE]

(* An element that was initialised once is never initialised again.        *)
MaybeDeInitAndHash_Once(e) ==
    [DeInitNode(e) EXCEPT !.data.hash = IF e.data.hash = No THEN AttributeHash(e) ELSE e.data.hash]

(* maybeDeInitAndHash: an element whose attributes have changed starts     *)
(* from nothing; the hash tells that it is to be initialised.              *)
MaybeDeInitAndHash(e) ==
    IF e.data.hash = AttributeHash(e) THEN e
    ELSE [DeInitNode(e) EXCEPT !.data.hash = AttributeHash(e)]

(* What the attribute set up before is not wiped.                          *)
ProcessHxOnWildcard_AddsAgain(e) == [e EXCEPT !.data.onHandlers = @ + 1]

(* processHxOnWildcard wipes what it set up before and starts afresh.      *)
ProcessHxOnWildcard(e) == [e EXCEPT !.data.onHandlers = 1]

(* processNode, of the elements D and all below them: first those that     *)
(* have changed are deinitialised, then every hx-on attribute is set up,   *)
(* then those that have changed are initialised.                           *)
ProcessNodes(E, D) ==
    [n \in Nodes |->
        LET new   == MaybeDeInitAndHash(E[n])
            ready == ProcessHxOnWildcard(new)
        IN IF n \notin Under(E, D) THEN E[n]
           ELSE IF new.data.hash # E[n].data.hash THEN InitNode(ready)
           ELSE ready]

-----------------------------------------------------------------------------
(* Swapping.  A swap in progress, W, has the elements as it leaves them    *)
(* and the settleInfo: kids, the new content, and elts, the elements that  *)
(* are marked until the swap settles.                                      *)

(* insertNodesBefore, of the new elements D.                               *)
InsertNodes(W, p, D) ==
    [W EXCEPT !.kids = @ \cup D,
              !.elt  = [n \in Nodes |->
                  IF n \in D THEN [@[n] EXCEPT !.above = {n} \cup Above(W.elt, p),
                                               !.class = {"added"}]
                             ELSE @[n]]]

(* cleanUpElement, of the elements D and all below them, and removal.      *)
RemoveElements(W, D) ==
    LET gone  == UNION {W.elt[d].above \ {d} : d \in D}
        under == Under(W.elt, D)
    IN [W EXCEPT !.elt = [n \in Nodes |->
            IF n \in under THEN [DeInitNode(W.elt[n]) EXCEPT !.above = @ \ gone] ELSE W.elt[n]]]

(* Elements D are taken out, with all below them and without clean-up.     *)
TakeOut(E, D) ==
    LET gone == UNION {E[d].above \ {d} : d \in D}
    IN [n \in Nodes |-> IF n \in Under(E, D) THEN [E[n] EXCEPT !.above = @ \ gone] ELSE E[n]]

(* swap, textContent: the text takes the place of all the target contains; *)
(* this htmx leaves to the browser.                                        *)
SetTextContent(W, t) == [W EXCEPT !.elt = TakeOut(@, Children(@, t))]

(* swapWithStyle: swapOuterHTML does nothing when there is no parent,      *)
(* swapInnerHTML removes the old content after the new one is in.          *)
SwapWithStyle(style, t, D, W) ==
    LET parent == Parent(W.elt, t)
    IN CASE style = "innerHTML"   -> RemoveElements(InsertNodes(W, t, D), Children(W.elt, t))
         [] style = "outerHTML"   ->
               IF parent = Nowhere THEN W
               ELSE RemoveElements([InsertNodes(W, parent, D) EXCEPT !.elts = (@ \ {t}) \cup D], {t})
         [] style = "beforeend"   -> InsertNodes(W, t, D)
         [] style = "beforebegin" -> InsertNodes(W, parent, D)
         [] style = "delete"      -> RemoveElements(W, {t})
         [] style = "none"        -> W

Marked(E, D, mark)   == [n \in Nodes |-> IF n \in D THEN [E[n] EXCEPT !.class = @ \cup mark] ELSE E[n]]
Unmarked(E, D, mark) == [n \in Nodes |-> IF n \in D THEN [E[n] EXCEPT !.class = @ \ mark] ELSE E[n]]

(* n is content that has yet to be processed.                              *)
Unsettled(n) == n \in Nodes /\ \E i \in DOMAIN settles : n \in Under(elt, settles[i].kids)

-----------------------------------------------------------------------------
Init ==
    /\ \E kind \in Mixes : elt = [n \in Nodes |-> NewElement(n, kind[n])]
    /\ used    = {}
    /\ settles = <<>>
    /\ swaps   = 0
    /\ clicks  = 0
    /\ handled = [n \in Nodes |-> 0]
    /\ early   = {}
    /\ lost    = {}

(* swapBeforeBegin of an element without a parent throws, when there is    *)
(* content to insert.                                                      *)
Throws(style, t, D, W) == style = "beforebegin" /\ D # {} /\ Parent(W.elt, t) = Nowhere

(* oobSwap: the part O of the content goes to u.                           *)
OobSwap(style, u, O, W) == IF O = {} THEN W ELSE SwapWithStyle(style, u, O, W)

(* swap, called for an answer or a stream message: its content D goes to   *)
(* target t, which was looked up when the request was made and may be gone *)
(* by now; an out-of-band part O goes elsewhere first.  When the swap      *)
(* throws, what has been done stays and never settles.                     *)
Swap(style, t, D, oobStyle, u, O) ==
    LET start == [elt |-> elt, kids |-> {}, elts |-> {t} \ {Root}]
        oob   == OobSwap(oobStyle, u, O, start)
        done  == IF style = "textContent" THEN SetTextContent(oob, t)
                                          ELSE SwapWithStyle(style, t, D, oob)
        last  == IF Throws(style, t, D, oob) THEN oob ELSE done
    IN /\ swaps < MaxSwaps
       /\ swaps' = swaps + 1
       /\ used'  = used \cup last.kids
       /\ early' = early \cup {n \in last.kids : Unsettled(Parent(last.elt, n))}
       /\ IF Throws(style, t, D, oob)
            THEN /\ elt'  = oob.elt
                 /\ lost' = lost \cup oob.kids
                 /\ UNCHANGED settles
            ELSE /\ elt'  = Marked(done.elt, done.elts, {"settling"})
                 /\ settles' = Append(settles, [kids |-> done.kids, elts |-> done.elts])
                 /\ UNCHANGED lost
       /\ UNCHANGED <<clicks, handled>>

(* doSettle: the tasks (makeAjaxLoadTask), then the marks.  Swaps settle   *)
(* after a delay each of its own.                                          *)
Settle(i) ==
    LET s == settles[i]
    IN /\ settles' = RemoveAt(settles, i)
       /\ elt' = Unmarked(ProcessNodes(Unmarked(elt, s.kids, {"added"}), s.kids),
                          s.elts, {"settling"})
       /\ UNCHANGED <<used, swaps, clicks, handled, early, lost>>

(* A script takes an element out without htmx's help.                      *)
Detach(n) ==
    /\ elt[n].above # {n}
    /\ elt' = TakeOut(elt, {n})
    /\ UNCHANGED <<used, settles, swaps, clicks, handled, early, lost>>

-----------------------------------------------------------------------------
(* Triggers.                                                               *)

(* The listener of addEventListener runs: "once" lets the first event      *)
(* through, "delay" starts a timer and clears the one before.  However     *)
(* many listeners there are, the first that runs takes the event           *)
(* (handledFor).                                                           *)
Click(n) ==
    LET e    == elt[n]
    IN /\ Attached(n) /\ e.data.listeners > 0 /\ e.trigger # "load"
       /\ clicks < MaxClicks
       /\ clicks'  = clicks + 1
       /\ handled' = [handled EXCEPT ![n] = IF e.trigger = "once" /\ ~e.data.once THEN @ + 1 ELSE @]
       /\ elt'     = [elt EXCEPT ![n].data.once    = @ \/ e.trigger = "once",
                                 ![n].data.delayed = @ \/ e.trigger = "delay"]
       /\ UNCHANGED <<used, settles, swaps, early, lost>>

(* The timer of a delayed event: the handler is called, which issues no    *)
(* request for an element that is gone.                                    *)
DelayFires(n) ==
    /\ \/ elt[n].data.delayed /\ elt' = [elt EXCEPT ![n].data.delayed = FALSE]
       \/ elt[n].orphans > 0  /\ elt' = [elt EXCEPT ![n].orphans = @ - 1]
    /\ UNCHANGED <<used, settles, swaps, clicks, handled, early, lost>>

(* loadImmediately's timer.                                                *)
LoadFires(n) ==
    /\ elt[n].loads > 0
    /\ elt' = [elt EXCEPT ![n].loads = @ - 1, ![n].data.loaded = TRUE]
    /\ handled' = [handled EXCEPT ![n] = IF Attached(n) /\ ~elt[n].data.loaded THEN @ + 1 ELSE @]
    /\ UNCHANGED <<used, settles, swaps, clicks, early, lost>>

(* The timer is started again whatever has become of the element.          *)
PollFires_Forever(n) ==
    /\ elt[n].polls > 0 /\ elt[n].data.cancelled
    /\ elt' = [elt EXCEPT ![n].polls = @ - 1, ![n].data.timeout = FALSE]
    /\ UNCHANGED <<used, settles, swaps, clicks, handled, early, lost>>

(* processPolling's timer: an element that is gone, or whose polling an    *)
(* answer has cancelled, is not polled again; otherwise the handler is     *)
(* called and the timer started anew, which changes nothing here.          *)
PollFires(n) ==
    /\ elt[n].polls > 0
    /\ ~Attached(n) \/ elt[n].data.cancelled
    /\ elt' = [elt EXCEPT ![n].polls = @ - 1, ![n].data.timeout = FALSE]
    /\ UNCHANGED <<used, settles, swaps, clicks, handled, early, lost>>

(* cancelPolling: an answer with status 286 came for the element.          *)
CancelPolling(n) ==
    /\ elt[n].trigger = "poll" /\ elt[n].inits > 0 /\ ~elt[n].data.cancelled
    /\ elt' = [elt EXCEPT ![n].data.cancelled = TRUE]
    /\ UNCHANGED <<used, settles, swaps, clicks, handled, early, lost>>

-----------------------------------------------------------------------------
(* What a swap brings: nothing or one new element for its target, and      *)
(* nothing or one for another place.  New elements are all alike but for   *)
(* their trigger, which is any, so it does not matter which one it is.     *)
(* The other place is looked for below the root of the tree that the       *)
(* element whose request it was is in, which need not be the document; a   *)
(* text is not searched.                                                   *)
Fresh(D) == IF D = {} THEN {} ELSE {CHOOSE n \in D : TRUE}

SwapSomething ==
    \E style \in Styles, t \in used \cup {Root}, D \in {{}, Fresh(Nodes \ used)} :
        /\ t = Root => style \in {"innerHTML", "beforeend", "textContent", "none"}
        /\ style \in {"delete", "textContent", "none"} => D = {}
        /\ \/ Swap(style, t, D, "none", t, {})
           \/ \E oobStyle \in {"innerHTML", "outerHTML", "beforeend"}, u \in used :
                 LET O == Fresh((Nodes \ used) \ D)
                 IN /\ style # "textContent" /\ elt[u].above # {u} /\ O # {}
                    /\ Swap(style, t, D, oobStyle, u, O)

Next ==
    \/ SwapSomething
    \/ \E i \in DOMAIN settles : Settle(i)
    \/ \E n \in Nodes : \/ Detach(n) \/ Click(n) \/ CancelPolling(n)
                        \/ DelayFires(n) \/ LoadFires(n) \/ PollFires(n)

Spec == Init /\ [][Next]_vars

(* The browser fires timers. *)
Fairness == \A n \in Nodes : WF_vars(DelayFires(n) \/ LoadFires(n) \/ PollFires(n))
FairSpec == Spec /\ Fairness

-----------------------------------------------------------------------------
(* Safety.                                                                 *)

(* Nothing of element n is amiss: its trigger is set up, exactly once, and *)
(* it shows none of the marks of a swap.                                   *)
Works(n) ==
    LET e == elt[n]
    IN /\ e.trigger \in {"click", "once", "delay"} => e.data.listeners = 1
       /\ e.trigger = "poll" => e.polls = 1 \/ e.data.cancelled
       /\ e.trigger = "load" => e.loads = 1 \/ handled[n] = 1
       /\ e.data.onHandlers = 1
       /\ "added" \notin e.class
       /\ ("settling" \in e.class => \E i \in DOMAIN settles : n \in settles[i].elts)

(* Content that is in the page works as soon as no swap it belongs to has  *)
(* still to settle, whatever other swaps have replaced, removed or put     *)
(* next to it in between, and in whatever order they settle.               *)
SettledContentWorks ==
    \A n \in used : Attached(n) /\ ~Unsettled(n) /\ n \notin lost => Works(n)

(* At no time does an element have two listeners for its trigger, two for  *)
(* its hx-on attribute or two polling timers, and its load trigger is      *)
(* handled once at most.  Only an element that came into content not       *)
(* settled yet is initialised more than once: for any other, "once" means  *)
(* once, and in the page a delayed event always replaces the one before.   *)
NothingTwice ==
    \A n \in Nodes :
        /\ elt[n].data.listeners <= 1 /\ elt[n].data.onHandlers <= 1 /\ elt[n].polls <= 1
        /\ elt[n].trigger = "load" => elt[n].loads + handled[n] <= 1
        /\ n \notin early =>
              /\ elt[n].inits <= 1
              /\ elt[n].trigger = "once" => handled[n] <= 1
              /\ Attached(n) => elt[n].orphans = 0

(* Once an element is gone, and no swap can set it up any more, its timers *)
(* run out: nothing polls for ever for a part of the page that is not      *)
(* shown.                                                                  *)
Quiet(n) == elt[n].polls = 0 /\ elt[n].loads = 0 /\ elt[n].orphans = 0 /\ ~elt[n].data.delayed
RemovedGoesQuiet == \A n \in Nodes : (n \in used /\ ~Attached(n)) ~> (Quiet(n) \/ Attached(n))
=============================================================================
