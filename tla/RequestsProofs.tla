--------------------------- MODULE RequestsProofs ---------------------------
(***************************************************************************)
(* Proofs about module Requests, for any controls, ways of synchronising   *)
(* them and numbers of requests: a sync element's lock names the one       *)
(* request in flight for it, nothing waits for a lock that is free, and    *)
(* the indicator counts the requests in flight.                            *)
(*                                                                         *)
(* A step works on a page: one lock and what the locks share.  Settled     *)
(* says what holds of a page between steps, Ending what holds while a      *)
(* request has ended and its lock has not.                                 *)
(***************************************************************************)
EXTENDS Requests, SequenceTheorems, FiniteSetTheorems, WellFoundedInduction, TLAPS

LockType == [xhr : Nat, abortable : BOOLEAN, queue : Seq(Controls)]
PageType == [lock : LockType, flight : SUBSET Requests, issued : Nat, count : Nat,
             busy : BOOLEAN, field : [Composers -> 0..MaxTexts],
             sent : SUBSET (1..MaxTexts), stranded : BOOLEAN]

(* Controls that may wait for lock k.                                      *)
Waits(c, k) == c \in Controls /\ SyncElt(c) = k /\ strategy[c] # "abort"

(* Requests are told apart by their numbers, and counted with the n that   *)
(* ended without removing their indicator.                                 *)
Counted(S, n) ==
    /\ \A r \in S.flight : 1 <= r.id /\ r.id <= S.issued
    /\ \A r, q \in S.flight : r.id = q.id => r = q
    /\ IsFiniteSet(S.flight) /\ S.count = Cardinality(S.flight) + n
    /\ S.busy <=> S.count > 0

Sound(S, k, n) ==
    /\ S \in PageType /\ Counted(S, n)
    /\ \A i \in 1..Len(S.lock.queue) : Waits(S.lock.queue[i], k)
    /\ k \in Controls \ inBody => S.lock.queue = <<>>
    /\ k # Shared => Len(S.lock.queue) <= 1
    /\ S.lock.abortable => \E c \in Controls : SyncElt(c) = k /\ strategy[c] = "abort"

Of(S, k) == {r \in S.flight : SyncElt(r.ctl) = k}
OrderlyIn(S, k) == k # Shared \/ ~S.stranded
AloneIn(S, k)   == OrderlyIn(S, k) \/ NobodyAborts

(* The lock names a request in flight for it, the only one.                *)
Settled(S, k, n) ==
    /\ Sound(S, k, n)
    /\ S.lock.xhr # 0 => \E r \in Of(S, k) : r.id = S.lock.xhr
    /\ k \in Controls \ inBody => S.lock.xhr = 0
    /\ AloneIn(S, k) /\ Present(k) => \A r \in Of(S, k) : r.id = S.lock.xhr
    /\ OrderlyIn(S, k) /\ (S.lock.xhr = 0 \/ S.lock.abortable) => S.lock.queue = <<>>

Ending(S, k, n) ==
    /\ Sound(S, k, n)
    /\ AloneIn(S, k) /\ Present(k) => Of(S, k) = {}

(* What a step on lock k leaves to the other locks.                        *)
Beside(S, T, k) ==
    /\ \A r \in Requests : SyncElt(r.ctl) # k => (r \in S.flight <=> r \in T.flight)
    /\ S.stranded => T.stranded

(* A composer has at most one request in flight; one the server has not    *)
(* handled yet, or the text area when there is none, holds a text newer    *)
(* than all the server has.  Of a composer whose answers may throw, which  *)
(* keeps its text then, nothing is said.                                   *)
Mine(S, c)  == {r \in S.flight : r.ctl = c}
Above(c, t) == \A i \in DOMAIN posted[c] : posted[c][i] < t

FreshFor(S, c) ==
    /\ S.field[c] <= typed
    /\ \A r \in Mine(S, c) : r.text <= typed /\ (r.served \/ Above(c, r.text))
    /\ \A r, q \in Mine(S, c) : r = q
    /\ S.field[c] = 0 \/ Above(c, S.field[c]) \/ Mine(S, c) # {}

Fresh(S) ==
    /\ typed \in Nat
    /\ \A c \in Composers \ Failing : AloneIn(S, SyncElt(c)) => FreshFor(S, c)

(* No composer that uses lock k has a text to send.                        *)
Textless(S, k) == \A c \in Composers : SyncElt(c) = k => S.field[c] = 0

(* What a step on lock k leaves of the texts.                              *)
Keeps(S, T, k) ==
    /\ Fresh(S) => Fresh(T)
    /\ Textless(S, k) => Textless(T, k) /\ T.sent = S.sent

-----------------------------------------------------------------------------
(* What the steps change.                                                  *)

LEMMA AddFields ==
    ASSUME NEW S \in PageType
    PROVE  LET T == AddRequestIndicators(S)
           IN /\ T \in PageType /\ T.count = S.count + 1 /\ T.busy
              /\ T.lock = S.lock /\ T.flight = S.flight /\ T.issued = S.issued
              /\ T.stranded = S.stranded /\ T.field = S.field /\ T.sent = S.sent
<1>1. ASSUME NEW n \in Nat PROVE [S EXCEPT !.count = n, !.busy = TRUE] \in PageType
  BY DEF PageType
<1>2. S.count + 1 \in Nat
  BY DEF PageType
<1>3. AddRequestIndicators(S) = [S EXCEPT !.count = S.count + 1, !.busy = TRUE]
  BY DEF AddRequestIndicators
<1>4. AddRequestIndicators(S) \in PageType
  BY <1>1, <1>2, <1>3
<1>5. ASSUME NEW n
      PROVE  LET T == [S EXCEPT !.count = n, !.busy = TRUE]
             IN /\ T.count = n /\ T.lock = S.lock /\ T.flight = S.flight
                /\ T.issued = S.issued /\ T.stranded = S.stranded
                /\ T.field = S.field /\ T.sent = S.sent
  BY DEF PageType
<1>6. ASSUME NEW n PROVE [S EXCEPT !.count = n, !.busy = TRUE].busy
  BY DEF PageType
<1> QED
  BY <1>3, <1>4, <1>5, <1>6

LEMMA SendFields ==
    ASSUME NEW S \in PageType, NEW c \in Controls
    PROVE  LET T == Send(S, c)
               r == [id |-> S.issued + 1, ctl |-> c, text |-> InputText(S, c), served |-> FALSE]
           IN /\ T \in PageType /\ r \in Requests /\ T.flight = S.flight \cup {r}
              /\ T.lock.xhr = S.issued + 1 /\ T.lock.queue = S.lock.queue
              /\ T.lock.abortable <=> strategy[c] = "abort"
              /\ T.issued = S.issued + 1 /\ T.count = S.count + 1 /\ T.busy
              /\ T.stranded = S.stranded /\ T.field = S.field
              /\ T.sent = S.sent \cup ({InputText(S, c)} \ {0})
<1> DEFINE text == InputText(S, c)
           id == S.issued + 1
           r  == [id |-> id, ctl |-> c, text |-> text, served |-> FALSE]
           ab == strategy[c] = "abort"
           U  == [S EXCEPT !.lock.xhr = id, !.lock.abortable = ab,
                           !.flight = @ \cup {r}, !.issued = id, !.sent = @ \cup ({text} \ {0})]
<1>1. text \in 0..MaxTexts
  BY BoundsAssumption DEF InputText, PageType
<1>2. id \in Nat /\ ab \in BOOLEAN
  BY DEF PageType
<1>3. r \in Requests
  BY <1>1, <1>2 DEF Requests
<1>4. S.sent \cup ({text} \ {0}) \in SUBSET (1..MaxTexts)
  BY <1>1, BoundsAssumption DEF PageType
<1>5. Send(S, c) = AddRequestIndicators(U)
  BY DEF Send
<1> HIDE DEF text, id, r, ab
<1>6. ASSUME NEW se \in SUBSET (1..MaxTexts)
      PROVE  [S EXCEPT !.lock.xhr = id, !.lock.abortable = ab, !.flight = @ \cup {r},
                       !.issued = id, !.sent = se] \in PageType
  BY <1>2, <1>3 DEF PageType, LockType
<1>7. U \in PageType
  BY <1>4, <1>6
<1>8. /\ U.lock.xhr = id /\ U.lock.queue = S.lock.queue /\ U.flight = S.flight \cup {r}
      /\ U.issued = id /\ U.count = S.count /\ U.stranded = S.stranded
      /\ U.field = S.field /\ U.sent = S.sent \cup ({text} \ {0})
  BY DEF PageType, LockType
<1>9. U.lock.abortable <=> ab
  BY DEF PageType, LockType
<1> HIDE DEF U
<1> QED
  BY <1>3, <1>5, <1>7, <1>8, <1>9, AddFields DEF text, id, r, ab

LEMMA RemoveFields ==
    ASSUME NEW S \in PageType, S.count # 0
    PROVE  LET T == RemoveRequestIndicators(S)
           IN /\ T \in PageType /\ T.count = S.count - 1 /\ (T.busy <=> T.count # 0)
              /\ T.lock = S.lock /\ T.flight = S.flight /\ T.issued = S.issued
              /\ T.stranded = S.stranded /\ T.field = S.field /\ T.sent = S.sent
<1> DEFINE n == S.count - 1
           b == n # 0
<1>1. n \in Nat /\ b \in BOOLEAN
  BY DEF PageType
<1>2. RemoveRequestIndicators(S) = [S EXCEPT !.count = n, !.busy = b]
  BY DEF RemoveRequestIndicators
<1> HIDE DEF n, b
<1>3. [S EXCEPT !.count = n, !.busy = b] \in PageType
  BY <1>1 DEF PageType
<1>4. LET T == [S EXCEPT !.count = n, !.busy = b]
      IN /\ T.count = n /\ T.lock = S.lock /\ T.flight = S.flight
         /\ T.issued = S.issued /\ T.stranded = S.stranded
         /\ T.field = S.field /\ T.sent = S.sent
  BY DEF PageType
<1>5. [S EXCEPT !.count = n, !.busy = b].busy <=> b
  BY DEF PageType
<1> QED
  BY <1>2, <1>3, <1>4, <1>5 DEF n, b

LEMMA AfterFields ==
    ASSUME NEW S \in PageType, NEW c \in Controls
    PROVE  LET T == AfterRequest(S, c)
           IN /\ T \in PageType /\ T.count = S.count /\ (T.busy <=> S.busy)
              /\ T.lock = S.lock /\ T.flight = S.flight /\ T.issued = S.issued
              /\ T.stranded = S.stranded /\ T.sent = S.sent
              /\ T.field = IF c \in Composers THEN [S.field EXCEPT ![c] = 0] ELSE S.field
<1>1. CASE c \in Composers
  <2>1. 0 \in 0..MaxTexts
    BY BoundsAssumption
  <2>2. [S.field EXCEPT ![c] = 0] \in [Composers -> 0..MaxTexts]
    BY <2>1 DEF PageType
  <2>3. ASSUME NEW f \in [Composers -> 0..MaxTexts]
        PROVE  LET T == [S EXCEPT !.field = f]
               IN /\ T \in PageType /\ T.count = S.count /\ T.lock = S.lock
                  /\ T.flight = S.flight /\ T.issued = S.issued
                  /\ T.field = f /\ T.sent = S.sent
    BY DEF PageType
  <2>4. ASSUME NEW f \in [Composers -> 0..MaxTexts]
        PROVE  LET T == [S EXCEPT !.field = f]
               IN (T.busy <=> S.busy) /\ T.stranded = S.stranded
    BY DEF PageType
  <2> DEFINE emptied == [S.field EXCEPT ![c] = 0]
  <2>5. AfterRequest(S, c) = [S EXCEPT !.field = emptied]
    BY <1>1 DEF AfterRequest, PageType
  <2> HIDE DEF emptied
  <2>6. emptied \in [Composers -> 0..MaxTexts]
    BY <2>2 DEF emptied
  <2>7. emptied = IF c \in Composers THEN [S.field EXCEPT ![c] = 0] ELSE S.field
    BY <1>1 DEF emptied
  <2> QED
    BY <2>3, <2>4, <2>5, <2>6, <2>7
<1>2. CASE c \notin Composers
  BY <1>2 DEF AfterRequest
<1> QED
  BY <1>1, <1>2

LEMMA DropFields ==
    ASSUME NEW S \in PageType, NEW r \in S.flight
    PROVE  LET T == [S EXCEPT !.flight = @ \ {r}]
           IN /\ T \in PageType /\ T.count = S.count /\ (T.busy <=> S.busy)
              /\ T.lock = S.lock /\ T.flight = S.flight \ {r} /\ T.issued = S.issued
              /\ T.stranded = S.stranded /\ T.field = S.field /\ T.sent = S.sent
<1> DEFINE T == [S EXCEPT !.flight = @ \ {r}]
<1>1. /\ T \in PageType /\ T.count = S.count /\ T.lock = S.lock
      /\ T.flight = S.flight \ {r} /\ T.issued = S.issued
      /\ T.field = S.field /\ T.sent = S.sent
  BY DEF PageType
<1>2. (T.busy <=> S.busy) /\ T.stranded = S.stranded
  BY DEF PageType
<1> QED
  BY <1>1, <1>2

LEMMA LockFields ==
    ASSUME NEW S \in PageType, NEW L \in LockType
    PROVE  LET T == [S EXCEPT !.lock = L]
           IN /\ T \in PageType /\ T.count = S.count /\ (T.busy <=> S.busy)
              /\ T.lock = L /\ T.flight = S.flight /\ T.issued = S.issued
              /\ T.stranded = S.stranded /\ T.field = S.field /\ T.sent = S.sent
<1> DEFINE T == [S EXCEPT !.lock = L]
<1>1. /\ T \in PageType /\ T.count = S.count /\ T.lock = L
      /\ T.flight = S.flight /\ T.issued = S.issued
      /\ T.field = S.field /\ T.sent = S.sent
  BY DEF PageType
<1>2. (T.busy <=> S.busy) /\ T.stranded = S.stranded
  BY DEF PageType
<1> QED
  BY <1>1, <1>2

LEMMA StrandFields ==
    ASSUME NEW S \in PageType, NEW b \in BOOLEAN
    PROVE  LET T == [S EXCEPT !.stranded = b]
           IN /\ T \in PageType /\ T.count = S.count /\ (T.busy <=> S.busy)
              /\ T.lock = S.lock /\ T.flight = S.flight /\ T.issued = S.issued
              /\ (T.stranded <=> b) /\ T.field = S.field /\ T.sent = S.sent
<1> DEFINE T == [S EXCEPT !.stranded = b]
<1>1. /\ T \in PageType /\ T.count = S.count /\ T.lock = S.lock
      /\ T.flight = S.flight /\ T.issued = S.issued
      /\ T.field = S.field /\ T.sent = S.sent
  BY DEF PageType
<1>2. (T.busy <=> S.busy) /\ (T.stranded <=> b)
  BY DEF PageType
<1> QED
  BY <1>1, <1>2

-----------------------------------------------------------------------------
(* The steps keep the page in order.                                       *)

LEMMA SameKeeps ==
    ASSUME NEW S, NEW T, NEW k, T.field = S.field, T.flight = S.flight, T.sent = S.sent,
           S.stranded => T.stranded
    PROVE  Keeps(S, T, k)
<1>1. \A c : Mine(T, c) = Mine(S, c) /\ (FreshFor(S, c) => FreshFor(T, c))
  BY DEF Mine, FreshFor
<1>2. \A c : AloneIn(T, SyncElt(c)) => AloneIn(S, SyncElt(c))
  BY DEF OrderlyIn, AloneIn
<1> QED
  BY <1>1, <1>2 DEF Keeps, Fresh, Textless

LEMMA LockKeeps ==
    ASSUME NEW S \in PageType, NEW L \in LockType, NEW k
    PROVE  Keeps(S, [S EXCEPT !.lock = L], k)
<1> DEFINE T == [S EXCEPT !.lock = L]
<1>1. T.flight = S.flight /\ T.stranded = S.stranded /\ T.field = S.field /\ T.sent = S.sent
  BY LockFields
<1> HIDE DEF T
<1>2. Keeps(S, T, k)
  BY <1>1, SameKeeps
<1> QED
  BY <1>2 DEF T

LEMMA KeepsTransitive ==
    ASSUME NEW S, NEW T, NEW U, NEW k, Keeps(S, T, k), Keeps(T, U, k)
    PROVE  Keeps(S, U, k)
BY DEF Keeps

(* What is sent is the text of the text area, which no request of the      *)
(* composer in flight shares it with.                                      *)
LEMMA SendKeeps ==
    ASSUME NEW k \in Locks, NEW n \in Nat, NEW S, Ending(S, k, n),
           NEW c \in Controls, c \in inBody, SyncElt(c) = k, ~Invalid(S, c)
    PROVE  Keeps(S, Send(S, c), k)
<1> DEFINE T == Send(S, c)
           r == [id |-> S.issued + 1, ctl |-> c, text |-> InputText(S, c), served |-> FALSE]
<1>1. S \in PageType
  BY DEF Ending, Sound
<1>2. /\ T.flight = S.flight \cup {r} /\ T.stranded = S.stranded /\ T.field = S.field
      /\ T.sent = S.sent \cup ({InputText(S, c)} \ {0})
  BY <1>1, SendFields
<1>3. r.ctl = c /\ r.text = InputText(S, c)
  OBVIOUS
<1>4. /\ c \in Composers => InputText(S, c) = S.field[c] /\ S.field[c] # 0
      /\ c \notin Composers => InputText(S, c) = 0
  BY DEF Invalid, InputText
<1>5. Present(k)
  BY ControlsAssumption DEF SyncElt, Present
<1> HIDE DEF T, r
<1>6. ASSUME Fresh(S), NEW d \in Composers \ Failing, AloneIn(T, SyncElt(d))
      PROVE  FreshFor(T, d)
  <2>1. AloneIn(S, SyncElt(d)) /\ FreshFor(S, d)
    BY <1>2, <1>6 DEF OrderlyIn, AloneIn, Fresh
  <2>2. CASE d # c
    <3>1. Mine(T, d) = Mine(S, d)
      BY <1>2, <1>3, <2>2 DEF Mine
    <3> QED
      BY <1>2, <2>1, <3>1 DEF FreshFor
  <2>3. CASE d = c
    <3>1. Mine(S, d) = {}
      BY <1>5, <2>1, <2>3 DEF Ending, Of, Mine
    <3>2. Mine(T, d) = {r}
      BY <1>2, <1>3, <2>3, <3>1 DEF Mine
    <3>3. r.text = S.field[d] /\ S.field[d] <= typed /\ Above(d, S.field[d])
      BY <1>3, <1>4, <2>1, <2>3, <3>1 DEF FreshFor
    <3> QED
      BY <1>2, <3>2, <3>3 DEF FreshFor
  <2> QED
    BY <2>2, <2>3
<1>7. ASSUME Textless(S, k) PROVE Textless(T, k) /\ T.sent = S.sent
  <2>1. c \notin Composers
    BY <1>4, <1>7 DEF Textless
  <2> QED
    BY <1>2, <1>4, <1>7, <2>1 DEF Textless
<1> QED
  BY <1>6, <1>7 DEF Keeps, Fresh, T

(* A request is sent when none is in flight for the lock.                  *)
LEMMA SendSettles ==
    ASSUME NEW k \in Locks, NEW n \in Nat, NEW S, Ending(S, k, n),
           NEW c \in Controls, c \in inBody, SyncElt(c) = k,
           OrderlyIn(S, k) /\ strategy[c] = "abort" => S.lock.queue = <<>>
    PROVE  Settled(Send(S, c), k, n) /\ Beside(S, Send(S, c), k)
<1> DEFINE T == Send(S, c)
           r == [id |-> S.issued + 1, ctl |-> c, text |-> InputText(S, c), served |-> FALSE]
<1>1. /\ S \in PageType /\ Counted(S, n)
      /\ \A i \in 1..Len(S.lock.queue) : Waits(S.lock.queue[i], k)
      /\ k # Shared => Len(S.lock.queue) <= 1
  BY DEF Ending, Sound
<1>2. /\ T \in PageType /\ r \in Requests /\ T.flight = S.flight \cup {r}
      /\ T.lock.xhr = S.issued + 1 /\ T.lock.queue = S.lock.queue
      /\ T.lock.abortable <=> strategy[c] = "abort"
      /\ T.issued = S.issued + 1 /\ T.count = S.count + 1 /\ T.busy
      /\ T.stranded = S.stranded
  BY <1>1, SendFields
<1>3. r.id = S.issued + 1 /\ r.ctl = c /\ S.issued \in Nat /\ S.count \in Nat
  BY <1>1 DEF PageType
<1>4. k \notin Controls \ inBody /\ Present(k)
  BY ControlsAssumption DEF SyncElt, Present
<1> HIDE DEF T, r
<1>5. \A q \in S.flight : q.id \in Nat /\ 1 <= q.id /\ q.id <= S.issued /\ q.id # r.id
  BY <1>1, <1>3 DEF Counted, PageType, Requests
<1>6. Counted(T, n)
  <2>1. \A q \in T.flight : 1 <= q.id /\ q.id <= T.issued
    BY <1>2, <1>3, <1>5
  <2>2. \A p, q \in T.flight : p.id = q.id => p = q
    BY <1>1, <1>2, <1>5 DEF Counted
  <2>3. /\ IsFiniteSet(S.flight) /\ S.count = Cardinality(S.flight) + n
        /\ Cardinality(S.flight) \in Nat /\ r \notin S.flight
    BY <1>1, <1>5, FS_CardinalityType DEF Counted
  <2>4. IsFiniteSet(T.flight) /\ Cardinality(T.flight) = Cardinality(S.flight) + 1
    <3>1. /\ IsFiniteSet(S.flight \cup {r})
          /\ Cardinality(S.flight \cup {r}) = Cardinality(S.flight) + 1
      BY <2>3, FS_AddElement
    <3> QED
      BY <1>2, <3>1
  <2>5. T.count = Cardinality(T.flight) + n /\ T.count > 0
    BY <1>2, <1>3, <2>3, <2>4
  <2> QED
    BY <1>2, <2>1, <2>2, <2>4, <2>5 DEF Counted
<1>7. Sound(T, k, n)
  <2>1. T.lock.abortable => strategy[c] = "abort"
    BY <1>2
  <2> QED
    BY <1>1, <1>2, <1>4, <1>6, <2>1 DEF Sound
<1>8. r \in Of(T, k) /\ r.id = T.lock.xhr /\ T.lock.xhr # 0
  BY <1>2, <1>3 DEF Of
<1>9. (OrderlyIn(T, k) => OrderlyIn(S, k)) /\ (AloneIn(T, k) => AloneIn(S, k))
  BY <1>2 DEF OrderlyIn, AloneIn
<1>10. AloneIn(T, k) => \A q \in Of(T, k) : q = r
  BY <1>2, <1>4, <1>9 DEF Of, Ending
<1>11. OrderlyIn(T, k) /\ T.lock.abortable => T.lock.queue = <<>>
  BY <1>2, <1>9
<1>12. Settled(T, k, n)
  BY <1>4, <1>7, <1>8, <1>10, <1>11 DEF Settled
<1>13. Beside(S, T, k)
  BY <1>2, <1>3 DEF Beside
<1> QED
  BY <1>12, <1>13 DEF T

(* A request ends: the only one of its lock.                               *)
LEMMA Dropped ==
    ASSUME NEW k \in Locks, NEW n \in Nat, NEW S, Settled(S, k, n), NEW r \in Of(S, k)
    PROVE  LET T == [S EXCEPT !.flight = @ \ {r}]
           IN /\ T \in PageType /\ r.ctl \in Controls
              /\ \A q \in T.flight : 1 <= q.id /\ q.id <= T.issued
              /\ \A p, q \in T.flight : p.id = q.id => p = q
              /\ IsFiniteSet(T.flight) /\ Cardinality(T.flight) \in Nat
              /\ T.count = Cardinality(T.flight) + 1 + n
              /\ T.busy
              /\ T.lock = S.lock
              /\ AloneIn(T, k) /\ Present(k) => Of(T, k) = {}
              /\ Beside(S, T, k)
<1> DEFINE T == [S EXCEPT !.flight = @ \ {r}]
<1>1. S \in PageType /\ Counted(S, n) /\ r \in S.flight /\ SyncElt(r.ctl) = k
  BY DEF Settled, Sound, Of
<1>2. /\ T \in PageType /\ T.count = S.count /\ (T.busy <=> S.busy)
      /\ T.lock = S.lock /\ T.flight = S.flight \ {r} /\ T.issued = S.issued
      /\ T.stranded = S.stranded
  BY <1>1, DropFields
<1> HIDE DEF T
<1>3. r.ctl \in Controls
  BY <1>1 DEF PageType, Requests
<1>4. /\ \A q \in T.flight : 1 <= q.id /\ q.id <= T.issued
      /\ \A p, q \in T.flight : p.id = q.id => p = q
  BY <1>1, <1>2 DEF Counted
<1>5. /\ IsFiniteSet(S.flight) /\ Cardinality(S.flight) \in Nat
      /\ S.count = Cardinality(S.flight) + n
  BY <1>1, FS_CardinalityType DEF Counted
<1>6. /\ IsFiniteSet(T.flight) /\ Cardinality(T.flight) \in Nat
      /\ Cardinality(T.flight) = Cardinality(S.flight) - 1
  BY <1>1, <1>2, <1>5, FS_RemoveElement, FS_CardinalityType
<1>7. T.count = Cardinality(T.flight) + 1 + n /\ S.count > 0
  BY <1>2, <1>5, <1>6
<1>8. T.busy
  BY <1>1, <1>2, <1>7 DEF Counted
<1>9. AloneIn(T, k) /\ Present(k) => Of(T, k) = {}
  <2> SUFFICES ASSUME AloneIn(T, k), Present(k), NEW q \in Of(T, k) PROVE FALSE
    OBVIOUS
  <2>1. AloneIn(S, k) /\ q \in Of(S, k) /\ q # r
    BY <1>2 DEF OrderlyIn, AloneIn, Of
  <2>2. q.id = r.id
    BY <2>1 DEF Settled
  <2> QED
    BY <1>1, <2>1, <2>2 DEF Counted, Of
<1>10. Beside(S, T, k)
  BY <1>1, <1>2 DEF Beside
<1> QED
  BY <1>2, <1>3, <1>4, <1>6, <1>7, <1>8, <1>9, <1>10 DEF T

(* A nonempty set of numbers has a least one.                              *)
LEMMA Least ==
    ASSUME NEW T, T \subseteq Nat, T # {}
    PROVE  \E j \in T : \A m \in T : j <= m
<1> DEFINE Below == OpToRel(<, Nat)
<1>1. \A m, j \in Nat : m < j => <<m, j>> \in Below
  BY DEF OpToRel
<1>2. IsWellFoundedOn(Below, Nat)
  BY NatLessThanWellFounded
<1> HIDE DEF Below
<1>3. PICK j \in T : \A m \in T : ~ (<<m, j>> \in Below)
  BY <1>2, WFMin
<1>4. \A m \in T : m \in Nat /\ ~(m < j)
  BY <1>1, <1>3
<1>5. \A m \in T : j <= m
  BY <1>3, <1>4
<1> QED
  BY <1>3, <1>5

(* What a step leaves to the others is what its parts leave.               *)
LEMMA BesideTransitive ==
    ASSUME NEW S, NEW T, NEW U, NEW k, Beside(S, T, k), Beside(T, U, k)
    PROVE  Beside(S, U, k)
BY DEF Beside

(* A free lock where nobody waits is in order.                             *)
LEMMA FreeSettles ==
    ASSUME NEW k \in Locks, NEW n \in Nat, NEW S, Ending(S, k, n), NEW L \in LockType,
           L.xhr = 0, ~L.abortable,
           \A i \in 1..Len(L.queue) : Waits(L.queue[i], k),
           k \in Controls \ inBody => L.queue = <<>>,
           k # Shared => Len(L.queue) <= 1,
           OrderlyIn(S, k) => L.queue = <<>>
    PROVE  LET T == [S EXCEPT !.lock = L] IN Settled(T, k, n) /\ Beside(S, T, k)
<1> DEFINE T == [S EXCEPT !.lock = L]
<1>1. S \in PageType /\ Counted(S, n)
  BY DEF Ending, Sound
<1>2. /\ T \in PageType /\ T.count = S.count /\ (T.busy <=> S.busy)
      /\ T.lock = L /\ T.flight = S.flight /\ T.issued = S.issued
      /\ T.stranded = S.stranded
  BY <1>1, LockFields
<1> HIDE DEF T
<1>3. Counted(T, n)
  BY <1>1, <1>2 DEF Counted
<1>4. Sound(T, k, n)
  BY <1>2, <1>3 DEF Sound
<1>5. OrderlyIn(T, k) <=> OrderlyIn(S, k)
  BY <1>2 DEF OrderlyIn
<1>6. AloneIn(T, k) /\ Present(k) => Of(T, k) = {}
  BY <1>2, <1>5 DEF Ending, Of, AloneIn
<1>7. Settled(T, k, n)
  BY <1>2, <1>4, <1>5, <1>6 DEF Settled
<1>8. Beside(S, T, k)
  BY <1>2 DEF Beside
<1> QED
  BY <1>7, <1>8 DEF T

(* endRequestLock leaves the page in order: the next request that can be   *)
(* sent holds the lock, or none waits.                                     *)
LEMMA EndSettles ==
    ASSUME NEW k \in Locks, NEW n \in Nat, NEW S, Ending(S, k, n), NEW refused
    PROVE  /\ Settled(EndRequestLock(S, refused), k, n)
           /\ Beside(S, EndRequestLock(S, refused), k)
           /\ Keeps(S, EndRequestLock(S, refused), k)
<1> DEFINE q    == S.lock.queue
           last == {i \in 1..Len(q) : TurnedAway(q[i], refused) \/ ~Halts(S, q[i], refused)}
           i    == CHOOSE j \in last : \A m \in last : j <= m
           L    == [Idle EXCEPT !.queue = SubSeq(q, i + 1, Len(q))]
           rest == [S EXCEPT !.lock = L]
<1>1. /\ S \in PageType /\ Counted(S, n)
      /\ \A j \in 1..Len(q) : Waits(q[j], k)
      /\ k \in Controls \ inBody => q = <<>>
      /\ k # Shared => Len(q) <= 1
      /\ S.lock.abortable => \E c \in Controls : SyncElt(c) = k /\ strategy[c] = "abort"
  BY DEF Ending, Sound
<1>2. q \in Seq(Controls) /\ Len(q) \in Nat
  BY <1>1 DEF PageType, LockType
<1>3. Idle \in LockType /\ Idle.xhr = 0 /\ Idle.queue = <<>> /\ ~Idle.abortable
  BY DEF Idle, LockType
<1>4. EndRequestLock(S, refused) =
        IF last = {} THEN [S EXCEPT !.lock = Idle]
        ELSE IF TurnedAway(q[i], refused) THEN [rest EXCEPT !.stranded = @ \/ i < Len(q)]
        ELSE Send(rest, q[i])
  BY DEF EndRequestLock
<1>5. CASE last = {}
  <2>1. EndRequestLock(S, refused) = [S EXCEPT !.lock = Idle]
    BY <1>4, <1>5
  <2>2. \A j \in 1..Len(Idle.queue) : Waits(Idle.queue[j], k)
    BY <1>3
  <2>4. Len(Idle.queue) <= 1
    BY <1>3
  <2>3. Keeps(S, EndRequestLock(S, refused), k)
    BY <1>1, <1>3, <2>1, LockKeeps
  <2> QED
    BY <1>3, <2>1, <2>2, <2>3, <2>4, FreeSettles
<1>6. CASE last # {}
  <2>1. i \in last /\ \A m \in last : i <= m
    <3>1. last \subseteq Nat
      OBVIOUS
    <3> HIDE DEF last
    <3> QED
      BY <1>6, <3>1, Least
  <2>2. i \in 1..Len(q) /\ (TurnedAway(q[i], refused) \/ ~Halts(S, q[i], refused))
    BY <2>1
  <2> HIDE DEF i, last
  <2>3. i \in Nat /\ i + 1 \in Int /\ Len(q) \in Int /\ i <= Len(q) /\ 1 <= i
    BY <1>2, <2>2
  <2>4. Waits(q[i], k)
    BY <1>1, <2>2
  <2> DEFINE Q == SubSeq(q, i + 1, Len(q))
  <2>5. /\ Q \in Seq(Controls)
        /\ \A j \in 1..Len(Q) : Waits(Q[j], k)
        /\ i = Len(q) => Q = <<>>
        /\ k # Shared => i = Len(q) /\ Len(Q) <= 1
    <3>1. \A j \in (i + 1)..Len(q) : q[j] \in Controls
      BY <1>2, <2>3
    <3>2. /\ Q \in Seq(Controls)
          /\ Len(Q) = IF i + 1 <= Len(q) THEN Len(q) - (i + 1) + 1 ELSE 0
          /\ \A j \in 1..(Len(q) - (i + 1) + 1) : Q[j] = q[(i + 1) + j - 1]
      BY <2>3, <3>1, SubSeqProperties
    <3> HIDE DEF Q
    <3>3. ASSUME NEW j \in 1..Len(Q) PROVE Waits(Q[j], k)
      <4>1. j \in 1..(Len(q) - (i + 1) + 1) /\ (i + 1) + j - 1 \in 1..Len(q)
        BY <1>2, <2>3, <3>2
      <4> QED
        BY <1>1, <3>2, <4>1
    <3>4. i = Len(q) => Q = <<>>
      BY <2>3, <3>2, EmptySeq
    <3>5. k # Shared => i = Len(q)
      BY <1>1, <2>3
    <3> QED
      BY <3>2, <3>3, <3>4, <3>5
  <2> HIDE DEF Q
  <2>6. L \in LockType /\ L.xhr = 0 /\ L.queue = Q /\ ~L.abortable
    BY <1>3, <2>5 DEF Idle, LockType, Q
  <2> HIDE DEF L
  <2>7. k \in Controls \ inBody => Q = <<>> /\ FALSE
    BY <1>1, <1>2, <2>2
  <2>8. CASE ~TurnedAway(q[i], refused)
    <3>1. EndRequestLock(S, refused) = Send(rest, q[i])
      BY <1>4, <1>6, <2>8
    <3>2. /\ rest \in PageType /\ rest.count = S.count /\ (rest.busy <=> S.busy)
          /\ rest.lock = L /\ rest.flight = S.flight /\ rest.issued = S.issued
          /\ rest.stranded = S.stranded /\ rest.field = S.field /\ rest.sent = S.sent
      BY <1>1, <2>6, LockFields
    <3> HIDE DEF rest
    <3>3. Ending(rest, k, n)
      <4>1. Counted(rest, n)
        BY <1>1, <3>2 DEF Counted
      <4>2. Sound(rest, k, n)
        BY <2>5, <2>6, <2>7, <3>2, <4>1 DEF Sound
      <4>3. Of(rest, k) = Of(S, k) /\ (AloneIn(rest, k) <=> AloneIn(S, k))
        BY <3>2 DEF Of, OrderlyIn, AloneIn
      <4> QED
        BY <4>2, <4>3 DEF Ending
    <3>4. q[i] \in Controls /\ q[i] \in inBody /\ SyncElt(q[i]) = k /\ strategy[q[i]] # "abort"
      BY <2>4, <2>8 DEF Waits, TurnedAway
    <3>5. Settled(Send(rest, q[i]), k, n) /\ Beside(rest, Send(rest, q[i]), k)
      BY <3>3, <3>4, SendSettles
    <3>6. Beside(S, rest, k)
      BY <3>2 DEF Beside
    <3>7. ~Invalid(rest, q[i])
      BY <2>2, <2>8, <3>2 DEF Halts, Invalid, InputText
    <3>8. Keeps(rest, Send(rest, q[i]), k)
      BY <3>3, <3>4, <3>7, SendKeeps
    <3>9. Keeps(S, rest, k)
      BY <3>2, SameKeeps
    <3> QED
      BY <3>1, <3>5, <3>6, <3>8, <3>9, BesideTransitive, KeepsTransitive
  <2>9. CASE TurnedAway(q[i], refused)
    <3> DEFINE b == S.stranded \/ i < Len(q)
               Z == [S EXCEPT !.stranded = b]
               T == [Z EXCEPT !.lock = L]
    <3>1. EndRequestLock(S, refused) = T
      <4>1. EndRequestLock(S, refused) = [rest EXCEPT !.stranded = @ \/ i < Len(q)]
        BY <1>4, <1>6, <2>9
      <4> QED
        BY <1>1, <4>1 DEF PageType
    <3>2. b \in BOOLEAN
      BY <1>1 DEF PageType
    <3> HIDE DEF b
    <3>3. /\ Z \in PageType /\ Z.count = S.count /\ (Z.busy <=> S.busy)
          /\ Z.lock = S.lock /\ Z.flight = S.flight /\ Z.issued = S.issued
          /\ (Z.stranded <=> b) /\ Z.field = S.field /\ Z.sent = S.sent
      BY <1>1, <3>2, StrandFields
    <3> HIDE DEF Z
    <3>4. k # Shared => ~(i < Len(q))
      BY <2>3, <2>5
    <3>5. Counted(Z, n)
      BY <1>1, <3>3 DEF Counted
    <3>6. Sound(Z, k, n)
      BY <1>1, <3>3, <3>5 DEF Sound
    <3>7. OrderlyIn(Z, k) => OrderlyIn(S, k) /\ ~(i < Len(q))
      BY <3>3, <3>4 DEF OrderlyIn, b
    <3>8. Of(Z, k) = Of(S, k)
      BY <3>3 DEF Of
    <3>9. Ending(Z, k, n)
      BY <3>6, <3>7, <3>8 DEF Ending, AloneIn
    <3>10. OrderlyIn(Z, k) => Q = <<>>
      BY <1>2, <2>3, <2>5, <3>7
    <3>11. Settled(T, k, n) /\ Beside(Z, T, k)
      BY <2>5, <2>6, <2>7, <3>9, <3>10, FreeSettles
    <3>12. Beside(S, Z, k)
      BY <3>3 DEF Beside, b
    <3>13. Keeps(Z, T, k)
      BY <2>6, <3>3, LockKeeps
    <3>14. Keeps(S, Z, k)
      BY <3>3, SameKeeps DEF b
    <3> QED
      BY <3>1, <3>11, <3>12, <3>13, <3>14, BesideTransitive, KeepsTransitive
  <2> QED
    BY <2>8, <2>9
<1> QED
  BY <1>5, <1>6

(* A request that has ended leaves its lock to be ended, whether it took   *)
(* its indicator with it or not.                                           *)
LEMMA DropEnds ==
    ASSUME NEW k \in Locks, NEW n \in Nat, NEW S, Settled(S, k, n), NEW r \in Of(S, k)
    PROVE  LET T == [S EXCEPT !.flight = @ \ {r}]
               E == AfterRequest(RemoveRequestIndicators(T), r.ctl)
               A == AfterRequest(T, r.ctl)
           IN /\ Ending(E, k, n) /\ Beside(S, E, k) /\ E.lock = S.lock
              /\ Ending(A, k, n + 1) /\ Beside(S, A, k)
              /\ Ending(T, k, n + 1) /\ Beside(S, T, k)
<1> DEFINE T == [S EXCEPT !.flight = @ \ {r}]
           R == RemoveRequestIndicators(T)
           E == AfterRequest(R, r.ctl)
           A == AfterRequest(T, r.ctl)
<1>1. /\ T \in PageType /\ r.ctl \in Controls
      /\ \A q \in T.flight : 1 <= q.id /\ q.id <= T.issued
      /\ \A p, q \in T.flight : p.id = q.id => p = q
      /\ IsFiniteSet(T.flight) /\ Cardinality(T.flight) \in Nat
      /\ T.count = Cardinality(T.flight) + 1 + n
      /\ T.busy
      /\ T.lock = S.lock
      /\ AloneIn(T, k) /\ Present(k) => Of(T, k) = {}
      /\ Beside(S, T, k)
  BY Dropped
<1>2. /\ \A i \in 1..Len(T.lock.queue) : Waits(T.lock.queue[i], k)
      /\ k \in Controls \ inBody => T.lock.queue = <<>>
      /\ k # Shared => Len(T.lock.queue) <= 1
      /\ T.lock.abortable => \E c \in Controls : SyncElt(c) = k /\ strategy[c] = "abort"
  BY <1>1 DEF Settled, Sound
<1> HIDE DEF T
<1>3. T.count # 0 /\ T.count = Cardinality(T.flight) + (n + 1) /\ n + 1 \in Nat
  BY <1>1
<1>4. ASSUME NEW U \in PageType, NEW m \in Nat, U.lock = T.lock, U.flight = T.flight,
             U.issued = T.issued, U.stranded = T.stranded,
             U.count = Cardinality(T.flight) + m, U.busy <=> U.count > 0
      PROVE  Ending(U, k, m) /\ Beside(S, U, k)
  <2>1. Counted(U, m)
    BY <1>1, <1>4 DEF Counted
  <2>2. Sound(U, k, m)
    BY <1>2, <1>4, <2>1 DEF Sound
  <2>3. Of(U, k) = Of(T, k) /\ (AloneIn(U, k) <=> AloneIn(T, k))
    BY <1>4 DEF Of, OrderlyIn, AloneIn
  <2>4. Ending(U, k, m)
    BY <1>1, <2>2, <2>3 DEF Ending
  <2>5. Beside(S, U, k)
    BY <1>1, <1>4 DEF Beside
  <2> QED
    BY <2>4, <2>5
<1>5. /\ R \in PageType /\ R.count = T.count - 1 /\ (R.busy <=> R.count # 0)
      /\ R.lock = T.lock /\ R.flight = T.flight /\ R.issued = T.issued
      /\ R.stranded = T.stranded
  BY <1>1, <1>3, RemoveFields
<1> HIDE DEF R
<1>6. /\ E \in PageType /\ E.count = R.count /\ (E.busy <=> R.busy)
      /\ E.lock = R.lock /\ E.flight = R.flight /\ E.issued = R.issued
      /\ E.stranded = R.stranded
  BY <1>1, <1>5, AfterFields
<1>7. /\ A \in PageType /\ A.count = T.count /\ (A.busy <=> T.busy)
      /\ A.lock = T.lock /\ A.flight = T.flight /\ A.issued = T.issued
      /\ A.stranded = T.stranded
  BY <1>1, AfterFields
<1> HIDE DEF E, A
<1>8. E.count = Cardinality(T.flight) + n /\ E.count \in Nat
  BY <1>1, <1>5, <1>6 DEF PageType
<1>9. E.busy <=> E.count > 0
  <2>1. E.count # 0 <=> E.count > 0
    BY <1>8
  <2>2. E.busy <=> E.count # 0
    BY <1>5, <1>6
  <2> QED
    BY <2>1, <2>2
<1>10. Ending(E, k, n) /\ Beside(S, E, k) /\ E.lock = S.lock
  BY <1>1, <1>4, <1>5, <1>6, <1>8, <1>9
<1>11. T.count > 0 /\ A.count > 0
  BY <1>1, <1>7
<1>12. Ending(A, k, n + 1) /\ Beside(S, A, k)
  BY <1>1, <1>3, <1>4, <1>7, <1>11
<1>13. Ending(T, k, n + 1) /\ Beside(S, T, k)
  BY <1>1, <1>3, <1>4, <1>11
<1> QED
  BY <1>10, <1>12, <1>13 DEF T, R, E, A

(* A composer whose request ends has an empty text area and no request in  *)
(* flight, unless the answer throws.                                       *)
LEMMA DropKeeps ==
    ASSUME NEW k \in Locks, NEW n \in Nat, NEW S, Settled(S, k, n), NEW r \in Of(S, k)
    PROVE  LET T == [S EXCEPT !.flight = @ \ {r}]
               E == AfterRequest(RemoveRequestIndicators(T), r.ctl)
               A == AfterRequest(T, r.ctl)
           IN /\ Keeps(S, E, k) /\ E.sent = S.sent
              /\ Keeps(S, A, k) /\ A.sent = S.sent
              /\ r.ctl \in Composers => E.field[r.ctl] = 0 /\ A.field[r.ctl] = 0
              /\ r.ctl \in Failing => Keeps(S, T, k)
<1> DEFINE T == [S EXCEPT !.flight = @ \ {r}]
           R == RemoveRequestIndicators(T)
           E == AfterRequest(R, r.ctl)
           A == AfterRequest(T, r.ctl)
           emptied == IF r.ctl \in Composers THEN [S.field EXCEPT ![r.ctl] = 0] ELSE S.field
<1>1. S \in PageType /\ r \in S.flight
  BY DEF Settled, Sound, Of
<1>2. /\ T \in PageType /\ r.ctl \in Controls /\ T.count # 0
  <2>1. /\ T \in PageType /\ r.ctl \in Controls
        /\ \A q \in T.flight : 1 <= q.id /\ q.id <= T.issued
        /\ \A p, q \in T.flight : p.id = q.id => p = q
        /\ IsFiniteSet(T.flight) /\ Cardinality(T.flight) \in Nat
        /\ T.count = Cardinality(T.flight) + 1 + n
        /\ T.busy
        /\ T.lock = S.lock
        /\ AloneIn(T, k) /\ Present(k) => Of(T, k) = {}
        /\ Beside(S, T, k)
    BY Dropped
  <2> HIDE DEF T
  <2> QED
    BY <2>1
<1>3. /\ T.flight = S.flight \ {r} /\ T.stranded = S.stranded
      /\ T.field = S.field /\ T.sent = S.sent
  BY <1>1, DropFields
<1> HIDE DEF T
<1>4. /\ R \in PageType /\ R.flight = T.flight /\ R.stranded = T.stranded
      /\ R.field = T.field /\ R.sent = T.sent
  BY <1>2, RemoveFields
<1> HIDE DEF R
<1>5. E.flight = R.flight /\ E.stranded = R.stranded /\ E.sent = R.sent /\ E.field = emptied
  BY <1>2, <1>3, <1>4, AfterFields
<1>6. A.flight = T.flight /\ A.stranded = T.stranded /\ A.sent = T.sent /\ A.field = emptied
  BY <1>2, <1>3, AfterFields
<1> HIDE DEF E, A
<1>7. /\ r.ctl \in Composers => emptied[r.ctl] = 0
      /\ \A c \in Composers : c # r.ctl => emptied[c] = S.field[c]
  BY <1>1 DEF PageType
<1> HIDE DEF emptied
<1>8. ASSUME NEW U, U.flight = S.flight \ {r}, U.stranded = S.stranded, U.sent = S.sent,
             NEW c \in Composers, Fresh(S), AloneIn(U, SyncElt(c)), c \notin Failing,
             c = r.ctl => U.field[c] = 0,
             c # r.ctl => U.field[c] = S.field[c]
      PROVE  FreshFor(U, c)
  <2>1. FreshFor(S, c) /\ typed \in Nat
    BY <1>8 DEF OrderlyIn, AloneIn, Fresh
  <2>2. CASE c # r.ctl
    <3>1. Mine(U, c) = Mine(S, c)
      BY <1>8, <2>2 DEF Mine
    <3> QED
      BY <1>8, <2>1, <2>2, <3>1 DEF FreshFor
  <2>3. CASE c = r.ctl
    <3>1. Mine(U, c) = {}
      BY <1>1, <1>8, <2>1, <2>3 DEF Mine, FreshFor
    <3> QED
      BY <1>8, <2>1, <2>3, <3>1 DEF FreshFor
  <2> QED
    BY <2>2, <2>3
<1>9. ASSUME NEW U, U.flight = S.flight \ {r}, U.stranded = S.stranded, U.sent = S.sent,
             U.field = emptied
      PROVE  Keeps(S, U, k)
  <2>1. ASSUME Fresh(S) PROVE Fresh(U)
    <3>1. ASSUME NEW c \in Composers \ Failing, AloneIn(U, SyncElt(c)) PROVE FreshFor(U, c)
      BY <1>7, <1>8, <1>9, <2>1, <3>1
    <3> QED
      BY <2>1, <3>1 DEF Fresh
  <2>2. ASSUME Textless(S, k) PROVE Textless(U, k)
    BY <1>7, <1>9, <2>2 DEF Textless
  <2> QED
    BY <1>9, <2>1, <2>2 DEF Keeps
<1>10. Keeps(S, E, k) /\ Keeps(S, A, k)
  BY <1>3, <1>4, <1>5, <1>6, <1>9
<1>11. ASSUME r.ctl \in Failing PROVE Keeps(S, T, k)
  <2>1. ASSUME Fresh(S) PROVE Fresh(T)
    <3>1. ASSUME NEW c \in Composers \ Failing, AloneIn(T, SyncElt(c)) PROVE FreshFor(T, c)
      BY <1>3, <1>8, <1>11, <2>1, <3>1
    <3> QED
      BY <2>1, <3>1 DEF Fresh
  <2> QED
    BY <1>3, <2>1 DEF Keeps, Textless
<1> QED
  BY <1>3, <1>4, <1>5, <1>6, <1>7, <1>10, <1>11 DEF T, R, E, A

(* Where nothing waits, the end of the lock leaves it free.                *)
LEMMA EndsFree ==
    ASSUME NEW S \in PageType, S.lock.queue = <<>>, NEW refused
    PROVE  EndRequestLock(S, refused).lock = Idle /\ EndRequestLock(S, refused).sent = S.sent
<1>1. {i \in 1..Len(S.lock.queue) : TurnedAway(S.lock.queue[i], refused)
                                      \/ ~Halts(S, S.lock.queue[i], refused)} = {}
  BY EmptySeq
<1>2. EndRequestLock(S, refused) = [S EXCEPT !.lock = Idle]
  BY <1>1 DEF EndRequestLock
<1>3. Idle \in LockType
  BY DEF Idle, LockType
<1> QED
  BY <1>2, <1>3, LockFields

(* htmx:abort ends the request in flight.  One that may be aborted has     *)
(* nobody behind it, so the lock is free then.                             *)
LEMMA AbortSettles ==
    ASSUME NEW k \in Locks, NEW n \in Nat, NEW S, Settled(S, k, n), NEW refused
    PROVE  /\ Settled(Abort(S, refused), k, n) /\ Beside(S, Abort(S, refused), k)
           /\ Keeps(S, Abort(S, refused), k)
           /\ AloneIn(Abort(S, refused), k) /\ S.lock.abortable
                => Abort(S, refused).lock.xhr = 0
<1>1. CASE S.lock.xhr = 0
  <2>1. Abort(S, refused) = S
    BY <1>1 DEF Abort
  <2>2. Beside(S, S, k) /\ Keeps(S, S, k)
    BY DEF Beside, Keeps
  <2> QED
    BY <1>1, <2>1, <2>2
<1>2. CASE S.lock.xhr # 0
  <2> DEFINE r == CHOOSE q \in S.flight : q.id = S.lock.xhr
             E == Ended(S, r)
  <2>1. r \in Of(S, k)
    <3>1. PICK q \in Of(S, k) : q.id = S.lock.xhr
      BY <1>2 DEF Settled
    <3>2. q \in S.flight /\ \A p \in S.flight : p.id = q.id => p = q
      BY DEF Of, Settled, Sound, Counted
    <3>3. r \in S.flight /\ r.id = S.lock.xhr
      BY <3>1, <3>2
    <3> QED
      BY <3>1, <3>2, <3>3
  <2>2. Abort(S, refused) = EndRequestLock(E, refused)
    BY <1>2 DEF Abort
  <2> HIDE DEF r
  <2>3. E = AfterRequest(RemoveRequestIndicators([S EXCEPT !.flight = @ \ {r}]), r.ctl)
    BY DEF Ended
  <2> HIDE DEF E
  <2>4. Ending(E, k, n) /\ Beside(S, E, k) /\ Keeps(S, E, k) /\ E.lock = S.lock
    BY <2>1, <2>3, DropEnds, DropKeeps
  <2> DEFINE Z == EndRequestLock(E, refused)
  <2>5. Settled(Z, k, n) /\ Beside(E, Z, k) /\ Keeps(E, Z, k)
    BY <2>4, EndSettles
  <2>6. Beside(S, Z, k) /\ Keeps(S, Z, k)
    BY <2>4, <2>5, BesideTransitive, KeepsTransitive
  <2>7. ASSUME AloneIn(Z, k), S.lock.abortable PROVE Z.lock.xhr = 0
    <3>1. OrderlyIn(S, k)
      <4>1. ~NobodyAborts
        BY <2>7 DEF Settled, Sound, NobodyAborts
      <4> QED
        BY <2>6, <2>7, <4>1 DEF OrderlyIn, AloneIn, Beside
    <3>2. E.lock.queue = <<>>
      BY <2>4, <2>7, <3>1 DEF Settled
    <3>3. E \in PageType
      BY <2>4 DEF Ending, Sound
    <3>4. Z.lock = Idle
      BY <3>2, <3>3, EndsFree
    <3> QED
      BY <3>4 DEF Idle
  <2> HIDE DEF Z
  <2> QED
    BY <2>2, <2>5, <2>6, <2>7 DEF Z
<1> QED
  BY <1>1, <1>2

(* The lock is taken when it names no request in flight.                   *)
LEMMA AcquireSettles ==
    ASSUME NEW k \in Locks, NEW n \in Nat, NEW S, Settled(S, k, n), NEW refused,
           AloneIn(S, k) => S.lock.xhr = 0,
           NEW c \in Controls, c \in inBody, SyncElt(c) = k
    PROVE  /\ Settled(Acquire(S, c, refused), k, n) /\ Beside(S, Acquire(S, c, refused), k)
           /\ Keeps(S, Acquire(S, c, refused), k)
<1>1. Ending(S, k, n)
  <2>1. ASSUME AloneIn(S, k), Present(k), NEW r \in Of(S, k) PROVE FALSE
    <3>1. r.id = 0
      BY <2>1 DEF Settled
    <3>2. 1 <= r.id
      BY DEF Settled, Sound, Counted, Of
    <3> QED
      BY <3>1, <3>2
  <2> QED
    BY <2>1 DEF Settled, Ending
<1>2. OrderlyIn(S, k) => S.lock.queue = <<>>
  BY DEF Settled, AloneIn
<1>3. Settled(Send(S, c), k, n) /\ Beside(S, Send(S, c), k)
  BY <1>1, <1>2, SendSettles
<1>4. /\ Settled(EndRequestLock(S, refused), k, n) /\ Beside(S, EndRequestLock(S, refused), k)
      /\ Keeps(S, EndRequestLock(S, refused), k)
  BY <1>1, EndSettles
<1>5. ~Halts(S, c, refused) => Keeps(S, Send(S, c), k)
  BY <1>1, SendKeeps DEF Halts
<1> QED
  BY <1>3, <1>4, <1>5 DEF Acquire

(* Only behind a request that may not be aborted does another wait.        *)
LEMMA EnqueueSettles ==
    ASSUME NEW k \in Locks, NEW n \in Nat, NEW S, Settled(S, k, n),
           S.lock.xhr # 0, ~S.lock.abortable,
           NEW c \in Controls, c \in inBody, SyncElt(c) = k, strategy[c] # "abort"
    PROVE  /\ Settled(Enqueue(S, c), k, n) /\ Beside(S, Enqueue(S, c), k)
           /\ Keeps(S, Enqueue(S, c), k) /\ Enqueue(S, c).sent = S.sent
<1>1. /\ S \in PageType /\ Counted(S, n)
      /\ \A i \in 1..Len(S.lock.queue) : Waits(S.lock.queue[i], k)
  BY DEF Settled, Sound
<1>2. Waits(c, k) /\ k \notin Controls \ inBody
  BY ControlsAssumption DEF Waits, SyncElt
<1>3. ASSUME NEW Q \in Seq(Controls), \A i \in 1..Len(Q) : Waits(Q[i], k),
             k # Shared => Len(Q) <= 1
      PROVE  LET T == [S EXCEPT !.lock.queue = Q]
             IN Settled(T, k, n) /\ Beside(S, T, k) /\ Keeps(S, T, k) /\ T.sent = S.sent
  <2> DEFINE L == [S.lock EXCEPT !.queue = Q]
             T == [S EXCEPT !.lock = L]
  <2>1. L \in LockType /\ L.xhr = S.lock.xhr /\ L.queue = Q
    BY <1>1 DEF PageType, LockType
  <2>2. L.abortable <=> S.lock.abortable
    BY <1>1 DEF PageType, LockType
  <2>3. [S EXCEPT !.lock.queue = Q] = T
    BY <1>1 DEF PageType
  <2> HIDE DEF L
  <2>4. /\ T \in PageType /\ T.count = S.count /\ (T.busy <=> S.busy)
        /\ T.lock = L /\ T.flight = S.flight /\ T.issued = S.issued
        /\ T.stranded = S.stranded /\ T.sent = S.sent
    BY <1>1, <2>1, LockFields
  <2>12. Keeps(S, T, k)
    BY <1>1, <2>1, LockKeeps
  <2> HIDE DEF T
  <2>5. Counted(T, n)
    BY <1>1, <2>4 DEF Counted
  <2>6. Sound(T, k, n)
    <3>1. ~T.lock.abortable
      BY <2>2, <2>4
    <3> QED
      BY <1>2, <1>3, <2>1, <2>4, <2>5, <3>1 DEF Sound
  <2>7. Of(T, k) = Of(S, k) /\ (OrderlyIn(T, k) <=> OrderlyIn(S, k))
    BY <2>4 DEF Of, OrderlyIn
  <2>8. ~T.lock.abortable
    BY <2>2, <2>4
  <2>9. T.lock.xhr = S.lock.xhr
    BY <2>1, <2>4
  <2>10. Settled(T, k, n)
    BY <1>2, <2>6, <2>7, <2>8, <2>9 DEF Settled, AloneIn
  <2>11. Beside(S, T, k)
    BY <2>4 DEF Beside
  <2> QED
    BY <2>3, <2>4, <2>10, <2>11, <2>12
<1> DEFINE q == S.lock.queue
<1>4. q \in Seq(Controls) /\ Len(q) \in Nat
  BY <1>1 DEF PageType, LockType
<1>5. <<c>> \in Seq(Controls) /\ Len(<<c>>) <= 1 /\ \A i \in 1..Len(<<c>>) : Waits(<<c>>[i], k)
  BY <1>2
<1>6. Append(q, c) \in Seq(Controls) /\ \A i \in 1..Len(Append(q, c)) : Waits(Append(q, c)[i], k)
  BY <1>1, <1>2, <1>4
<1>7. \/ k = Shared /\ Enqueue(S, c) = [S EXCEPT !.lock.queue = Append(q, c)]
      \/ Enqueue(S, c) = [S EXCEPT !.lock.queue = q]
      \/ Enqueue(S, c) = [S EXCEPT !.lock.queue = <<c>>]
  <2>1. CASE strategy[c] = "queueAll"
    <3>1. k = Shared
      BY <2>1 DEF SyncElt
    <3> QED
      BY <1>1, <2>1, <3>1 DEF Enqueue, PageType, LockType
  <2>2. CASE strategy[c] = "queueFirst"
    BY <1>1, <2>2 DEF Enqueue, PageType, LockType
  <2>3. CASE strategy[c] \notin {"queueAll", "queueFirst"}
    BY <2>3 DEF Enqueue
  <2> QED
    BY <2>1, <2>2, <2>3
<1>11. k # Shared => Len(q) <= 1
  BY DEF Settled, Sound
<1> HIDE DEF q
<1>8. CASE k = Shared /\ Enqueue(S, c) = [S EXCEPT !.lock.queue = Append(q, c)]
  BY <1>3, <1>6, <1>8
<1>9. CASE Enqueue(S, c) = [S EXCEPT !.lock.queue = q]
  BY <1>1, <1>3, <1>4, <1>9, <1>11 DEF q
<1>10. CASE Enqueue(S, c) = [S EXCEPT !.lock.queue = <<c>>]
  BY <1>3, <1>5, <1>10
<1> QED
  BY <1>7, <1>8, <1>9, <1>10

(* However a control is synchronised, the event it handles leaves the page *)
(* in order.                                                               *)
LEMMA IssueSettles ==
    ASSUME NEW k \in Locks, NEW n \in Nat, NEW S, Settled(S, k, n), NEW refused,
           NEW c \in Controls, c \in inBody, SyncElt(c) = k
    PROVE  /\ Settled(Issue(S, c, refused), k, n) /\ Beside(S, Issue(S, c, refused), k)
           /\ Keeps(S, Issue(S, c, refused), k)
<1> DEFINE R == IF strategy[c] = "replace" THEN Abort(S, refused) ELSE S
           A == Abort(R, refused)
           I == Issue(S, c, refused)
<1>1. Beside(S, S, k) /\ Keeps(S, S, k)
  BY DEF Beside, Keeps
<1>2. Settled(R, k, n) /\ Beside(S, R, k) /\ Keeps(S, R, k)
  BY <1>1, AbortSettles
<1>3. /\ TurnedAway(c, refused) => I = S
      /\ strategy[c] = "drop" /\ S.lock.xhr # 0 /\ ~S.lock.abortable => I = S
      /\ strategy[c] = "abort" /\ S.lock.xhr # 0 => I = S
      /\ ~TurnedAway(c, refused)
         /\ ~(strategy[c] = "drop" /\ S.lock.xhr # 0 /\ ~S.lock.abortable)
         /\ ~(strategy[c] = "abort" /\ S.lock.xhr # 0)
         => I = IF R.lock.xhr = 0 THEN Acquire(R, c, refused)
                ELSE IF R.lock.abortable THEN Acquire(A, c, refused)
                ELSE Enqueue(R, c)
  BY Zenon DEF Issue
<1>4. strategy[c] = "abort" => R = S
  OBVIOUS
<1> HIDE DEF R, A
<1>5. CASE I = S
  BY <1>1, <1>5
<1>6. CASE I # S
  <2>1. /\ ~(strategy[c] = "abort" /\ S.lock.xhr # 0)
        /\ I = IF R.lock.xhr = 0 THEN Acquire(R, c, refused)
               ELSE IF R.lock.abortable THEN Acquire(A, c, refused)
               ELSE Enqueue(R, c)
    BY <1>3, <1>6
  <2> HIDE DEF I
  <2>2. CASE R.lock.xhr = 0
    <3>1. I = Acquire(R, c, refused)
      BY <2>1, <2>2
    <3>2. Settled(I, k, n) /\ Beside(R, I, k) /\ Keeps(R, I, k)
      BY <1>2, <2>2, <3>1, AcquireSettles
    <3> QED
      BY <1>2, <3>2, BesideTransitive, KeepsTransitive DEF I
  <2>3. CASE R.lock.xhr # 0 /\ R.lock.abortable
    <3>1. I = Acquire(A, c, refused)
      BY <2>1, <2>3
    <3>2. /\ Settled(A, k, n) /\ Beside(R, A, k) /\ Keeps(R, A, k)
          /\ AloneIn(A, k) => A.lock.xhr = 0
      BY <1>2, <2>3, AbortSettles DEF A
    <3>3. Settled(I, k, n) /\ Beside(A, I, k) /\ Keeps(A, I, k)
      BY <3>1, <3>2, AcquireSettles
    <3> QED
      BY <1>2, <3>2, <3>3, BesideTransitive, KeepsTransitive DEF I
  <2>4. CASE R.lock.xhr # 0 /\ ~R.lock.abortable
    <3>1. I = Enqueue(R, c) /\ strategy[c] # "abort"
      BY <1>4, <2>1, <2>4
    <3>2. Settled(I, k, n) /\ Beside(R, I, k) /\ Keeps(R, I, k)
      BY <1>2, <2>4, <3>1, EnqueueSettles
    <3> QED
      BY <1>2, <3>2, BesideTransitive, KeepsTransitive DEF I
  <2> QED
    BY <2>2, <2>3, <2>4
<1> QED
  BY <1>5, <1>6

-----------------------------------------------------------------------------
(* The whole page.                                                         *)

(* A step on lock k leaves the other locks in order.                       *)
LEMMA OthersSettle ==
    ASSUME NEW k \in Locks, NEW j \in Locks, j # k, NEW m \in Nat, NEW n \in Nat,
           NEW S, Settled(S, j, m), NEW T, Settled(T, k, n),
           \A r \in Requests : SyncElt(r.ctl) # k => (r \in S.flight <=> r \in T.flight),
           S.stranded => T.stranded
    PROVE  LET U == [T EXCEPT !.lock = S.lock]
           IN U \in PageType /\ Settled(U, j, n)
<1> DEFINE U == [T EXCEPT !.lock = S.lock]
<1>1. /\ S \in PageType /\ T \in PageType /\ Counted(T, n) /\ S.lock \in LockType
      /\ S.flight \subseteq Requests /\ T.flight \subseteq Requests
  BY DEF Settled, Sound, PageType
<1>2. /\ U \in PageType /\ U.count = T.count /\ (U.busy <=> T.busy)
      /\ U.lock = S.lock /\ U.flight = T.flight /\ U.issued = T.issued
      /\ U.stranded = T.stranded
  BY <1>1, LockFields
<1> HIDE DEF U
<1>3. Counted(U, n)
  BY <1>1, <1>2 DEF Counted
<1>4. Sound(U, j, n)
  BY <1>2, <1>3 DEF Sound, Settled
<1>5. Of(U, j) = Of(S, j)
  BY <1>1, <1>2 DEF Of
<1>6. OrderlyIn(U, j) => OrderlyIn(S, j)
  BY <1>2 DEF OrderlyIn
<1>7. U.lock.xhr # 0 => \E r \in Of(U, j) : r.id = U.lock.xhr
  BY <1>2, <1>5 DEF Settled
<1>8. j \in Controls \ inBody => U.lock.xhr = 0
  BY <1>2 DEF Settled
<1>9. AloneIn(U, j) /\ Present(j) => \A r \in Of(U, j) : r.id = U.lock.xhr
  BY <1>2, <1>5, <1>6 DEF Settled, AloneIn
<1>10. OrderlyIn(U, j) /\ (U.lock.xhr = 0 \/ U.lock.abortable) => U.lock.queue = <<>>
  BY <1>2, <1>6 DEF Settled
<1> QED
  BY <1>2, <1>4, <1>7, <1>8, <1>9, <1>10 DEF Settled, U

(* A page is as settled in the next state, when the controls are the same. *)
LEMMA StaysSettled ==
    ASSUME NEW k, NEW n, NEW S, Settled(S, k, n), UNCHANGED <<strategy, inBody>>
    PROVE  Settled(S, k, n)'
<1>1. Counted(S, n)' <=> Counted(S, n)
  BY DEF Counted
<1>2. \A c : SyncElt(c)' = SyncElt(c)
  BY DEF SyncElt
<1>3. \A c : Waits(c, k)' <=> Waits(c, k)
  BY <1>2 DEF Waits
<1>4. Sound(S, k, n)'
  <2>1. \A c \in Controls : (SyncElt(c) = k /\ strategy[c] = "abort")'
                              <=> SyncElt(c) = k /\ strategy[c] = "abort"
    BY <1>2
  <2> QED
    BY <1>1, <1>3, <2>1 DEF Sound, Settled
<1>5. Of(S, k)' = Of(S, k)
  BY <1>2 DEF Of
<1>6. /\ OrderlyIn(S, k)' <=> OrderlyIn(S, k)
      /\ AloneIn(S, k)' <=> AloneIn(S, k)
      /\ Present(k)' <=> Present(k)
  BY DEF OrderlyIn, AloneIn, NobodyAborts, Present
<1> QED
  BY <1>4, <1>5, <1>6 DEF Settled

AllSettled == \A k \in Locks : Settled(Page(k), k, stuck)

Inv == TypeOK /\ AllSettled

LEMMA PageIsTyped ==
    ASSUME TypeOK, NEW k \in Locks
    PROVE  /\ Page(k) \in PageType /\ Page(k).lock = lock[k] /\ Page(k).flight = flight
           /\ Page(k).issued = issued /\ Page(k).count = count /\ (Page(k).busy <=> busy)
           /\ Page(k).field = field /\ Page(k).sent = sent
           /\ (Page(k).stranded <=> stranded)
<1>1. /\ lock[k] \in LockType /\ flight \in SUBSET Requests /\ issued \in Nat /\ count \in Nat
      /\ field \in [Composers -> 0..MaxTexts] /\ sent \in SUBSET (1..MaxTexts)
  BY DEF TypeOK, LockType
<1>2. busy \in BOOLEAN /\ stranded \in BOOLEAN
  BY DEF TypeOK
<1>3. Page(k) \in PageType
  BY <1>1, <1>2 DEF Page, PageType
<1>4. /\ Page(k).lock = lock[k] /\ Page(k).flight = flight
      /\ Page(k).issued = issued /\ Page(k).count = count
      /\ Page(k).field = field /\ Page(k).sent = sent
  BY DEF Page
<1>5. (Page(k).busy <=> busy) /\ (Page(k).stranded <=> stranded)
  BY DEF Page
<1> QED
  BY <1>3, <1>4, <1>5

(* What a step on one lock makes of the page is in order for all of them.  *)
LEMMA BecomesSettled ==
    ASSUME Inv, NEW k \in Locks, NEW n \in Nat, NEW T, Settled(T, k, n),
           Beside(Page(k), T, k), Becomes(T, k), UNCHANGED <<strategy, inBody>>, stuck' = n
    PROVE  /\ AllSettled'
           /\ lock' \in [Locks -> LockType] /\ flight' \subseteq Requests
           /\ issued' \in Nat /\ count' \in Nat /\ busy' \in BOOLEAN /\ stranded' \in BOOLEAN
           /\ field' \in [Composers -> 0..MaxTexts] /\ sent' \subseteq 1..MaxTexts
<1>1. TypeOK /\ AllSettled /\ stuck \in Nat /\ lock \in [Locks -> LockType]
  BY DEF Inv, TypeOK, LockType
<1>2. /\ lock' = [lock EXCEPT ![k] = T.lock]
      /\ flight' = T.flight /\ issued' = T.issued
      /\ count' = T.count /\ busy' = T.busy
      /\ field' = T.field /\ sent' = T.sent /\ stranded' = T.stranded
  BY DEF Becomes
<1>3. T \in PageType
  BY DEF Settled, Sound
<1>4. T.lock \in LockType /\ lock'[k] = T.lock /\ \A j \in Locks \ {k} : lock'[j] = lock[j]
  BY <1>1, <1>2, <1>3 DEF PageType
<1>5. Page(k)' = T
  BY <1>2, <1>3, <1>4 DEF Page, PageType
<1>6. ASSUME NEW j \in Locks, j # k PROVE Settled(Page(j), j, stuck)'
  <2>1. PICK S : S = Page(j)
    OBVIOUS
  <2>2. Settled(S, j, stuck) /\ S.lock = lock[j] /\ S.flight = flight /\ (S.stranded <=> stranded)
    BY <1>1, <2>1, PageIsTyped DEF AllSettled
  <2>3. \A r \in Requests : SyncElt(r.ctl) # k => (r \in S.flight <=> r \in T.flight)
    BY <1>1, <2>2, PageIsTyped DEF Beside
  <2>4. S.stranded => T.stranded
    BY <1>1, <2>2, PageIsTyped DEF Beside
  <2>5. PICK U : U = [T EXCEPT !.lock = S.lock]
    OBVIOUS
  <2>6. U \in PageType /\ Settled(U, j, n)
    BY <1>1, <1>6, <2>2, <2>3, <2>4, <2>5, OthersSettle
  <2>7. Page(j)' = U
    BY <1>2, <1>3, <1>4, <1>6, <2>2, <2>5 DEF Page, PageType
  <2>8. Settled(U, j, n)'
    BY <2>6, StaysSettled
  <2> QED
    BY <2>7, <2>8
<1>7. Settled(Page(k), k, stuck)'
  <2>1. Settled(T, k, n)'
    BY StaysSettled
  <2> QED
    BY <1>5, <2>1
<1>8. AllSettled'
  BY <1>6, <1>7 DEF AllSettled, Locks
<1>9. lock' \in [Locks -> LockType]
  BY <1>1, <1>2, <1>4
<1>10. /\ flight' \subseteq Requests /\ issued' \in Nat /\ count' \in Nat
       /\ field' \in [Composers -> 0..MaxTexts] /\ sent' \subseteq 1..MaxTexts
  BY <1>2, <1>3 DEF PageType
<1>11. busy' \in BOOLEAN /\ stranded' \in BOOLEAN
  BY <1>2, <1>3 DEF PageType
<1> QED
  BY <1>8, <1>9, <1>10, <1>11

LEMMA SyncEltIsLock ==
    ASSUME NEW c \in Controls
    PROVE  SyncElt(c) \in Locks
BY DEF SyncElt, Locks

-----------------------------------------------------------------------------
(* One lemma for each action.                                              *)

LEMMA InitIsSettled == Init => Inv
<1> SUFFICES ASSUME Init PROVE Inv
  OBVIOUS
<1>1. Idle \in LockType /\ Idle.xhr = 0 /\ Idle.queue = <<>> /\ ~Idle.abortable
  BY DEF Idle, LockType
<1>2. 0 \in 0..MaxTexts /\ 0 \in 0..MaxFires
  BY BoundsAssumption
<1>3. TypeOK
  <2>1. strategy \in [Controls -> Strategies] /\ inBody \subseteq Controls
    BY MixesAssumption DEF Init
  <2>2. /\ field \in [Composers -> 0..MaxTexts] /\ typed \in 0..MaxTexts
        /\ fired \in 0..MaxFires /\ issued \in Nat /\ count \in Nat /\ stuck \in Nat
    BY <1>2 DEF Init
  <2>3. lock \in [Locks -> LockType]
    BY <1>1 DEF Init
  <2>4. /\ flight \subseteq Requests /\ posted \in [Composers -> Seq(1..MaxTexts)]
        /\ sent \subseteq 1..MaxTexts /\ calm \subseteq 1..MaxTexts
    BY DEF Init
  <2>5. busy \in BOOLEAN /\ stranded \in BOOLEAN
    BY DEF Init
  <2> QED
    BY <2>1, <2>2, <2>3, <2>4, <2>5 DEF TypeOK, LockType
<1>4. ASSUME NEW k \in Locks PROVE Settled(Page(k), k, stuck)
  <2> DEFINE S == Page(k)
  <2>1. /\ S \in PageType /\ S.lock = lock[k] /\ S.flight = flight
        /\ S.issued = issued /\ S.count = count /\ (S.busy <=> busy)
        /\ (S.stranded <=> stranded)
    BY <1>3, PageIsTyped
  <2>2. lock[k] = Idle /\ flight = {} /\ count = 0 /\ stuck = 0
    BY DEF Init
  <2>3. ~busy
    BY DEF Init
  <2> HIDE DEF S
  <2>4. Counted(S, stuck)
    <3>1. S.count = Cardinality(S.flight) + stuck /\ IsFiniteSet(S.flight) /\ ~(S.count > 0)
      BY <2>1, <2>2, FS_EmptySet
    <3> QED
      BY <2>1, <2>2, <2>3, <3>1 DEF Counted
  <2>5. S.lock.queue = <<>> /\ S.lock.xhr = 0 /\ ~S.lock.abortable
    BY <1>1, <2>1, <2>2
  <2>6. Sound(S, k, stuck)
    BY <2>1, <2>4, <2>5 DEF Sound
  <2>7. Of(S, k) = {}
    BY <2>1, <2>2 DEF Of
  <2> QED
    BY <2>5, <2>6, <2>7 DEF Settled, S
<1> QED
  BY <1>3, <1>4 DEF Inv, AllSettled

LEMMA TypeStep ==
    ASSUME Inv, NEW c \in Controls, Type(c)
    PROVE  Inv'
<1>1. TypeOK /\ AllSettled
  BY DEF Inv
<1>2. c \in Composers /\ typed' = typed + 1 /\ typed' \in 0..MaxTexts
  BY <1>1, BoundsAssumption DEF Type, TypeOK
<1>3. field' \in [Composers -> 0..MaxTexts]
  BY <1>1, <1>2 DEF Type, TypeOK
<1>4. /\ UNCHANGED <<strategy, inBody, fired, issued, lock, flight, count>>
      /\ UNCHANGED <<posted, sent, calm, stuck>>
  BY DEF Type
<1>5. UNCHANGED <<busy, stranded>>
  BY DEF Type
<1>6. TypeOK'
  <2>1. /\ strategy' \in [Controls -> Strategies] /\ inBody' \subseteq Controls
        /\ fired' \in 0..MaxFires /\ issued' \in Nat /\ count' \in Nat /\ stuck' \in Nat
        /\ lock' \in [Locks -> [xhr : Nat, abortable : BOOLEAN, queue : Seq(Controls)]]
        /\ flight' \subseteq Requests
    BY <1>1, <1>4 DEF TypeOK
  <2>2. /\ posted' \in [Composers -> Seq(1..MaxTexts)]
        /\ sent' \subseteq 1..MaxTexts /\ calm' \subseteq 1..MaxTexts
    BY <1>1, <1>4 DEF TypeOK
  <2>3. busy' \in BOOLEAN /\ stranded' \in BOOLEAN
    BY <1>1, <1>5 DEF TypeOK
  <2>4. Requests' = Requests
    BY DEF Requests
  <2> QED
    BY <1>2, <1>3, <2>1, <2>2, <2>3, <2>4 DEF TypeOK, Locks
<1>7. ASSUME NEW k \in Locks PROVE Settled(Page(k), k, stuck)'
  <2>1. PICK S : S = Page(k)
    OBVIOUS
  <2>2. PICK T : T = [S EXCEPT !.field = field']
    OBVIOUS
  <2>3. S \in PageType /\ Settled(S, k, stuck)
    BY <1>1, <2>1 DEF AllSettled, Settled, Sound
  <2>4. /\ T \in PageType /\ T.lock = S.lock /\ T.flight = S.flight /\ T.issued = S.issued
        /\ T.count = S.count
    BY <1>3, <2>2, <2>3 DEF PageType
  <2>5. (T.busy <=> S.busy) /\ T.stranded = S.stranded
    BY <1>3, <2>2, <2>3 DEF PageType
  <2>6. Counted(T, stuck)
    BY <2>3, <2>4, <2>5 DEF Settled, Sound, Counted
  <2>7. Sound(T, k, stuck)
    BY <2>3, <2>4, <2>6 DEF Settled, Sound
  <2>8. Of(T, k) = Of(S, k) /\ (OrderlyIn(T, k) <=> OrderlyIn(S, k))
    BY <2>4, <2>5 DEF Of, OrderlyIn
  <2>9. Settled(T, k, stuck)
    BY <2>3, <2>4, <2>7, <2>8 DEF Settled, AloneIn
  <2>10. PICK n : n = stuck
    OBVIOUS
  <2>11. Settled(T, k, n)'
    BY <1>4, <2>9, <2>10, StaysSettled
  <2>12. Page(k)' = T
    BY <1>4, <1>5, <2>1, <2>2 DEF Page
  <2> QED
    BY <1>4, <2>10, <2>11, <2>12
<1> QED
  BY <1>6, <1>7 DEF Inv, AllSettled, Locks

LEMMA FireStep ==
    ASSUME Inv, NEW c \in Controls, NEW refused, Fire(c, refused)
    PROVE  Inv'
<1> DEFINE k == SyncElt(c)
<1>1. TypeOK /\ AllSettled /\ k \in Locks /\ stuck \in Nat
  BY SyncEltIsLock DEF Inv, TypeOK
<1>2. PICK T : T = Issue(Page(k), c, refused)
  OBVIOUS
<1>3. c \in inBody /\ Becomes(T, k) /\ UNCHANGED <<strategy, inBody>> /\ stuck' = stuck
  BY <1>2 DEF Fire
<1>4. Settled(Page(k), k, stuck)
  BY <1>1 DEF AllSettled
<1>5. Settled(T, k, stuck) /\ Beside(Page(k), T, k)
  BY <1>1, <1>2, <1>3, <1>4, IssueSettles
<1> HIDE DEF k
<1>6. /\ AllSettled'
      /\ lock' \in [Locks -> LockType] /\ flight' \subseteq Requests
      /\ issued' \in Nat /\ count' \in Nat /\ busy' \in BOOLEAN /\ stranded' \in BOOLEAN
      /\ field' \in [Composers -> 0..MaxTexts] /\ sent' \subseteq 1..MaxTexts
  BY <1>1, <1>3, <1>5, BecomesSettled
<1>7. fired' \in 0..MaxFires
  BY <1>1, BoundsAssumption DEF Fire, TypeOK
<1>8. calm' \subseteq 1..MaxTexts
  <2>1. c \in Composers => field[c] \in 1..MaxTexts
    BY <1>1, BoundsAssumption DEF Fire, TypeOK
  <2> QED
    BY <1>1, <2>1 DEF Fire, TypeOK
<1>9. /\ strategy' \in [Controls -> Strategies] /\ inBody' \subseteq Controls
      /\ typed' \in 0..MaxTexts /\ stuck' \in Nat /\ posted' \in [Composers -> Seq(1..MaxTexts)]
  BY <1>1 DEF Fire, TypeOK
<1>10. TypeOK'
  BY <1>6, <1>7, <1>8, <1>9 DEF TypeOK, Locks, LockType, Requests
<1> QED
  BY <1>6, <1>10 DEF Inv

(* A request ends, whichever way: the page E it leaves to the end of its   *)
(* lock, with n requests ended that kept their indicator.                  *)
EndsWith(r, refused, E, n) ==
    /\ Ending(E, SyncElt(r.ctl), n) /\ Beside(Page(SyncElt(r.ctl)), E, SyncElt(r.ctl))
    /\ Keeps(Page(SyncElt(r.ctl)), E, SyncElt(r.ctl)) /\ E.sent = sent
    /\ r.ctl \in Composers \ Failing => E.field[r.ctl] = 0
    /\ Becomes(EndRequestLock(E, refused), SyncElt(r.ctl)) /\ stuck' = n
    /\ UNCHANGED <<strategy, inBody, typed, fired, posted, calm>>

LEMMA OnErrorEnds ==
    ASSUME Inv, NEW r \in flight, NEW refused, OnError(r, refused)
    PROVE  \E n \in Nat : \E E : EndsWith(r, refused, E, n)
<1> DEFINE k == SyncElt(r.ctl)
           E == Ended(Page(k), r)
<1>1. TypeOK /\ AllSettled /\ r.ctl \in Controls /\ k \in Locks /\ stuck \in Nat
  <2>1. r.ctl \in Controls
    BY DEF Inv, TypeOK, Requests
  <2> QED
    BY <2>1, SyncEltIsLock DEF Inv, TypeOK
<1>2. /\ Becomes(EndRequestLock(E, refused), k) /\ stuck' = stuck
      /\ UNCHANGED <<strategy, inBody, typed, fired, posted, calm>>
  BY DEF OnError
<1>3. Settled(Page(k), k, stuck) /\ r \in Of(Page(k), k) /\ Page(k).sent = sent
  BY <1>1, PageIsTyped DEF AllSettled, Of
<1>4. E = AfterRequest(RemoveRequestIndicators([Page(k) EXCEPT !.flight = @ \ {r}]), r.ctl)
  BY DEF Ended
<1> HIDE DEF k, E
<1>5. Ending(E, k, stuck) /\ Beside(Page(k), E, k)
  BY <1>1, <1>3, <1>4, DropEnds
<1>6. /\ Keeps(Page(k), E, k) /\ E.sent = sent
      /\ r.ctl \in Composers => E.field[r.ctl] = 0
  BY <1>1, <1>3, <1>4, DropKeeps
<1>7. EndsWith(r, refused, E, stuck)
  BY <1>2, <1>5, <1>6 DEF EndsWith, k
<1> QED
  BY <1>1, <1>7

LEMMA OnLoadEnds ==
    ASSUME Inv, NEW r \in flight, NEW refused, OnLoad(r, refused)
    PROVE  \E n \in Nat : \E E : EndsWith(r, refused, E, n)
<1> DEFINE k == SyncElt(r.ctl)
           S == [Page(k) EXCEPT !.flight = @ \ {r}]
           D == AfterRequest(RemoveRequestIndicators(S), r.ctl)
           A == AfterRequest(S, r.ctl)
<1>1. TypeOK /\ AllSettled /\ r.ctl \in Controls /\ k \in Locks /\ stuck \in Nat
  <2>1. r.ctl \in Controls
    BY DEF Inv, TypeOK, Requests
  <2> QED
    BY <2>1, SyncEltIsLock DEF Inv, TypeOK
<1>2. PICK outcome \in HandleAjaxResponse(r.ctl) :
        /\ Becomes(EndRequestLock(CASE outcome = "done" -> D
                                    [] outcome = "keepIndicators" -> A
                                    [] outcome = "throws" -> S, refused), k)
        /\ stuck' = IF outcome = "done" THEN stuck ELSE stuck + 1
        /\ UNCHANGED <<strategy, inBody, typed, fired, posted, calm>>
  BY Zenon DEF OnLoad
<1>3. /\ outcome \in {"done", "keepIndicators", "throws"}
      /\ outcome = "throws" => r.ctl \in Failing
  BY DEF HandleAjaxResponse
<1>4. Settled(Page(k), k, stuck) /\ r \in Of(Page(k), k) /\ Page(k) \in PageType
      /\ Page(k).sent = sent /\ r \in Page(k).flight
  BY <1>1, PageIsTyped DEF AllSettled, Of
<1> HIDE DEF k
<1>5. /\ Ending(D, k, stuck) /\ Beside(Page(k), D, k)
      /\ Ending(A, k, stuck + 1) /\ Beside(Page(k), A, k)
      /\ Ending(S, k, stuck + 1) /\ Beside(Page(k), S, k)
  BY <1>1, <1>4, DropEnds
<1>6. /\ Keeps(Page(k), D, k) /\ D.sent = sent
      /\ Keeps(Page(k), A, k) /\ A.sent = sent
      /\ r.ctl \in Composers => D.field[r.ctl] = 0 /\ A.field[r.ctl] = 0
      /\ r.ctl \in Failing => Keeps(Page(k), S, k)
  BY <1>1, <1>4, DropKeeps
<1>7. S.sent = sent
  BY <1>4, DropFields
<1> HIDE DEF S, D, A
<1>8. CASE outcome = "done"
  <2>1. Becomes(EndRequestLock(D, refused), k) /\ stuck' = stuck
    BY <1>2, <1>8
  <2>2. EndsWith(r, refused, D, stuck)
    BY <1>2, <1>5, <1>6, <2>1 DEF EndsWith, k
  <2> QED
    BY <1>1, <2>2
<1>9. CASE outcome = "keepIndicators"
  <2>1. Becomes(EndRequestLock(A, refused), k) /\ stuck' = stuck + 1 /\ stuck + 1 \in Nat
    BY <1>1, <1>2, <1>9
  <2>2. EndsWith(r, refused, A, stuck + 1)
    BY <1>2, <1>5, <1>6, <2>1 DEF EndsWith, k
  <2> QED
    BY <2>1, <2>2
<1>10. CASE outcome = "throws"
  <2>1. Becomes(EndRequestLock(S, refused), k) /\ stuck' = stuck + 1 /\ stuck + 1 \in Nat
    BY <1>1, <1>2, <1>10
  <2>2. EndsWith(r, refused, S, stuck + 1)
    BY <1>2, <1>3, <1>5, <1>6, <1>7, <1>10, <2>1 DEF EndsWith, k
  <2> QED
    BY <2>1, <2>2
<1> QED
  BY <1>3, <1>8, <1>9, <1>10

LEMMA EndStep ==
    ASSUME Inv, NEW r \in flight, NEW refused, NEW n \in Nat, NEW E, EndsWith(r, refused, E, n)
    PROVE  Inv'
<1> DEFINE k == SyncElt(r.ctl)
<1>1. PICK T : T = EndRequestLock(E, refused)
  OBVIOUS
<1>2. k \in Locks
  BY SyncEltIsLock DEF Inv, TypeOK, Requests
<1>3. /\ Ending(E, k, n) /\ Beside(Page(k), E, k) /\ Becomes(T, k) /\ stuck' = n
      /\ UNCHANGED <<strategy, inBody, typed, fired, posted, calm>>
  BY <1>1 DEF EndsWith
<1> HIDE DEF k
<1>4. Settled(T, k, n) /\ Beside(E, T, k)
  BY <1>1, <1>2, <1>3, EndSettles
<1>5. Beside(Page(k), T, k)
  BY <1>3, <1>4, BesideTransitive
<1>6. /\ AllSettled'
      /\ lock' \in [Locks -> LockType] /\ flight' \subseteq Requests
      /\ issued' \in Nat /\ count' \in Nat /\ busy' \in BOOLEAN /\ stranded' \in BOOLEAN
      /\ field' \in [Composers -> 0..MaxTexts] /\ sent' \subseteq 1..MaxTexts
  BY <1>2, <1>3, <1>4, <1>5, BecomesSettled
<1>7. /\ strategy' \in [Controls -> Strategies] /\ inBody' \subseteq Controls
      /\ typed' \in 0..MaxTexts /\ fired' \in 0..MaxFires /\ stuck' \in Nat
      /\ posted' \in [Composers -> Seq(1..MaxTexts)] /\ calm' \subseteq 1..MaxTexts
  BY <1>3 DEF Inv, TypeOK
<1>8. TypeOK'
  BY <1>6, <1>7 DEF TypeOK, Locks, LockType, Requests
<1> QED
  BY <1>6, <1>8 DEF Inv

(* Being served changes nothing a lock depends on.                         *)
LEMMA ServeStep ==
    ASSUME Inv, NEW r \in flight, Serve(r)
    PROVE  Inv'
<1> DEFINE t == [r EXCEPT !.served = TRUE]
<1>1. TypeOK /\ AllSettled /\ r \in Requests
  BY DEF Inv, TypeOK
<1>2. t \in Requests /\ t.id = r.id /\ t.ctl = r.ctl
  BY <1>1 DEF Requests
<1>3. flight' = (flight \ {r}) \cup {t}
  BY DEF Serve
<1>4. /\ UNCHANGED <<strategy, inBody, field, typed, fired, issued, lock, count>>
      /\ UNCHANGED <<sent, calm, stuck>>
  BY DEF Serve
<1>5. UNCHANGED <<busy, stranded>>
  BY DEF Serve
<1>6. posted' \in [Composers -> Seq(1..MaxTexts)]
  <2>1. r.text = 0 \/ r.text \in 1..MaxTexts
    BY <1>1, BoundsAssumption DEF Requests
  <2>2. posted' = IF r.text = 0 THEN posted
                  ELSE [posted EXCEPT ![r.ctl] = Append(@, r.text)]
    BY DEF Serve
  <2>3. posted \in [Composers -> Seq(1..MaxTexts)]
    BY <1>1 DEF TypeOK
  <2> DEFINE Texts == 1..MaxTexts
  <2> HIDE DEF Texts
  <2>4. \A x \in Composers : r.text \in Texts => Append(posted[x], r.text) \in Seq(Texts)
    BY <2>3, AppendProperties DEF Texts
  <2> QED
    BY <2>1, <2>2, <2>3, <2>4 DEF Texts
<1> HIDE DEF t
<1>7. TypeOK'
  <2>1. /\ strategy' \in [Controls -> Strategies] /\ inBody' \subseteq Controls
        /\ field' \in [Composers -> 0..MaxTexts] /\ typed' \in 0..MaxTexts
        /\ fired' \in 0..MaxFires /\ issued' \in Nat /\ count' \in Nat /\ stuck' \in Nat
        /\ lock' \in [Locks -> [xhr : Nat, abortable : BOOLEAN, queue : Seq(Controls)]]
        /\ sent' \subseteq 1..MaxTexts /\ calm' \subseteq 1..MaxTexts
    BY <1>1, <1>4 DEF TypeOK
  <2>2. flight' \subseteq Requests
    BY <1>1, <1>2, <1>3 DEF TypeOK
  <2>3. busy' \in BOOLEAN /\ stranded' \in BOOLEAN
    BY <1>1, <1>5 DEF TypeOK
  <2>4. Requests' = Requests
    BY DEF Requests
  <2> QED
    BY <1>6, <2>1, <2>2, <2>3, <2>4 DEF TypeOK, Locks
<1>8. ASSUME NEW k \in Locks PROVE Settled(Page(k), k, stuck)'
  <2>1. PICK S : S = Page(k)
    OBVIOUS
  <2>2. PICK T : T = [S EXCEPT !.flight = flight']
    OBVIOUS
  <2>3. S \in PageType /\ Settled(S, k, stuck) /\ S.flight = flight
    BY <1>1, <2>1, PageIsTyped DEF AllSettled
  <2>4. /\ T \in PageType /\ T.lock = S.lock /\ T.flight = (S.flight \ {r}) \cup {t}
        /\ T.issued = S.issued /\ T.count = S.count
    BY <1>2, <1>3, <2>2, <2>3 DEF PageType
  <2>5. (T.busy <=> S.busy) /\ T.stranded = S.stranded
    BY <2>2, <2>3 DEF PageType
  <2>6. Counted(S, stuck) /\ r \in S.flight
    BY <2>3 DEF Settled, Sound
  <2>7. \A q \in S.flight : q.id = t.id => q = r
    BY <1>2, <2>6 DEF Counted
  <2>8. IsFiniteSet(T.flight) /\ Cardinality(T.flight) = Cardinality(S.flight)
    <3> DEFINE rest == S.flight \ {r}
    <3>1. IsFiniteSet(S.flight) /\ Cardinality(S.flight) \in Nat
      BY <2>6, FS_CardinalityType DEF Counted
    <3>2. IsFiniteSet(rest) /\ Cardinality(rest) = Cardinality(S.flight) - 1
      BY <2>6, <3>1, FS_RemoveElement
    <3>3. t \notin rest
      BY <2>7
    <3> HIDE DEF rest
    <3>4. /\ IsFiniteSet(rest \cup {t})
          /\ Cardinality(rest \cup {t}) = Cardinality(rest) + 1
      BY <3>2, <3>3, FS_AddElement
    <3> QED
      BY <2>4, <3>1, <3>2, <3>4 DEF rest
  <2>9. Counted(T, stuck)
    <3>1. \A q \in T.flight : 1 <= q.id /\ q.id <= T.issued
      BY <1>2, <2>4, <2>6 DEF Counted
    <3>2. \A p, q \in T.flight : p.id = q.id => p = q
      BY <1>2, <2>4, <2>6, <2>7 DEF Counted
    <3> QED
      BY <2>4, <2>5, <2>6, <2>8, <3>1, <3>2 DEF Counted
  <2>10. Sound(T, k, stuck)
    BY <2>3, <2>4, <2>9 DEF Settled, Sound
  <2>11. /\ r \in Of(S, k) <=> t \in Of(T, k)
         /\ \A q : q \in Of(T, k) <=> (q \in Of(S, k) /\ q # r) \/ (q = t /\ r \in Of(S, k))
    BY <1>2, <2>4, <2>6 DEF Of
  <2>12. OrderlyIn(T, k) <=> OrderlyIn(S, k)
    BY <2>5 DEF OrderlyIn
  <2>13. T.lock.xhr # 0 => \E q \in Of(T, k) : q.id = T.lock.xhr
    BY <1>2, <2>3, <2>4, <2>11 DEF Settled
  <2>14. AloneIn(T, k) /\ Present(k) => \A q \in Of(T, k) : q.id = T.lock.xhr
    BY <1>2, <2>3, <2>4, <2>11, <2>12 DEF Settled, AloneIn
  <2>15. Settled(T, k, stuck)
    BY <2>3, <2>4, <2>10, <2>12, <2>13, <2>14 DEF Settled
  <2>16. PICK n : n = stuck
    OBVIOUS
  <2>17. Settled(T, k, n)'
    BY <1>4, <2>15, <2>16, StaysSettled
  <2>18. Page(k)' = T
    BY <1>4, <1>5, <2>1, <2>2 DEF Page
  <2> QED
    BY <1>4, <2>16, <2>17, <2>18
<1> QED
  BY <1>7, <1>8 DEF Inv, AllSettled, Locks

(* A control that is removed gives up its own lock; it is not in the page  *)
(* any more, so nothing is asked of it.                                    *)
LEMMA RemoveStep ==
    ASSUME Inv, NEW c \in Controls, Remove(c)
    PROVE  Inv'
<1>1. TypeOK /\ AllSettled /\ lock \in [Locks -> LockType]
  BY DEF Inv, TypeOK, LockType
<1>2. /\ UNCHANGED <<strategy, field, typed, fired, issued, flight, count>>
      /\ UNCHANGED <<posted, sent, calm, stuck>>
      /\ inBody' = inBody \ {c} /\ lock' = [lock EXCEPT ![c] = Idle]
  BY DEF Remove
<1>3. UNCHANGED <<busy, stranded>>
  BY DEF Remove
<1>4. Idle \in LockType /\ Idle.xhr = 0 /\ Idle.queue = <<>> /\ ~Idle.abortable
  BY DEF Idle, LockType
<1>5. lock' \in [Locks -> LockType] /\ lock'[c] = Idle /\ \A k \in Locks \ {c} : lock'[k] = lock[k]
  BY <1>1, <1>2, <1>4 DEF Locks
<1>6. TypeOK'
  <2>1. /\ strategy' \in [Controls -> Strategies] /\ inBody' \subseteq Controls
        /\ field' \in [Composers -> 0..MaxTexts] /\ typed' \in 0..MaxTexts
        /\ fired' \in 0..MaxFires /\ issued' \in Nat /\ count' \in Nat /\ stuck' \in Nat
    BY <1>1, <1>2 DEF TypeOK
  <2>2. /\ flight' \subseteq Requests /\ posted' \in [Composers -> Seq(1..MaxTexts)]
        /\ sent' \subseteq 1..MaxTexts /\ calm' \subseteq 1..MaxTexts
    BY <1>1, <1>2 DEF TypeOK
  <2>3. busy' \in BOOLEAN /\ stranded' \in BOOLEAN
    BY <1>1, <1>3 DEF TypeOK
  <2> QED
    BY <1>5, <2>1, <2>2, <2>3 DEF TypeOK, Locks, LockType, Requests
<1>7. ASSUME NEW k \in Locks PROVE Settled(Page(k), k, stuck)'
  <2>1. PICK S : S = Page(k)
    OBVIOUS
  <2>2. PICK T : T = [S EXCEPT !.lock = lock'[k]]
    OBVIOUS
  <2>3. PICK n : n = stuck
    OBVIOUS
  <2>4. /\ S \in PageType /\ Settled(S, k, n) /\ S.lock = lock[k]
        /\ Counted(S, n)
    BY <1>1, <2>1, <2>3, PageIsTyped DEF AllSettled, Settled, Sound
  <2>5. /\ T \in PageType /\ T.count = S.count /\ (T.busy <=> S.busy)
        /\ T.lock = lock'[k] /\ T.flight = S.flight /\ T.issued = S.issued
        /\ T.stranded = S.stranded
    BY <1>5, <2>2, <2>4, LockFields
  <2>6. Page(k)' = T
    BY <1>2, <1>3, <2>1, <2>2, <2>4, <2>5 DEF Page
  <2>7. Counted(T, n)'
    BY <2>4, <2>5 DEF Counted
  <2>8. /\ \A x : SyncElt(x)' = SyncElt(x)
        /\ \A x : Waits(x, k)' <=> Waits(x, k)
    BY <1>2 DEF SyncElt, Waits
  <2>9. Of(T, k)' = Of(S, k)
    BY <2>5, <2>8 DEF Of
  <2>10. (OrderlyIn(T, k)' <=> OrderlyIn(S, k)) /\ (AloneIn(T, k)' <=> AloneIn(S, k))
    BY <1>2, <2>5 DEF OrderlyIn, AloneIn, NobodyAborts
  <2>11. PageType' = PageType
    BY DEF PageType, LockType, Requests
  <2>12. CASE k = c
    <3>1. k # Shared /\ ~Present(k)'
      BY <1>2, <2>12, ControlsAssumption DEF Present
    <3>2. /\ T.lock.xhr = 0 /\ T.lock.queue = <<>> /\ Len(T.lock.queue) = 0
          /\ ~T.lock.abortable
      BY <1>4, <1>5, <2>5, <2>12
    <3>3. Sound(T, k, n)'
      BY <2>5, <2>7, <2>11, <3>2 DEF Sound
    <3> QED
      BY <1>2, <2>3, <2>6, <3>1, <3>2, <3>3 DEF Settled
  <2>13. CASE k # c
    <3>1. T.lock = S.lock
      BY <1>5, <2>4, <2>5, <2>13
    <3>2. (k \in Controls \ inBody' <=> k \in Controls \ inBody) /\ (Present(k)' <=> Present(k))
      BY <1>2, <2>13 DEF Present
    <3>3. Sound(T, k, n)'
      <4>1. \A i \in 1..Len(S.lock.queue) : Waits(S.lock.queue[i], k)
        BY <2>4 DEF Settled, Sound
      <4>2. k \in Controls \ inBody => S.lock.queue = <<>>
        BY <2>4 DEF Settled, Sound
      <4>3. S.lock.abortable => \E x \in Controls : SyncElt(x) = k /\ strategy[x] = "abort"
        BY <2>4 DEF Settled, Sound
      <4>4. S.lock.abortable => \E x \in Controls : SyncElt(x)' = k /\ strategy'[x] = "abort"
        BY <1>2, <2>8, <4>3
      <4>5. k # Shared => Len(S.lock.queue) <= 1
        BY <2>4 DEF Settled, Sound
      <4> QED
        BY <2>5, <2>7, <2>8, <2>11, <3>1, <3>2, <4>1, <4>2, <4>4, <4>5 DEF Sound
    <3>4. T.lock.xhr # 0 => \E r \in Of(S, k) : r.id = T.lock.xhr
      BY <2>4, <3>1 DEF Settled
    <3>5. k \in Controls \ inBody' => T.lock.xhr = 0
      BY <2>4, <3>1, <3>2 DEF Settled
    <3>6. AloneIn(S, k) /\ Present(k) => \A r \in Of(S, k) : r.id = T.lock.xhr
      BY <2>4, <3>1 DEF Settled
    <3>7. OrderlyIn(S, k) /\ (T.lock.xhr = 0 \/ T.lock.abortable) => T.lock.queue = <<>>
      BY <2>4, <3>1 DEF Settled
    <3>8. Settled(T, k, n)'
      BY <2>9, <2>10, <3>2, <3>3, <3>4, <3>5, <3>6, <3>7 DEF Settled
    <3> QED
      BY <1>2, <2>3, <2>6, <3>8
  <2> QED
    BY <2>12, <2>13
<1> QED
  BY <1>6, <1>7 DEF Inv, AllSettled, Locks

-----------------------------------------------------------------------------
(* The theorems.                                                           *)

LEMMA NextIsSettled == Inv /\ [Next]_vars => Inv'
<1> SUFFICES ASSUME Inv, [Next]_vars PROVE Inv'
  OBVIOUS
<1>1. CASE UNCHANGED vars
  <2>1. /\ UNCHANGED <<strategy, inBody, field, typed, fired, issued, lock, flight>>
        /\ UNCHANGED <<count, busy, posted, sent, calm, stuck, stranded>>
    BY <1>1 DEF vars
  <2>2. TypeOK' <=> TypeOK
    BY <2>1 DEF TypeOK, Locks, Requests
  <2>3. ASSUME NEW k \in Locks PROVE Settled(Page(k), k, stuck)'
    <3>1. PICK S : S = Page(k)
      OBVIOUS
    <3>2. PICK n : n = stuck
      OBVIOUS
    <3>3. Settled(S, k, n)
      BY <3>1, <3>2 DEF Inv, AllSettled
    <3>4. Settled(S, k, n)'
      BY <2>1, <3>3, StaysSettled
    <3>5. Page(k)' = S
      BY <2>1, <3>1 DEF Page
    <3> QED
      BY <2>1, <3>2, <3>4, <3>5
  <2> QED
    BY <2>2, <2>3 DEF Inv, AllSettled, Locks
<1>2. ASSUME NEW c \in Controls, Type(c) PROVE Inv'
  BY <1>2, TypeStep
<1>3. ASSUME NEW c \in Controls, Remove(c) PROVE Inv'
  BY <1>3, RemoveStep
<1>4. ASSUME NEW c \in Controls, NEW refused, Fire(c, refused) PROVE Inv'
  BY <1>4, FireStep
<1>5. ASSUME NEW r \in flight, NEW refused, OnLoad(r, refused) PROVE Inv'
  BY <1>5, OnLoadEnds, EndStep
<1>6. ASSUME NEW r \in flight, NEW refused, OnError(r, refused) PROVE Inv'
  BY <1>6, OnErrorEnds, EndStep
<1>7. ASSUME NEW r \in flight, Serve(r) PROVE Inv'
  BY <1>7, ServeStep
<1> QED
  BY <1>1, <1>2, <1>3, <1>4, <1>5, <1>6, <1>7 DEF Next

THEOREM Invariant == Spec => []Inv
<1> QED
  BY InitIsSettled, NextIsSettled, PTL DEF Spec

(* Every variable keeps its type, for any controls, ways of synchronising  *)
(* them and bounds.                                                        *)
THEOREM TypeCorrect == Spec => []TypeOK
<1>1. Inv => TypeOK
  BY DEF Inv
<1> QED
  BY <1>1, Invariant, PTL

(* Through every abort, queue and halt, and however many requests are      *)
(* issued from within the end of another, the lock of an element of the    *)
(* page names the one request in flight for it.                            *)
THEOREM RequestsNeverOverlap == Spec => []LockIsTheFlight
<1>1. ASSUME Inv PROVE LockIsTheFlight
  <2> SUFFICES ASSUME NEW k \in Locks, Present(k), Alone(k)
               PROVE  {r.id : r \in InFlight(k)} = {lock[k].xhr} \ {0}
    BY DEF LockIsTheFlight
  <2>1. PICK S : S = Page(k)
    OBVIOUS
  <2>2. Settled(S, k, stuck) /\ S.lock = lock[k] /\ S.flight = flight /\ (S.stranded <=> stranded)
    BY <1>1, <2>1, PageIsTyped DEF Inv, AllSettled
  <2>3. Of(S, k) = InFlight(k) /\ AloneIn(S, k)
    BY <2>2 DEF Of, InFlight, OrderlyIn, Orderly, AloneIn, Alone
  <2>4. \A r \in InFlight(k) : r.id = lock[k].xhr
    BY <2>2, <2>3 DEF Settled
  <2>5. \A r \in InFlight(k) : 1 <= r.id
    BY <2>2 DEF Settled, Sound, Counted, InFlight
  <2>6. lock[k].xhr # 0 => \E r \in InFlight(k) : r.id = lock[k].xhr
    BY <2>2, <2>3 DEF Settled
  <2> HIDE DEF InFlight
  <2>7. \A r \in InFlight(k) : r.id # 0
    BY <2>5
  <2> QED
    BY <2>4, <2>6, <2>7
<1> QED
  BY <1>1, Invariant, PTL

(* Whoever frees a lock issues the next request that can be sent, so no    *)
(* request waits for a lock that nobody holds.                             *)
THEOREM WaitersHaveATurn == Spec => []NothingWaitsForNobody
<1>1. ASSUME Inv PROVE NothingWaitsForNobody
  <2> SUFFICES ASSUME NEW k \in Locks, Orderly(k), lock[k].xhr = 0
               PROVE  lock[k].queue = <<>>
    BY DEF NothingWaitsForNobody
  <2>1. PICK S : S = Page(k)
    OBVIOUS
  <2>2. Settled(S, k, stuck) /\ S.lock = lock[k] /\ (S.stranded <=> stranded)
    BY <1>1, <2>1, PageIsTyped DEF Inv, AllSettled
  <2>3. OrderlyIn(S, k)
    BY <2>2 DEF OrderlyIn, Orderly
  <2> QED
    BY <2>2, <2>3 DEF Settled
<1> QED
  BY <1>1, Invariant, PTL

(* The indicator counts the requests in flight and those that ended        *)
(* without removing it, and is shown exactly while there is one.           *)
THEOREM IndicatorIsRight == Spec => []IndicatorCounts
<1>1. ASSUME Inv PROVE IndicatorCounts
  <2>1. PICK S : S = Page(Shared)
    OBVIOUS
  <2>2. Shared \in Locks
    BY DEF Locks
  <2>3. /\ Settled(S, Shared, stuck) /\ S.flight = flight /\ S.count = count
        /\ (S.busy <=> busy)
    BY <1>1, <2>1, <2>2, PageIsTyped DEF Inv, AllSettled
  <2>4. Counted(S, stuck)
    BY <2>3 DEF Settled, Sound
  <2> QED
    BY <2>3, <2>4 DEF Counted, IndicatorCounts
<1> QED
  BY <1>1, Invariant, PTL
-----------------------------------------------------------------------------
(* Texts.  What the server has of a composer is ascending, and older than  *)
(* what is typed next.                                                     *)
Once ==
    /\ Fresh(Page(Shared))
    /\ \A c \in Composers \ Failing : Alone(SyncElt(c)) =>
          /\ Above(c, typed + 1)
          /\ \A i, j \in DOMAIN posted[c] : i < j => posted[c][i] < posted[c][j]

(* All pages hold the same texts.                                          *)
LEMMA PagesShare ==
    ASSUME TypeOK, NEW k \in Locks, NEW j \in Locks, Fresh(Page(k))
    PROVE  Fresh(Page(j))
<1>1. PICK S : S = Page(k)
  OBVIOUS
<1>2. PICK T : T = Page(j)
  OBVIOUS
<1>3. /\ T.field = S.field /\ T.flight = S.flight /\ T.sent = S.sent
      /\ S.stranded => T.stranded
  BY <1>1, <1>2, PageIsTyped
<1>4. Keeps(S, T, k)
  BY <1>3, SameKeeps
<1> QED
  BY <1>1, <1>2, <1>4 DEF Keeps

LEMMA StaysFresh ==
    ASSUME NEW S, Fresh(S), UNCHANGED <<strategy, posted, typed>>
    PROVE  Fresh(S)'
<1>1. \A c : /\ SyncElt(c)' = SyncElt(c) /\ (AloneIn(S, c)' <=> AloneIn(S, c))
             /\ Mine(S, c)' = Mine(S, c)
             /\ \A t : Above(c, t)' <=> Above(c, t)
  BY DEF SyncElt, OrderlyIn, AloneIn, NobodyAborts, Mine, Above
<1>2. \A c : FreshFor(S, c)' <=> FreshFor(S, c)
  BY <1>1 DEF FreshFor
<1> QED
  BY <1>1, <1>2 DEF Fresh

(* A step on a page that keeps its texts fresh.                            *)
LEMMA BecomesOnce ==
    ASSUME Inv, Inv', Once, NEW k \in Locks, NEW T, Becomes(T, k),
           Beside(Page(k), T, k), Keeps(Page(k), T, k),
           UNCHANGED <<strategy, posted, typed>>
    PROVE  Once'
<1>1. Shared \in Locks /\ TypeOK
  BY DEF Locks, Inv
<1>2. Fresh(T)
  BY <1>1, PagesShare DEF Once, Keeps
<1>3. PICK U : U = Page(Shared)'
  OBVIOUS
<1>4. U.field = T.field /\ U.flight = T.flight /\ U.sent = T.sent
  BY <1>3 DEF Page, Becomes
<1>5. T.stranded => U.stranded
  BY <1>3 DEF Page, Becomes
<1>6. Keeps(T, U, k)
  BY <1>4, <1>5, SameKeeps
<1>7. Fresh(U)
  BY <1>2, <1>6 DEF Keeps
<1>8. Fresh(U)'
  BY <1>7, StaysFresh
<1>9. Fresh(Page(Shared))'
  BY <1>3, <1>8
<1>10. stranded => stranded'
  <2>1. Page(k).stranded => T.stranded
    BY DEF Beside
  <2>2. stranded => Page(k).stranded
    BY <1>1, PageIsTyped
  <2>3. T.stranded => stranded'
    BY DEF Becomes
  <2> QED
    BY <2>1, <2>2, <2>3
<1>11. \A c : SyncElt(c)' = SyncElt(c) /\ (Alone(SyncElt(c))' => Alone(SyncElt(c)))
  BY <1>10 DEF SyncElt, Orderly, Alone, NobodyAborts
<1>12. \A c : Above(c, typed + 1)' <=> Above(c, typed + 1)
  BY DEF Above
<1> QED
  BY <1>9, <1>11, <1>12 DEF Once

LEMMA TextsAreNumbers ==
    ASSUME TypeOK, NEW d \in Composers
    PROVE  /\ Len(posted[d]) \in Nat /\ DOMAIN posted[d] = 1..Len(posted[d])
           /\ \A i \in DOMAIN posted[d] : posted[d][i] \in Nat
<1>1. posted[d] \in Seq(1..MaxTexts)
  BY DEF TypeOK
<1>2. Len(posted[d]) \in Nat /\ DOMAIN posted[d] = 1..Len(posted[d])
  BY <1>1
<1>3. \A i \in DOMAIN posted[d] : posted[d][i] \in 1..MaxTexts
  BY <1>1, ElementOfSeq, <1>2
<1>4. \A i \in 1..MaxTexts : i \in Nat
  BY BoundsAssumption
<1> QED
  BY <1>2, <1>3, <1>4

LEMMA InitOnce == Init => Once
<1> SUFFICES ASSUME Init PROVE Once
  OBVIOUS
<1>1. PICK S : S = Page(Shared)
  OBVIOUS
<1>2. S.field = field /\ S.flight = flight
  BY <1>1 DEF Page
<1>3. /\ typed = 0 /\ flight = {}
      /\ \A c \in Composers : field[c] = 0 /\ DOMAIN posted[c] = {}
  BY DEF Init
<1>4. \A c \in Composers : Mine(S, c) = {} /\ \A t : Above(c, t)
  BY <1>2, <1>3 DEF Mine, Above
<1>5. Fresh(S)
  BY <1>2, <1>3, <1>4 DEF Fresh, FreshFor
<1> QED
  BY <1>1, <1>3, <1>4, <1>5 DEF Once

(* What is typed is newer than all there is.                               *)
LEMMA TypeOnce ==
    ASSUME Inv, Once, NEW c \in Controls, Type(c)
    PROVE  Once'
<1>1. PICK S : S = Page(Shared)
  OBVIOUS
<1>2. PICK U : U = Page(Shared)'
  OBVIOUS
<1>3. /\ c \in Composers /\ typed' = typed + 1 /\ field' = [field EXCEPT ![c] = typed + 1]
      /\ UNCHANGED <<strategy, flight, posted>>
  BY DEF Type
<1>4. UNCHANGED stranded
  BY DEF Type
<1>5. /\ typed \in Nat /\ field \in [Composers -> 0..MaxTexts]
      /\ \A d \in Composers : posted[d] \in Seq(1..MaxTexts)
      /\ flight \subseteq Requests
  BY BoundsAssumption DEF Inv, TypeOK
<1>6. S.field = field /\ S.flight = flight /\ U.field = field' /\ U.flight = flight
  BY <1>1, <1>2, <1>3 DEF Page
<1>7. U.stranded = S.stranded
  BY <1>1, <1>2, <1>4 DEF Page
<1>8. \A d : /\ SyncElt(d)' = SyncElt(d) /\ (Alone(d)' <=> Alone(d))
             /\ (AloneIn(U, d)' => AloneIn(S, d))
             /\ Mine(U, d)' = Mine(S, d)
             /\ \A t : Above(d, t)' <=> Above(d, t)
  BY <1>3, <1>4, <1>6, <1>7 DEF SyncElt, Orderly, Alone, NobodyAborts, OrderlyIn, AloneIn, Mine, Above
<1>9. \A d : AloneIn(S, d) <=> Alone(d)
  BY <1>1 DEF Page, OrderlyIn, AloneIn, Orderly, Alone, NobodyAborts
<1>10. ASSUME NEW d \in Composers \ Failing, AloneIn(U, SyncElt(d))'
       PROVE  FreshFor(U, d)'
  <2>1. AloneIn(S, SyncElt(d)) /\ FreshFor(S, d) /\ Above(d, typed + 1)
    <3>1. AloneIn(S, SyncElt(d)) /\ Alone(SyncElt(d))
      BY <1>8, <1>9, <1>10
    <3> QED
      BY <1>1, <3>1 DEF Once, Fresh
  <2>2. U.field[d] = IF d = c THEN typed + 1 ELSE S.field[d]
    BY <1>3, <1>5, <1>6
  <2>3. U.field[d] <= typed' /\ S.field[d] \in Nat
    BY <1>3, <1>5, <1>6, <2>1, <2>2 DEF FreshFor
  <2>4. \A r \in Mine(S, d) : r.text <= typed'
    BY <1>3, <1>5, <1>6, <2>1 DEF FreshFor, Mine, Requests
  <2>5. U.field[d] = 0 \/ Above(d, U.field[d]) \/ Mine(S, d) # {}
    BY <2>1, <2>2 DEF FreshFor
  <2>6. /\ \A r \in Mine(S, d) : r.served \/ Above(d, r.text)
        /\ \A r, q \in Mine(S, d) : r = q
    BY <2>1 DEF FreshFor
  <2> HIDE DEF Mine, Above
  <2> QED
    BY <1>8, <2>3, <2>4, <2>5, <2>6 DEF FreshFor
<1>11. Fresh(U)'
  BY <1>3, <1>5, <1>10 DEF Fresh
<1>12. ASSUME NEW d \in Composers \ Failing, Alone(SyncElt(d))'
       PROVE  /\ Above(d, typed + 1)'
              /\ \A i, j \in DOMAIN posted'[d] : i < j => posted'[d][i] < posted'[d][j]
  <2>1. /\ Above(d, typed + 1)
        /\ \A i, j \in DOMAIN posted[d] : i < j => posted[d][i] < posted[d][j]
    BY <1>8, <1>12 DEF Once
  <2>2. \A i \in DOMAIN posted[d] : posted[d][i] \in Int /\ posted[d][i] < typed + 1
    <3>1. \A i \in DOMAIN posted[d] : posted[d][i] \in Nat
      BY TextsAreNumbers DEF Inv
    <3> QED
      BY <2>1, <3>1 DEF Above
  <2>3. \A i \in DOMAIN posted[d] : posted[d][i] < typed' + 1
    BY <1>3, <1>5, <2>2
  <2>4. posted' = posted
    BY <1>3
  <2>5. Above(d, typed + 1)'
    BY <2>3, <2>4 DEF Above
  <2> QED
    BY <2>1, <2>4, <2>5
<1> QED
  BY <1>2, <1>11, <1>12 DEF Once

(* The server takes the only text of a composer it has not seen.           *)
LEMMA ServeOnce ==
    ASSUME Inv, Once, NEW r \in flight, Serve(r)
    PROVE  Once'
<1> DEFINE t == [r EXCEPT !.served = TRUE]
<1>1. PICK S : S = Page(Shared)
  OBVIOUS
<1>2. PICK U : U = Page(Shared)'
  OBVIOUS
<1>3. /\ ~r.served /\ flight' = (flight \ {r}) \cup {t}
      /\ posted' = IF r.text = 0 THEN posted ELSE [posted EXCEPT ![r.ctl] = Append(@, r.text)]
      /\ UNCHANGED <<strategy, field, typed>>
  BY DEF Serve
<1>4. UNCHANGED stranded
  BY DEF Serve
<1>5. /\ typed \in Nat /\ field \in [Composers -> 0..MaxTexts]
      /\ posted \in [Composers -> Seq(1..MaxTexts)]
      /\ r \in Requests
  BY BoundsAssumption DEF Inv, TypeOK
<1>6. t.ctl = r.ctl /\ t.text = r.text /\ t.served
  BY <1>5 DEF Requests
<1> HIDE DEF t
<1>7. S.field = field /\ S.flight = flight /\ U.field = field /\ U.flight = flight'
  BY <1>1, <1>2, <1>3 DEF Page
<1>8. U.stranded = S.stranded
  BY <1>1, <1>2, <1>4 DEF Page
<1>9. \A d : /\ SyncElt(d)' = SyncElt(d) /\ (Alone(d)' <=> Alone(d))
             /\ (AloneIn(U, d)' => AloneIn(S, d))
  BY <1>3, <1>4, <1>8 DEF SyncElt, Orderly, Alone, NobodyAborts, OrderlyIn, AloneIn
<1>10. \A d : (AloneIn(S, d) <=> Alone(d)) /\ (Alone(d) => AloneIn(S, d))
  BY <1>1 DEF Page, OrderlyIn, AloneIn, Orderly, Alone, NobodyAborts
<1>11. ASSUME NEW d \in Composers \ Failing, Alone(SyncElt(d))
       PROVE  /\ FreshFor(U, d)' /\ Above(d, typed + 1)'
              /\ \A i, j \in DOMAIN posted'[d] : i < j => posted'[d][i] < posted'[d][j]
  <2>1. /\ FreshFor(S, d) /\ Above(d, typed + 1)
        /\ \A i, j \in DOMAIN posted[d] : i < j => posted[d][i] < posted[d][j]
    BY <1>1, <1>10, <1>11 DEF Once, Fresh
  <2>2. CASE d # r.ctl
    <3>1. posted'[d] = posted[d]
      BY <1>3, <1>5, <2>2
    <3>2. Mine(U, d)' = Mine(S, d)
      BY <1>3, <1>6, <1>7, <2>2 DEF Mine
    <3>3. \A x : Above(d, x)' <=> Above(d, x)
      BY <3>1 DEF Above
    <3>4. FreshFor(U, d)'
      BY <1>3, <1>7, <2>1, <3>2, <3>3 DEF FreshFor
    <3>5. Above(d, typed + 1)'
      BY <1>3, <2>1, <3>1 DEF Above
    <3> QED
      BY <2>1, <3>1, <3>4, <3>5
  <2>3. CASE d = r.ctl
    <3>1. r \in Mine(S, d) /\ Mine(S, d) = {r}
      BY <1>7, <2>1, <2>3 DEF Mine, FreshFor
    <3>2. Mine(U, d)' = {t}
      BY <1>3, <1>6, <1>7, <2>3, <3>1 DEF Mine
    <3>3. r.text <= typed /\ Above(d, r.text) /\ S.field[d] <= typed
      BY <1>3, <2>1, <3>1 DEF FreshFor
    <3>4. FreshFor(U, d)'
      BY <1>3, <1>6, <1>7, <3>2, <3>3 DEF FreshFor
    <3>5. posted'[d] = posted[d] \/ posted'[d] = Append(posted[d], r.text)
      BY <1>3, <1>5, <2>3
    <3>6. posted[d] \in Seq(1..MaxTexts) /\ Len(posted[d]) \in Nat /\ r.text \in Nat
      BY <1>5 DEF Requests
    <3>7. \A i \in 1..Len(posted[d]) : posted[d][i] \in Nat /\ posted[d][i] < r.text
                                         /\ posted[d][i] < typed + 1
      <4>1. \A i \in 1..Len(posted[d]) : i \in DOMAIN posted[d] /\ posted[d][i] \in Nat
        BY TextsAreNumbers DEF Inv
      <4> QED
        BY <2>1, <3>3, <4>1 DEF Above
    <3>8. CASE posted'[d] = posted[d]
      BY <1>3, <2>1, <3>4, <3>8 DEF Above
    <3>9. CASE posted'[d] = Append(posted[d], r.text)
      <4>1. PICK p : p = posted'[d]
        OBVIOUS
      <4>2. /\ p = Append(posted[d], r.text) /\ DOMAIN p = 1..(Len(posted[d]) + 1)
            /\ p[Len(posted[d]) + 1] = r.text
            /\ \A i \in 1..Len(posted[d]) : p[i] = posted[d][i]
        BY <3>6, <3>9, <4>1, AppendProperties
      <4>3. \A i \in DOMAIN p : p[i] < typed + 1
        BY <1>5, <3>3, <3>6, <3>7, <4>2
      <4>4. \A i, j \in DOMAIN p : i < j => p[i] < p[j]
        <5> SUFFICES ASSUME NEW i \in DOMAIN p, NEW j \in DOMAIN p, i < j PROVE p[i] < p[j]
          OBVIOUS
        <5>1. i \in 1..Len(posted[d]) /\ (j \in 1..Len(posted[d]) \/ j = Len(posted[d]) + 1)
          BY <3>6, <4>2
        <5>2. CASE j = Len(posted[d]) + 1
          BY <3>7, <4>2, <5>1, <5>2
        <5>3. CASE j \in 1..Len(posted[d])
          BY <2>1, <3>6, <4>2, <5>1, <5>3
        <5> QED
          BY <5>1, <5>2, <5>3
      <4> QED
        BY <1>3, <3>4, <4>1, <4>3, <4>4 DEF Above
    <3> QED
      BY <3>5, <3>8, <3>9
  <2> QED
    BY <2>2, <2>3
<1>12. Fresh(U)'
  BY <1>3, <1>5, <1>9, <1>10, <1>11 DEF Fresh
<1> QED
  BY <1>2, <1>9, <1>11, <1>12 DEF Once

(* Every step preserves it.                                                *)
LEMMA NextOnce == Inv /\ Inv' /\ Once /\ [Next]_vars => Once'
<1> SUFFICES ASSUME Inv, Inv', Once, [Next]_vars PROVE Once'
  OBVIOUS
<1>1. ASSUME UNCHANGED <<strategy, field, flight, posted, typed, stranded>> PROVE Once'
  <2>1. PICK S : S = Page(Shared)
    OBVIOUS
  <2>2. PICK U : U = Page(Shared)'
    OBVIOUS
  <2>3. S.field = field /\ S.flight = flight /\ U.field = field /\ U.flight = flight
    BY <1>1, <2>1, <2>2 DEF Page
  <2>4. U.stranded = S.stranded
    BY <1>1, <2>1, <2>2 DEF Page
  <2>5. \A c : Mine(U, c) = Mine(S, c) /\ (FreshFor(S, c) => FreshFor(U, c))
    BY <2>3 DEF Mine, FreshFor
  <2>6. Fresh(U)
    BY <2>1, <2>4, <2>5 DEF Once, Fresh, OrderlyIn, AloneIn
  <2>7. Fresh(U)'
    BY <1>1, <2>6, StaysFresh
  <2>8. \A c : /\ SyncElt(c)' = SyncElt(c) /\ (Alone(c)' <=> Alone(c))
               /\ (Above(c, typed + 1)' <=> Above(c, typed + 1))
    BY <1>1 DEF SyncElt, Orderly, Alone, NobodyAborts, Above
  <2> QED
    BY <1>1, <2>2, <2>7, <2>8 DEF Once
<1>2. CASE UNCHANGED vars
  BY <1>1, <1>2 DEF vars
<1>3. ASSUME NEW c \in Controls, Type(c) PROVE Once'
  BY <1>3, TypeOnce
<1>4. ASSUME NEW c \in Controls, Remove(c) PROVE Once'
  BY <1>1, <1>4 DEF Remove
<1>5. ASSUME NEW c \in Controls, NEW refused, Fire(c, refused) PROVE Once'
  <2>1. PICK k : k = SyncElt(c)
    OBVIOUS
  <2>2. PICK T : T = Issue(Page(k), c, refused)
    OBVIOUS
  <2>3. c \in inBody /\ Becomes(T, k) /\ UNCHANGED <<strategy, posted, typed>>
    BY <1>5, <2>1, <2>2 DEF Fire
  <2>4. k \in Locks /\ Settled(Page(k), k, stuck) /\ stuck \in Nat
    BY <2>1, SyncEltIsLock DEF Inv, AllSettled, TypeOK
  <2>5. Beside(Page(k), T, k) /\ Keeps(Page(k), T, k)
    BY <2>1, <2>2, <2>3, <2>4, IssueSettles
  <2> QED
    BY <2>3, <2>4, <2>5, BecomesOnce
<1>6. ASSUME NEW r \in flight, NEW refused, OnLoad(r, refused) \/ OnError(r, refused) PROVE Once'
  <2>0. PICK n \in Nat : \E E : EndsWith(r, refused, E, n)
    BY <1>6, OnLoadEnds, OnErrorEnds
  <2>1. PICK E : EndsWith(r, refused, E, n)
    BY <2>0
  <2>2. PICK k : k = SyncElt(r.ctl)
    OBVIOUS
  <2>3. PICK T : T = EndRequestLock(E, refused)
    OBVIOUS
  <2>4. k \in Locks
    BY <2>2, SyncEltIsLock DEF Inv, TypeOK, Requests
  <2>5. /\ Ending(E, k, n) /\ Beside(Page(k), E, k) /\ Keeps(Page(k), E, k)
        /\ Becomes(T, k) /\ UNCHANGED <<strategy, posted, typed>>
    BY <2>1, <2>2, <2>3 DEF EndsWith
  <2>6. Beside(E, T, k) /\ Keeps(E, T, k)
    BY <2>3, <2>4, <2>5, EndSettles
  <2>7. Beside(Page(k), T, k) /\ Keeps(Page(k), T, k)
    BY <2>5, <2>6, BesideTransitive, KeepsTransitive
  <2> QED
    BY <2>4, <2>5, <2>7, BecomesOnce
<1>7. ASSUME NEW r \in flight, Serve(r) PROVE Once'
  BY <1>7, ServeOnce
<1> QED
  BY <1>2, <1>3, <1>4, <1>5, <1>6, <1>7 DEF Next

(* However often its text is entered, and whatever is aborted, queued, lost *)
(* or fails, no message of a composer is posted twice or out of order.     *)
THEOREM NeverPostedTwice == Spec => []PostedOnce
<1>1. Inv /\ Once => PostedOnce
  BY DEF Once, PostedOnce
<1> QED
  BY <1>1, Invariant, InitOnce, NextOnce, PTL DEF Spec

-----------------------------------------------------------------------------
(* What is sent.  Composers have locks of their own, and empty their text  *)
(* areas, as in the chat page.                                             *)
AllOwn == \A c \in Composers : strategy[c] = "none" /\ c \notin Failing

(* Then the lock of a composer is used by nobody else, and never held by a *)
(* request that may be aborted.                                            *)
LEMMA OwnLock ==
    ASSUME AllOwn, NEW c \in Composers, NEW d \in Controls
    PROVE  /\ c \in Controls /\ SyncElt(c) = c /\ c # Shared
           /\ SyncElt(d) = c <=> d = c
BY ControlsAssumption DEF AllOwn, SyncElt

LEMMA OthersTextless ==
    ASSUME AllOwn, NEW c \in Controls, NEW S, c \in Composers => S.field[c] = 0
    PROVE  Textless(S, SyncElt(c))
BY ControlsAssumption DEF AllOwn, SyncElt, Textless

LEMMA FireCalm ==
    ASSUME Inv, SentWhenCalm, NEW c \in Controls, NEW refused, Fire(c, refused)
    PROVE  SentWhenCalm'
<1>1. strategy' = strategy
  BY DEF Fire
<1> SUFFICES ASSUME AllOwn PROVE sent' = calm'
  BY <1>1 DEF SentWhenCalm, AllOwn
<1>2. PICK k : k = SyncElt(c)
  OBVIOUS
<1>3. PICK S : S = Page(k)
  OBVIOUS
<1>4. PICK T : T = Issue(S, c, refused)
  OBVIOUS
<1>5. /\ TypeOK /\ k \in Locks /\ stuck \in Nat /\ Settled(S, k, stuck)
      /\ S \in PageType /\ S.flight = flight /\ S.field = field /\ S.sent = sent
  BY <1>2, <1>3, SyncEltIsLock, PageIsTyped DEF Inv, AllSettled, TypeOK
<1>6. c \in inBody /\ (c \in Composers => field[c] # 0) /\ sent' = T.sent
  BY <1>2, <1>3, <1>4 DEF Fire, Becomes
<1>7. /\ sent = calm
      /\ calm' = IF c \in Composers \ refused /\ ~\E r \in flight : r.ctl = c
                   THEN calm \cup {field[c]} ELSE calm
  BY DEF SentWhenCalm, AllOwn, Fire
<1>8. CASE c \notin Composers
  <2>1. Textless(S, k)
    BY <1>2, <1>8, OthersTextless
  <2>2. Keeps(S, T, k)
    BY <1>2, <1>4, <1>5, <1>6, IssueSettles
  <2> QED
    BY <1>5, <1>6, <1>7, <1>8, <2>1, <2>2 DEF Keeps
<1>9. CASE c \in Composers
  <2>1. k = c /\ k # Shared /\ strategy[c] = "none"
    BY <1>2, <1>9, OwnLock DEF AllOwn
  <2>2. OrderlyIn(S, k) /\ AloneIn(S, k) /\ Present(k)
    BY <1>6, <2>1 DEF OrderlyIn, AloneIn, Present
  <2>3. \A r \in Of(S, k) : r \in flight /\ r.ctl = c
    BY <1>5, <1>9, <2>1, OwnLock DEF Of, TypeOK, Requests
  <2>4. \A r \in flight : r.ctl = c => r \in Of(S, k)
    BY <1>2, <1>5 DEF Of
  <2>5. ~S.lock.abortable
    <3>1. S.lock.abortable => \E d \in Controls : SyncElt(d) = k /\ strategy[d] = "abort"
      BY <1>5 DEF Settled, Sound
    <3> QED
      BY <1>9, <2>1, <3>1, OwnLock
  <2>6. T = IF TurnedAway(c, refused) THEN S
            ELSE IF S.lock.xhr = 0 THEN Acquire(S, c, refused) ELSE Enqueue(S, c)
    BY <1>4, <2>1, <2>5 DEF Issue
  <2>9. CASE TurnedAway(c, refused)
    <3>1. c \in refused
      BY <1>6, <2>9 DEF TurnedAway
    <3> QED
      BY <1>5, <1>6, <1>7, <2>6, <2>9, <3>1
  <2>7. CASE ~TurnedAway(c, refused) /\ S.lock.xhr # 0
    <3>1. \E r \in flight : r.ctl = c
      BY <1>5, <2>3, <2>7 DEF Settled
    <3>2. calm' = calm
      BY <1>7, <3>1
    <3>3. Enqueue(S, c).sent = S.sent
      BY <1>2, <1>5, <1>6, <2>1, <2>5, <2>7, EnqueueSettles
    <3> QED
      BY <1>5, <1>6, <1>7, <2>6, <2>7, <3>2, <3>3
  <2>8. CASE ~TurnedAway(c, refused) /\ S.lock.xhr = 0
    <3>1. ~\E r \in flight : r.ctl = c
      <4>1. \A r \in Of(S, k) : r.id = 0 /\ 1 <= r.id
        BY <1>5, <2>2, <2>8 DEF Settled, Sound, Counted, Of
      <4> QED
        BY <2>4, <4>1
    <3>2. T = Acquire(S, c, refused)
      BY <2>6, <2>8
    <3>3. CASE c \in refused
      <4>1. T = EndRequestLock(S, refused)
        BY <3>2, <3>3 DEF Acquire, Halts
      <4>2. S.lock.queue = <<>>
        BY <1>5, <2>2, <2>8 DEF Settled
      <4>3. T.sent = S.sent
        BY <1>5, <4>1, <4>2, EndsFree
      <4> QED
        BY <1>5, <1>6, <1>7, <3>3, <4>3
    <3>4. CASE c \notin refused
      <4>1. InputText(S, c) = field[c] /\ field[c] # 0
        BY <1>5, <1>6, <1>9 DEF InputText
      <4>2. T = Send(S, c)
        BY <3>2, <3>4, <4>1 DEF Acquire, Halts, Invalid
      <4>3. T.sent = S.sent \cup ({field[c]} \ {0})
        <5>1. Send(S, c).sent = S.sent \cup ({InputText(S, c)} \ {0})
          BY <1>5, SendFields
        <5> QED
          BY <4>1, <4>2, <5>1
      <4>4. calm' = calm \cup {field[c]}
        BY <1>7, <1>9, <3>1, <3>4
      <4> QED
        BY <1>5, <1>6, <1>7, <4>1, <4>3, <4>4
    <3> QED
      BY <3>3, <3>4
  <2> QED
    BY <2>7, <2>8, <2>9
<1> QED
  BY <1>8, <1>9

(* The end of a request sends no text: the text area is empty by then.     *)
LEMMA EndCalm ==
    ASSUME Inv, SentWhenCalm, NEW r \in flight, NEW refused, NEW n \in Nat, NEW E,
           EndsWith(r, refused, E, n)
    PROVE  SentWhenCalm'
<1>1. strategy' = strategy /\ calm' = calm
  BY DEF EndsWith
<1> SUFFICES ASSUME AllOwn PROVE sent' = calm'
  BY <1>1 DEF SentWhenCalm, AllOwn
<1>2. PICK k : k = SyncElt(r.ctl)
  OBVIOUS
<1>3. PICK T : T = EndRequestLock(E, refused)
  OBVIOUS
<1>4. r.ctl \in Controls /\ k \in Locks
  BY <1>2, SyncEltIsLock DEF Inv, TypeOK, Requests
<1>5. /\ Ending(E, k, n) /\ E.sent = sent /\ sent' = T.sent
      /\ r.ctl \in Composers \ Failing => E.field[r.ctl] = 0
  BY <1>2, <1>3 DEF EndsWith, Becomes
<1>6. Textless(E, k)
  <2>1. r.ctl \in Composers => E.field[r.ctl] = 0
    BY <1>5 DEF AllOwn
  <2> QED
    BY <1>2, <1>4, <2>1, OthersTextless
<1>7. Keeps(E, T, k)
  BY <1>3, <1>4, <1>5, EndSettles
<1> QED
  BY <1>1, <1>5, <1>6, <1>7 DEF Keeps, SentWhenCalm, AllOwn

LEMMA NextCalm == Inv /\ SentWhenCalm /\ [Next]_vars => SentWhenCalm'
<1> SUFFICES ASSUME Inv, SentWhenCalm, [Next]_vars PROVE SentWhenCalm'
  OBVIOUS
<1>1. ASSUME UNCHANGED <<strategy, sent, calm>> PROVE SentWhenCalm'
  BY <1>1 DEF SentWhenCalm
<1>2. CASE UNCHANGED vars
  BY <1>1, <1>2 DEF vars
<1>3. ASSUME NEW c \in Controls, Type(c) \/ Remove(c) PROVE SentWhenCalm'
  BY <1>1, <1>3 DEF Type, Remove
<1>4. ASSUME NEW r \in flight, Serve(r) PROVE SentWhenCalm'
  BY <1>1, <1>4 DEF Serve
<1>5. ASSUME NEW c \in Controls, NEW refused, Fire(c, refused) PROVE SentWhenCalm'
  BY <1>5, FireCalm
<1>6. ASSUME NEW r \in flight, NEW refused, OnLoad(r, refused) \/ OnError(r, refused)
      PROVE  SentWhenCalm'
  BY <1>6, OnLoadEnds, OnErrorEnds, EndCalm
<1> QED
  BY <1>2, <1>3, <1>4, <1>5, <1>6 DEF Next

(* Where composers have locks of their own, exactly the texts entered      *)
(* while no request of the composer is in flight are sent.                 *)
THEOREM CalmIsSent == Spec => []SentWhenCalm
<1>1. Init => SentWhenCalm
  BY DEF Init, SentWhenCalm
<1> QED
  BY <1>1, Invariant, NextCalm, PTL DEF Spec
=============================================================================
