------------------------------- MODULE Topic -------------------------------
(***************************************************************************)
(* What the chat server promises the readers of its message stream: one    *)
(* topic, one order.  Posts are numbered when they are accepted, each is   *)
(* published once by the writer that owes it, and every reader sees the    *)
(* topic from the place where it joined, item by item in the order of the  *)
(* topic, with nothing twice.  An item may be left out for one reader; it  *)
(* is never made up for later.                                             *)
(*                                                                         *)
(* Channels, goroutines and shutdown are the business of module Hub, which *)
(* implements this one.                                                    *)
(***************************************************************************)
EXTENDS Integers, Sequences

CONSTANTS Readers, Writers

VARIABLES
    topic,     \* everything published so far
    accepted,  \* number of posts accepted
    owed,      \* the post a writer has still to publish, 0 for none
    present,   \* readers that have joined and not left
    cursor,    \* how far into the topic a reader has been served
    inbox      \* what a reader was given

vars == <<topic, accepted, owed, present, cursor, inbox>>

Post(w, n)   == [kind |-> "message", from |-> w, id |-> n]
Notice(k, r) == [kind |-> k, from |-> r, id |-> 0]

Init ==
    /\ topic    = <<>>
    /\ accepted = 0
    /\ owed     = [w \in Writers |-> 0]
    /\ present  = {}
    /\ cursor   = [r \in Readers |-> 0]
    /\ inbox    = [r \in Readers |-> <<>>]

(* A post is accepted and gets the next number. *)
Accept(w) ==
    /\ owed[w] = 0
    /\ accepted' = accepted + 1
    /\ owed'     = [owed EXCEPT ![w] = accepted + 1]
    /\ UNCHANGED <<topic, present, cursor, inbox>>

(* The writer publishes the post it owes. *)
Publish(w) ==
    /\ owed[w] # 0
    /\ topic' = Append(topic, Post(w, owed[w]))
    /\ owed'  = [owed EXCEPT ![w] = 0]
    /\ UNCHANGED <<accepted, present, cursor, inbox>>

(* The topic itself says who comes and goes: join for a reader that is     *)
(* present, leave for one that is not.                                     *)
Announce(r) ==
    /\ topic' = Append(topic, Notice(IF r \in present THEN "join" ELSE "leave", r))
    /\ UNCHANGED <<accepted, owed, present, cursor, inbox>>

(* A reader joins somewhere in the topic: what is before is not for it.    *)
Join(r) ==
    /\ r \notin present
    /\ present' = present \cup {r}
    /\ \E c \in 0..Len(topic) : cursor' = [cursor EXCEPT ![r] = c]
    /\ UNCHANGED <<topic, accepted, owed, inbox>>

Leave(r) ==
    /\ r \in present
    /\ present' = present \ {r}
    /\ cursor'  = [cursor EXCEPT ![r] = 0]
    /\ UNCHANGED <<topic, accepted, owed, inbox>>

(* A present reader's next item is given to it, or left out.               *)
Serve(r) ==
    /\ r \in present
    /\ cursor[r] < Len(topic)
    /\ cursor' = [cursor EXCEPT ![r] = @ + 1]
    /\ \/ inbox' = [inbox EXCEPT ![r] = Append(@, topic[cursor[r] + 1])]
       \/ UNCHANGED inbox
    /\ UNCHANGED <<topic, accepted, owed, present>>

Next ==
    \/ \E w \in Writers : Accept(w) \/ Publish(w)
    \/ \E r \in Readers : Announce(r) \/ Join(r) \/ Leave(r) \/ Serve(r)

Spec == Init /\ [][Next]_vars
=============================================================================
