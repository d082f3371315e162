------------------------------ MODULE Delivery ------------------------------
(***************************************************************************)
(* What a user gets to see: the stored history (Store.Sync) and the live   *)
(* stream of the hub, put together by the two kinds of reader.             *)
(*                                                                         *)
(*   - A web page is served with the history, which HandleIndexOrLogin     *)
(*     reads, and opens its stream afterwards.                             *)
(*   - grunt recv connects first, waits for Connect to return, and only    *)
(*     then asks for the history.                                          *)
(* Which kind a reader is does not depend on the format of its stream:     *)
(* that decides how a frame is rendered, not whether it arrives.           *)
(*                                                                         *)
(* Connect returns when the response headers arrive.  The server sends     *)
(* them with the first flush, that is, with the first frame the pump has   *)
(* written: HandleSSEStream itself neither writes nor flushes.             *)
(*                                                                         *)
(* The module composes Hub, whose steps it takes unchanged except that a   *)
(* connection begins only when its reader opens it.  Ids are consecutive   *)
(* and no message is ever deleted, so the messages table is 1..lastId.     *)
(***************************************************************************)
EXTENDS Hub

CONSTANT
    HistoryLimit  \* the limit given to Sync (50 for the page, 10 for recv)

ASSUME LimitAssumption == HistoryLimit \in Nat \ {0}

VARIABLES
    page,      \* the readers that are web pages; the others are recv
    reader,    \* where each connection's reader is: "closed", "loaded" (a page),
               \* "connecting", "connected" (recv), "showing" or "nohistory"
    history,   \* ids of the messages the reader got from Sync
    storedAt   \* history: lastId when Sync was evaluated

readerVars   == <<page, reader, history, storedAt>>
deliveryVars == <<vars, readerVars>>

-----------------------------------------------------------------------------
(* Mutated forms: bugs this code could have.                               *)

(* The inner query sorts ascending: the oldest messages are returned.      *)
Sync_Oldest(since, limit) ==
    {id \in (since + 1)..lastId : limit > 0 => id <= since + limit}

(* HandleSSEStream flushes the headers before it registers.                *)
HeadersArrived_AtOnce(s) == pump[s] # "idle"

-----------------------------------------------------------------------------
(* Store.Sync(since, limit): the ids above since, and of those only the    *)
(* newest when there is a limit.  The result is in the order of the ids.   *)
Sync(since, limit) ==
    {id \in (since + 1)..lastId : limit > 0 => id > lastId - limit}

DeliveryInit ==
    /\ Init
    /\ page     = {}
    /\ reader   = [s \in Clients |-> "closed"]
    /\ history  = [s \in Clients |-> {}]
    /\ storedAt = [s \in Clients |-> 0]

(* The first frame has been written and flushed.                           *)
HeadersArrived(s) == Written(s) # {}

(* HandleIndexOrLogin: GET / by a logged-in user.                          *)
LoadPage(s) ==
    /\ reader[s] = "closed"
    /\ page'     = page \cup {s}
    /\ reader'   = [reader EXCEPT ![s] = "loaded"]
    /\ history'  = [history EXCEPT ![s] = Sync(0, HistoryLimit)]
    /\ storedAt' = [storedAt EXCEPT ![s] = lastId]
    /\ UNCHANGED vars

(* The page's sse-connect, or Client.Connect: GET /messages/stream.        *)
OpenStream(s) ==
    /\ reader[s] \in {"closed", "loaded"}
    /\ reader' = [reader EXCEPT ![s] = "connecting"]
    /\ HandleSSEStream(s)
    /\ UNCHANGED <<page, history, storedAt>>

(* The headers have arrived: Connect returns; the page shows history and   *)
(* stream.                                                                 *)
Connected(s) ==
    /\ reader[s] = "connecting"
    /\ HeadersArrived(s)
    /\ reader' = [reader EXCEPT ![s] =
                    IF s \in page THEN "showing" ELSE "connected"]
    /\ UNCHANGED <<vars, page, history, storedAt>>

(* recv's SyncHistory(0), answered by SyncMessages.                        *)
SyncHistory(s) ==
    /\ reader[s] = "connected"
    /\ reader'   = [reader EXCEPT ![s] = "showing"]
    /\ history'  = [history EXCEPT ![s] = Sync(0, HistoryLimit)]
    /\ storedAt' = [storedAt EXCEPT ![s] = lastId]
    /\ UNCHANGED <<vars, page>>

(* The request fails: recv logs that and goes on without history.          *)
SyncHistoryFails(s) ==
    /\ reader[s] = "connected"
    /\ reader' = [reader EXCEPT ![s] = "nohistory"]
    /\ UNCHANGED <<vars, page, history, storedAt>>

(* A step of the server, of another client, or of a sender.                *)
HubStep ==
    /\ Next
    /\ \A s \in Clients : pump[s] = "idle" => pump'[s] = "idle"
    /\ UNCHANGED readerVars

DeliveryNext ==
    \/ \E s \in Clients :
         \/ LoadPage(s) \/ OpenStream(s) \/ Connected(s)
         \/ SyncHistory(s) \/ SyncHistoryFails(s)
    \/ HubStep

DeliverySpec == DeliveryInit /\ [][DeliveryNext]_deliveryVars

-----------------------------------------------------------------------------
(* What a reader sees.                                                     *)

IdsOf(items) == {item.id : item \in {i \in items : i.kind = "message"}}

(* Ids on s's stream, sent to it or waiting in its buffer.                 *)
Live(s) == IdsOf(Elements(ItemsOf(Stream(s))))

(* Messages that are still on their way to s: their request has not handed *)
(* them over, they wait for the Run loop, or the fan-out has not reached s. *)
OnTheWay(s) ==
    {msgId[w] : w \in {v \in Senders : handler[v] = "saved"}}
      \cup IdsOf(Elements(broadcast))
      \cup IF run = "deliver" /\ s \in todo THEN IdsOf({frame.item}) ELSE {}

(* Stored messages that s neither shows nor will be sent, although no full *)
(* buffer discarded them.                                                  *)
Missing(s) ==
    ((1..lastId) \ (history[s] \cup Live(s) \cup OnTheWay(s))) \ IdsOf(dropped[s])

(* Messages that history leaves out because there are HistoryLimit newer   *)
(* ones: the reader does not ask for them.                                 *)
TooOld(s) == {id \in 1..storedAt[s] : id <= storedAt[s] - HistoryLimit}

-----------------------------------------------------------------------------
(* Properties.                                                             *)

(* grunt recv starts to listen before it fetches the history "to avoid     *)
(* race condition": between history and stream it misses nothing.          *)
RecvMissesNothing ==
    \A s \in subscribers \ page :
        reader[s] = "showing" => Missing(s) \subseteq TooOld(s)

(* A page misses only what was both stored after its history was read and  *)
(* broadcast before its stream was registered; it shows all that had been  *)
(* stored when it was loaded, also what was then still to be broadcast.    *)
PageMissesOnlyWhileOpening ==
    \A s \in subscribers \cap page :
        Missing(s) \subseteq
            TooOld(s) \cup (IdsOf(Elements(SubSeq(log, 1, regAt[s])))
                              \ (1..storedAt[s]))
=============================================================================
