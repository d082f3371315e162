------------------------------- MODULE MCHub -------------------------------
(* Instances of Hub for TLC.                                               *)
EXTENDS Hub, TLC

CONSTANTS web, web2, api, u1, u2

(* One connection; or two HTML connections and one that takes JSON.        *)
OneWeb     == {web}
TwoWeb     == {web, web2}
AllClients == {web, web2, api}

OneSender  == {u1}
TwoSenders == {u1, u2}

(* Two HTML connections, and two users, are interchangeable. *)
WebSenderSymmetry == Permutations(TwoWeb) \cup Permutations(TwoSenders)

(* Bound on what happens in one behaviour: connections (two at most),      *)
(* users who post, messages and departures, with a shutdown counting for   *)
(* two, are six together.                                                  *)
Connected == Cardinality({s \in Clients : pump[s] # "idle"})
Gone      == Cardinality({s \in Clients : ctxDone[s]})
Posters   == Cardinality({w \in Senders : handler[w] = "saved"
                             \/ \E n \in 1..lastId : Message(w, n) \in Elements(Broadcasted)})
Shutdown  == IF stop THEN 2 ELSE 0
Budget    == Connected <= 2 /\ Connected + Posters + lastId + Gone + Shutdown <= 6
=============================================================================
