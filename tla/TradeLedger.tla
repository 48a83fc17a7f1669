---------------------------- MODULE TradeLedger ----------------------------
(***************************************************************************)
(* What the order log promises a reader, candidate by candidate: an order  *)
(* is sent, the venue's verdict on it is written down, and a trade that    *)
(* was entered is booked once it is over.  A trade that is held is never   *)
(* sent again before it has been booked, nothing is booked that was not    *)
(* held, and no verdict is written on an order that was never sent.        *)
(***************************************************************************)
CONSTANT Keys
VARIABLE books

States == {"none", "sent", "dead", "held", "booked"}

Init == books = [k \in Keys |-> "none"]

Send(k) ==
  /\ books[k] # "held"
  /\ books' = [books EXCEPT ![k] = "sent"]

Settle(k, verdict) ==
  /\ books[k] = "sent"
  /\ books' = [books EXCEPT ![k] = verdict]

Book(k) ==
  /\ books[k] = "held"
  /\ books' = [books EXCEPT ![k] = "booked"]

Next ==
  \E k \in Keys : \/ Send(k)
                  \/ \E verdict \in {"dead", "held"} : Settle(k, verdict)
                  \/ Book(k)

Spec == Init /\ [][Next]_books
=============================================================================
