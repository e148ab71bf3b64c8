------------------------------- MODULE SeatMap -------------------------------
(***************************************************************************)
(* What a seat-mapped trip promises its passengers: a seat is held by one  *)
(* booking at a time, a held seat is sold or given back, and a seat once   *)
(* sold stays with its booking and can be neither taken nor set aside.     *)
(***************************************************************************)
CONSTANTS Bookings, Seats, NoPlace

VARIABLES st,       \* per booking: new, held, sold or gone
          at,       \* the seat it asked for
          aside     \* the seats the operator has set aside

svars == <<st, at, aside>>

Init ==
    /\ st = [b \in Bookings |-> "new"]
    /\ at = [b \in Bookings |-> NoPlace]
    /\ aside \in SUBSET Seats

Taken(n) == \E b \in Bookings : at[b] = n /\ st[b] \in {"held", "sold"}

Take(b, n) ==
    /\ st[b] = "new" /\ ~Taken(n) /\ n \notin aside
    /\ st' = [st EXCEPT ![b] = "held"]
    /\ at' = [at EXCEPT ![b] = n]
    /\ UNCHANGED aside

Sell(b) ==
    /\ st[b] = "held"
    /\ st' = [st EXCEPT ![b] = "sold"]
    /\ UNCHANGED <<at, aside>>

GiveBack(b) ==
    /\ st[b] = "held"
    /\ st' = [st EXCEPT ![b] = "gone"]
    /\ UNCHANGED <<at, aside>>

SetAside(n) ==
    /\ ~Taken(n) /\ n \notin aside
    /\ aside' = aside \cup {n}
    /\ UNCHANGED <<st, at>>

PutBack(n) ==
    /\ n \in aside
    /\ aside' = aside \ {n}
    /\ UNCHANGED <<st, at>>

Next ==
    \/ \E b \in Bookings :
         \/ Sell(b) \/ GiveBack(b)
         \/ \E n \in Seats : Take(b, n)
    \/ \E n \in Seats : SetAside(n) \/ PutBack(n)

Spec == Init /\ [][Next]_svars
=============================================================================
