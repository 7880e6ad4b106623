----------------------------- MODULE AtomicStock -----------------------------
(***************************************************************************)
(* What InventoryOperationService promises to its callers: a request takes *)
(* effect at one instant or not at all, a withdrawal or a transfer only    *)
(* from rows that hold enough, and the log is booked together with the     *)
(* stock.  Nothing here knows of statements, row versions or locks.        *)
(***************************************************************************)
EXTENDS StockRequests

CONSTANT InitialStock

VARIABLES
  stock,   \* the quantity of each row
  booked,  \* the sum of its log
  asked    \* the request each process is serving, or Idle

avars == <<stock, booked, asked>>

AInit ==
  /\ stock = InitialStock
  /\ booked = InitialStock
  /\ asked = [p \in Proc |-> Idle]

(* Every row changes by its entry of delta, and so does its log. *)
Change(delta) ==
  /\ stock' = [c \in Cell |-> stock[c] + delta[c]]
  /\ booked' = [c \in Cell |-> booked[c] + delta[c]]

(* The rows of a document change by sign times the quantity of their line. *)
On(d, sign) == [c \in Cell |-> IF c \in DOMAIN d THEN sign * d[c] ELSE 0]

Receive(r) ==
  \E d \in Documents : r = <<"RECEIVE", Receipt(d)>> /\ Change(On(d, 1))

Sell(r) ==
  \E d \in Documents : r = <<"SALE", Invoice(d)>> /\ Change(On(d, -1))

Withdraw(r) ==
  \E d \in Documents :
    /\ r = <<"OUT", Withdrawal(d)>>
    /\ \A c \in DOMAIN d : stock[c] >= d[c]
    /\ Change(On(d, -1))

Move(r) ==
  \E from, to \in Cell, q \in Quantity :
    /\ r = <<"TRANSFER", Transfer(from, to, q)>>
    /\ stock[from] >= q
    /\ Change([c \in Cell |-> IF c = from THEN -q ELSE IF c = to THEN q ELSE 0])

Amend(r) ==
  \E a, b \in Cell, n \in Difference :
    /\ r = <<"AMEND", Amendment(a, n, b)>>
    /\ Change([c \in Cell |-> (IF c = a THEN n ELSE 0) - (IF c = b THEN 1 ELSE 0)])

(* The receipt of a count: the negative rows of the product in the same    *)
(* warehouse become zero, and what was counted is added.                   *)
CountIn(r) ==
  \E t \in Cell, q \in Quantity :
    /\ r = <<"IN", Count(t, q)>>
    /\ Change([c \in Cell |->
                 (IF c[1] = t[1] /\ c[2] \in SameWarehouse(t[2]) /\ stock[c] < 0
                    THEN - stock[c] ELSE 0) + (IF c = t THEN q ELSE 0)])

Correct(r) ==
  \E t \in Cell, n \in Target :
    /\ r = <<"ADJUST", Adjustment(t, n)>>
    /\ Change([c \in Cell |-> IF c = t THEN n - stock[c] ELSE 0])

(* A request arrives; its effect happens as it is answered, unless it is   *)
(* refused or fails, and then nothing happens.                             *)
Ask(p) ==
  /\ asked[p] = Idle
  /\ \E r \in Served : asked' = [asked EXCEPT ![p] = r]
  /\ UNCHANGED <<stock, booked>>

Perform(p) ==
  LET r == asked[p]
  IN  /\ Receive(r) \/ Sell(r) \/ Withdraw(r) \/ Move(r) \/ Amend(r) \/ CountIn(r) \/ Correct(r)
      /\ asked' = [asked EXCEPT ![p] = Idle]

Refuse(p) ==
  /\ asked[p] # Idle
  /\ asked' = [asked EXCEPT ![p] = Idle]
  /\ UNCHANGED <<stock, booked>>

ANext == \E p \in Proc : Ask(p) \/ Perform(p) \/ Refuse(p)

ASpec == AInit /\ [][ANext]_avars
=============================================================================
