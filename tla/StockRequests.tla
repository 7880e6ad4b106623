---------------------------- MODULE StockRequests ----------------------------
(***************************************************************************)
(* The requests that reach InventoryOperationService: which rows of the    *)
(* inventory table each kind touches, and the order in which the callers   *)
(* walk through the lines of a document.                                   *)
(*                                                                         *)
(* A row of the table (model Inventory, unique on productId and            *)
(* locationId) is a cell <<product, location>>.  Ids are naturals, because *)
(* all that the code does with them is compare them.                       *)
(***************************************************************************)
EXTENDS Integers, Sequences, FiniteSets

CONSTANTS
  Product,      \* ids of products
  Location,     \* ids of locations
  WarehouseOf,  \* the warehouse of each location
  Kinds,        \* the kinds of request that clients send in this instance
  MaxQuantity,  \* bound: the largest quantity of a line
  Proc          \* HTTP requests that the API may be serving at one time

KindNames == {"IN", "RECEIVE", "SALE", "OUT", "TRANSFER", "ADJUST", "AMEND"}

ASSUME KindsAssumption == Kinds \subseteq KindNames
ASSUME MaxQuantityAssumption == MaxQuantity \in Nat
ASSUME IdsAssumption == Product \subseteq Nat /\ Location \subseteq Nat

Cell == Product \X Location
Quantity == 1 .. MaxQuantity

-----------------------------------------------------------------------------
(* A variant that compares the products only. *)
BeforeByProduct(a, b) == a[1] < b[1]

(* inLockOrder compares the product first and then the location. *)
Before(a, b) == a[1] < b[1] \/ (a[1] = b[1] /\ a[2] < b[2])

SameWarehouse(l) == {m \in Location : WarehouseOf[m] = WarehouseOf[l]}

-----------------------------------------------------------------------------
(* A transaction is a sequence of passes.  A pass is a set of statements   *)
(* that the code executes in lock order, one after the other.              *)
(*   add        quantity += n (n < 0 for a sale), logged as n              *)
(*   take       the conditional decrement: only while quantity >= n        *)
(*   read       ADJUST reads the row it is going to overwrite              *)
(*   negatives  zeroOutNegatives looks for the negative rows of a product  *)
(*   set        quantity := n, logged as n - seen, the value read before   *)

Add(c, n)       == [op |-> "add", cell |-> c, n |-> n, seen |-> 0]
Take(c, n)      == [op |-> "take", cell |-> c, n |-> n, seen |-> 0]
Read(c, n)      == [op |-> "read", cell |-> c, n |-> n, seen |-> 0]
Negatives(c)    == [op |-> "negatives", cell |-> c, n |-> 0, seen |-> 0]
Set(c, n, seen) == [op |-> "set", cell |-> c, n |-> n, seen |-> seen]

(* The lines of one document: at most one line for a cell, createInvoice   *)
(* refuses two of them (DUPLICATE_LINE).                                   *)
Documents ==
  UNION {[S -> Quantity] : S \in {T \in SUBSET Cell : T # {} /\ Cardinality(T) <= 2}}

(* The transaction of each kind of request.                                *)
Count(c, q)            == <<{Negatives(c)}, {Add(c, q)}>>
Receipt(d)             == <<{Add(c, d[c]) : c \in DOMAIN d}>>
Invoice(d)             == <<{Add(c, -d[c]) : c \in DOMAIN d}>>
Withdrawal(d)          == <<{Take(c, d[c]) : c \in DOMAIN d}>>
Transfer(from, to, q)  == <<{Take(from, q)}, {Add(to, q)}>>
Adjustment(c, n)       == <<{Read(c, n)}>>
(* An amendment runs two lock-ordered loops one after the other: the lines  *)
(* whose quantity changed, then the lines that were added.                 *)
Amendment(a, n, b)     == <<{Add(a, n)}, {Add(b, -1)}>>

Target == 0 .. MaxQuantity
Difference == (-MaxQuantity .. MaxQuantity) \ {0}

ClearingReceipts == {Count(c, q) : c \in Cell, q \in Quantity}
PlainReceipts    == {Receipt(d) : d \in Documents}
Invoices         == {Invoice(d) : d \in Documents}
Withdrawals      == {Withdrawal(d) : d \in Documents}
Transfers        ==
  {Transfer(e[1], e[2], q) : e \in {f \in Cell \X Cell : f[1] # f[2] /\ f[1][1] = f[2][1]},
                             q \in Quantity}
Adjustments      == {Adjustment(c, n) : c \in Cell, n \in Target}
Amendments       == {Amendment(a, n, b) : a \in Cell, n \in Difference, b \in Cell}

(* A request: its kind, and the passes of its transaction.                  *)
(* RECEIVE stands for RETURN, for the IN lines of a purchase invoice and for an IN   *)
(* with clearNegative = false: the three add, and clear nothing.           *)
Requests ==
  UNION {{"IN"} \X ClearingReceipts,
         {"RECEIVE"} \X PlainReceipts,
         {"SALE"} \X Invoices,
         {"OUT"} \X Withdrawals,
         {"TRANSFER"} \X Transfers,
         {"ADJUST"} \X Adjustments,
         {"AMEND"} \X Amendments}

(* The requests of this instance; an idle process serves none. *)
Served == {r \in Requests : r[1] \in Kinds}
Idle == <<"idle", << >>>>
=============================================================================
