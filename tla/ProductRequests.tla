-------------------------- MODULE ProductRequests --------------------------
(***************************************************************************)
(* ProductRequestsService: a worker asks for a product that the catalogue  *)
(* does not have; approving the request creates the product, puts its      *)
(* first goods on the shelf, queues its labels and links the two.  Only    *)
(* the claim keeps two managers apart; every await is a step, and between  *)
(* any two of them other requests run, a call fails or the API stops.      *)
(* The jobs are those of PrintJobs: at most one for each product.          *)
(***************************************************************************)
EXTENDS PrintJobs, FiniteSetsExt

CONSTANTS
  Request,
  Boxes,      \* the barcodes workers scan
  BoxOf,      \* what was scanned for each request
  Located,    \* the requests made at a known location
  NoRequest,  \* not a Request
  NoProduct,  \* not a Product
  Manager     \* requests of managers the API may be serving at one time

Product == Job

ASSUME BoxOfAssumption == BoxOf \in [Request -> Boxes]
ASSUME NoRequestAssumption == NoRequest \notin Request
ASSUME NoProductAssumption == NoProduct \notin Product

VARIABLES
  status,     \* of each request, "NONE" until its phone has sent it
  created,    \* createdProductId of each request
  product,    \* the request a product was made for, its number, its barcode
  stock,      \* how often its first goods were booked
  manager,    \* the requests of managers being served
  orphans,    \* history: products whose approval broke off after making them
  unsettled   \* history: requests whose claim nobody could take back

rows == <<status, created, product, stock>>
vars == <<rows, manager, orphans, unsettled, jobVars, errors>>

Out == [at |-> "away", request |-> NoRequest, product |-> NoProduct, sku |-> 0, free |-> FALSE]
Unmade == [request |-> NoRequest, sku |-> 0, box |-> {}]

Init ==
  /\ JobsInit
  /\ status = [r \in Request |-> "NONE"]
  /\ created = [r \in Request |-> NoProduct]
  /\ product = [p \in Product |-> Unmade]
  /\ stock = [p \in Product |-> 0]
  /\ manager = [m \in Manager |-> Out]
  /\ orphans = {} /\ unsettled = {}

-----------------------------------------------------------------------------
Is(m, label) == manager[m].at = label
Of(m) == manager[m].request
Made == {p \in Product : product[p] # Unmade}
Owned(box) == \E p \in Made : box \in product[p].box
StepsTo(m, label) == manager' = [manager EXCEPT ![m].at = label]
Leaves(m) == manager' = [manager EXCEPT ![m] = Out]
Still == UNCHANGED <<orphans, unsettled>>
Quiet == Still /\ UNCHANGED jobVars /\ Works

(* create: a phone sends a request.  Nothing in it names what was          *)
(* captured, so that sending it again makes another request for the box.   *)
Create(r) ==
  /\ status[r] = "NONE"
  /\ status' = [status EXCEPT ![r] = "PENDING"]
  /\ UNCHANGED <<created, product, stock, manager>> /\ Quiet

(* approve; create of a manager's phone calls it at once. *)
ApproveReads(m, r) ==
  /\ Is(m, "away") /\ status[r] = "PENDING"
  /\ manager' = [manager EXCEPT ![m] = [Out EXCEPT !.at = "claiming", !.request = r]]
  /\ UNCHANGED rows /\ Quiet

(* A variant without the condition of the update.                          *)
ClaimsAnyway(m) ==
  /\ Is(m, "claiming")
  /\ status' = [status EXCEPT ![Of(m)] = "APPROVED"]
  /\ StepsTo(m, "numbering")
  /\ UNCHANGED <<created, product, stock>> /\ Quiet

Claims(m) ==
  /\ Is(m, "claiming")
  /\ \/ /\ status[Of(m)] = "PENDING"
        /\ status' = [status EXCEPT ![Of(m)] = "APPROVED"]
        /\ StepsTo(m, "numbering")
     \/ status[Of(m)] # "PENDING" /\ Leaves(m) /\ UNCHANGED status
  /\ UNCHANGED <<created, product, stock>> /\ Quiet

(* nextSku: one more than the largest number. *)
ReadsSku(m) ==
  /\ Is(m, "numbering")
  /\ manager' = [manager EXCEPT ![m].at = "scanning", ![m].sku =
       1 + Max({product[p].sku : p \in Made} \cup {0})]
  /\ UNCHANGED rows /\ Quiet

(* A variant that does not attach the barcode of the box.                  *)
ForgetsBox(m) ==
  /\ Is(m, "scanning")
  /\ manager' = [manager EXCEPT ![m].at = "creating"]
  /\ UNCHANGED rows /\ Quiet

ReadsBox(m) ==
  /\ Is(m, "scanning")
  /\ manager' = [manager EXCEPT ![m].at = "creating", ![m].free = ~ Owned(BoxOf[Of(m)])]
  /\ UNCHANGED rows /\ Quiet

(* The number and the barcodes of a product are unique in the database: a  *)
(* product made in the meantime may have taken what was read.              *)
CreatesProduct(m, p) ==
  /\ Is(m, "creating") /\ p \notin Made
  /\ manager[m].sku \notin {product[q].sku : q \in Made}
  /\ manager[m].free => ~ Owned(BoxOf[Of(m)])
  /\ product' = [product EXCEPT ![p] =
       [request |-> Of(m), sku |-> manager[m].sku,
        box |-> IF manager[m].free THEN {BoxOf[Of(m)]} ELSE {}]]
  /\ manager' = [manager EXCEPT ![m].at = "stocking", ![m].product = p]
  /\ UNCHANGED <<status, created, stock>> /\ Quiet

Clashes(m) ==
  /\ Is(m, "creating")
  /\ \/ manager[m].sku \in {product[q].sku : q \in Made}
     \/ manager[m].free /\ Owned(BoxOf[Of(m)])
  /\ StepsTo(m, "undoing")
  /\ UNCHANGED rows /\ Quiet

(* One transaction of StockLedger, if the location is known. *)
Stocks(m) ==
  /\ Is(m, "stocking")
  /\ stock' = IF Of(m) \in Located THEN [stock EXCEPT ![manager[m].product] = @ + 1] ELSE stock
  /\ StepsTo(m, "labelling")
  /\ UNCHANGED <<status, created, product>> /\ Quiet

Labels(m) ==
  /\ Is(m, "labelling")
  /\ Enqueued(manager[m].product)
  /\ StepsTo(m, "linking")
  /\ UNCHANGED rows /\ Still /\ Works

Links(m) ==
  /\ Is(m, "linking")
  /\ created' = [created EXCEPT ![Of(m)] = manager[m].product]
  /\ Leaves(m)
  /\ UNCHANGED <<status, product, stock>> /\ Quiet

(* A variant that keeps the claim.                                         *)
UndoesNothing(m) ==
  /\ Is(m, "undoing") /\ Leaves(m)
  /\ UNCHANGED rows /\ Quiet

(* The catch: the request goes back to PENDING, whatever it is by now. *)
Undoes(m) ==
  /\ Is(m, "undoing")
  /\ status' = [status EXCEPT ![Of(m)] = "PENDING"]
  /\ Leaves(m)
  /\ UNCHANGED <<created, product, stock>> /\ Quiet

(* reject checks the status, and then writes whatever it is by now. *)
RejectReads(m, r) ==
  /\ Is(m, "away") /\ status[r] = "PENDING"
  /\ manager' = [manager EXCEPT ![m] = [Out EXCEPT !.at = "rejecting", !.request = r]]
  /\ UNCHANGED rows /\ Quiet

Rejects(m) ==
  /\ Is(m, "rejecting")
  /\ status' = [status EXCEPT ![Of(m)] = "REJECTED"]
  /\ Leaves(m)
  /\ UNCHANGED <<created, product, stock>> /\ Quiet

-----------------------------------------------------------------------------
(* What is made and not linked when managers are lost in the middle. *)
Loses(lost) ==
  /\ manager' = [m \in Manager |-> IF m \in lost THEN Out ELSE manager[m]]
  /\ orphans' = orphans \cup ({manager[m].product : m \in lost} \ {NoProduct})
  /\ unsettled' = unsettled \cup
       {Of(m) : m \in {n \in lost : manager[n].at \notin {"away", "claiming", "rejecting"}}}

(* A call of the try fails and the catch is next. *)
ApproveFails(m) ==
  /\ manager[m].at \in {"numbering", "scanning", "creating", "stocking"}
  /\ Fail
  /\ StepsTo(m, "undoing")
  /\ orphans' = orphans \cup ({manager[m].product} \ {NoProduct})
  /\ UNCHANGED <<rows, unsettled, jobVars>>

(* The labels are not queued, and the approval goes on. *)
LabelsFail(m) ==
  /\ Is(m, "labelling") /\ Fail
  /\ StepsTo(m, "linking")
  /\ UNCHANGED rows /\ Still /\ UNCHANGED jobVars

(* Nothing catches a failure of the claim, of the link (which is returned  *)
(* without being awaited), of the catch itself or of a rejection.          *)
ManagerLost(m) ==
  /\ manager[m].at \in {"claiming", "linking", "undoing", "rejecting"}
  /\ Fail
  /\ Loses({m})
  /\ UNCHANGED <<rows, jobVars>>

Stops ==
  /\ Fail
  /\ Loses(Manager) /\ Lost(Clerk)
  /\ UNCHANGED rows

PrintStep ==
  /\ \E k \in Clerk : (ClerkWorks(k) /\ Works) \/ (ClerkFails(k) /\ Fail)
  /\ UNCHANGED <<rows, manager>> /\ Still

Approves(m) ==
  \/ Claims(m) \/ ReadsSku(m) \/ ReadsBox(m) \/ Clashes(m) \/ Stocks(m) \/ Labels(m)
  \/ Links(m) \/ Undoes(m)
  \/ \E p \in Product : CreatesProduct(m, p)

Next ==
  \/ \E r \in Request : Create(r)
  \/ \E m \in Manager :
       \/ \E r \in Request : ApproveReads(m, r) \/ RejectReads(m, r)
       \/ Approves(m) \/ Rejects(m)
       \/ ApproveFails(m) \/ LabelsFail(m) \/ ManagerLost(m)
  \/ PrintStep
  \/ Stops

Spec == Init /\ [][Next]_vars

-----------------------------------------------------------------------------
TypeOK ==
  /\ JobsTypeOK
  /\ status \in [Request -> {"NONE", "PENDING", "APPROVED", "REJECTED"}]
  /\ created \in [Request -> Product \cup {NoProduct}]
  /\ product \in [Product -> [request : Request \cup {NoRequest}, sku : Nat, box : SUBSET Boxes]]
  /\ stock \in [Product -> Nat]
  /\ manager \in [Manager ->
       [at : {"away", "claiming", "numbering", "scanning", "creating", "stocking", "labelling",
              "linking", "undoing", "rejecting"},
        request : Request \cup {NoRequest}, product : Product \cup {NoProduct},
        sku : Nat, free : BOOLEAN]]
  /\ orphans \subseteq Product /\ unsettled \subseteq Request
  /\ errors \in Nat

(* However many managers approve, reject and fail on a request, it is made *)
(* into one product, but for those whose approval broke off after making   *)
(* one: the catch gives the request back and leaves the product (approve). *)
OneProductEach ==
  \A p, q \in Made \ orphans : product[p].request = product[q].request => p = q

(* A request that stands as APPROVED with nobody at it has its product,    *)
(* with its goods booked once, unless the claim could not be taken back.   *)
ApprovedIsOnShelf ==
  \A r \in Request \ unsettled :
    status[r] = "APPROVED" /\ (\A m \in Manager : Of(m) # r)
    => /\ created[r] \in Made
       /\ r \in Located => stock[created[r]] = 1

(* A box that was scanned for an approved request is known next time,      *)
(* whichever of two requests for the box came first (approve).             *)
ApprovedBoxIsKnown ==
  \A r \in Request : created[r] # NoProduct => Owned(BoxOf[r])
=============================================================================
