----------------------------- MODULE SiteOrders -----------------------------
(***************************************************************************)
(* Orders of the web site and the agent that carries them to the shop.     *)
(* The site and the warehouse each have a database of their own; only the  *)
(* warehouse calls (SyncAgentService.tick): it pulls the new orders, lands *)
(* and invoices them, then pushes the decisions of the staff and last the  *)
(* quantities the site may sell.  A call may fail before, within or after  *)
(* the site's work, and one that timed out may still be served later.      *)
(* Orders are for one product; an order is named by the key of its client. *)
(***************************************************************************)
EXTENDS Integers, FiniteSetsExt

CONSTANTS
  Order,
  Quantity,      \* pieces each order asks for
  Stock,         \* pieces the shop starts with, and the site knows of
  NoOrder,       \* not an Order
  MaxSales,      \* bound: pieces sold at the counter
  MaxStops,      \* bound: restarts and broken database calls of the agent
  MaxLate,       \* bound: calls given up on and still on their way
  MaxDecisions   \* bound: staff requests between their read and their write

ASSUME QuantityAssumption == Quantity \in [Order -> Nat \ {0}]
ASSUME StockAssumption == Stock \in Nat
ASSUME NoOrderAssumption == NoOrder \notin Order

VARIABLES
  siteStatus,   \* on the site: status of an order, NONE before it is placed
  pulled,       \* on the site: acknowledged by the shop (pulledAt)
  freed,        \* on the site: no longer reserved (stockAppliedAt)
  offered,      \* on the site: quantity of the last catalog
  checked,      \* on the site: found available and about to be placed
  shopStatus,   \* in the shop: status of an order, NONE before it lands
  invoiced,     \* in the shop: orders whose invoice exists
  linked,       \* in the shop: orders that know their invoice
  synced,       \* in the shop: decision marked as pushed (syncedAt)
  stock,        \* in the shop: pieces on the shelves, negative when it sold more
  decisions,    \* in the shop: staff requests that have read the status
  at,           \* where the agent is in its cycle
  todo,         \* orders it has still to land, or the rows it has pushed
  landed,       \* orders it will acknowledge, until it does
  order,        \* the order it is landing
  call,         \* the request it waits for
  late,         \* requests it no longer waits for
  overtaken,    \* history: decided on while a status of theirs was on its way
  stops         \* restarts and broken calls so far

siteVars == <<siteStatus, pulled, freed, offered, checked>>
shopVars == <<shopStatus, invoiced, linked, synced, stock>>
agentVars == <<at, todo, landed, order, call, late>>
vars == <<siteVars, shopVars, decisions, agentVars, overtaken, stops>>

Statuses == {"PLACED", "PREPARING", "SHIPPED", "DELIVERED", "CANCELLED"}
NextStatus == [PLACED |-> "PREPARING", PREPARING |-> "SHIPPED", SHIPPED |-> "DELIVERED"]

Requests == [to : {"none", "ack", "status", "catalog"}, orders : SUBSET Order,
             status : [Order -> Statuses \cup {"NONE"}], applied : SUBSET Order,
             quantity : Int]

NoStatus == [o \in Order |-> "NONE"]
Request(to, orders, status, applied, quantity) ==
  [to |-> to, orders |-> orders, status |-> status, applied |-> applied, quantity |-> quantity]
Blank == Request("none", {}, NoStatus, {}, 0)

Init ==
  /\ siteStatus = NoStatus /\ pulled = {} /\ freed = {}
  /\ offered = Stock /\ checked = {}
  /\ shopStatus = NoStatus /\ invoiced = {}
  /\ linked = {} /\ synced = {} /\ stock = Stock
  /\ decisions = {} /\ overtaken = {} /\ stops = 0
  /\ at = "idle" /\ todo = {} /\ landed = {} /\ order = NoOrder
  /\ call = Blank /\ late = {}

-----------------------------------------------------------------------------
(* The site: StorefrontOrderService.                                       *)

Placed(o) == siteStatus[o] # "NONE"
Live(o) == siteStatus[o] \notin {"NONE", "CANCELLED"}

reserved == MapThenSumSet(LAMBDA o : Quantity[o], {o \in Order : Live(o) /\ o \notin freed})

(* A client asks for an order.  The quantity and the reservations are read *)
(* without a lock, and a key already used is answered with its order.      *)
Check(o) ==
  /\ ~Placed(o) /\ o \notin checked
  /\ offered - reserved >= Quantity[o]
  /\ checked' = checked \cup {o}
  /\ UNCHANGED <<siteStatus, pulled, freed, offered, shopVars, decisions, agentVars,
                 overtaken, stops>>

Place(o) ==
  /\ o \in checked
  /\ checked' = checked \ {o}
  /\ siteStatus' = [siteStatus EXCEPT ![o] = "PLACED"]
  /\ UNCHANGED <<pulled, freed, offered, shopVars, decisions, agentVars, overtaken, stops>>

CustomerCancels(o) ==
  /\ siteStatus[o] = "PLACED"
  /\ siteStatus' = [siteStatus EXCEPT ![o] = "CANCELLED"]
  /\ UNCHANGED <<pulled, freed, offered, checked, shopVars, decisions, agentVars,
                 overtaken, stops>>

-----------------------------------------------------------------------------
(* The shop: OnlineOrdersService and its other sales.                      *)

(* The orders a request to the site carries a status of.                   *)
Carried(r) == IF r.to = "status" THEN r.orders ELSE {}
OnTheWay ==
  {o \in Order : (\E r \in late \cup {call} : o \in Carried(r)) \/ (at = "marking" /\ o \in todo)}

(* advance and cancel read the status, and later write over what is there. *)
Decide(o, status) ==
  /\ decisions' = decisions \cup {[order |-> o, status |-> status]}
  /\ UNCHANGED <<siteVars, shopVars, agentVars, overtaken, stops>>

AdvanceReads(o) ==
  /\ shopStatus[o] \in DOMAIN NextStatus
  /\ Cardinality(decisions) < MaxDecisions
  /\ Decide(o, NextStatus[shopStatus[o]])

CancelReads(o) ==
  /\ shopStatus[o] \notin {"NONE", "DELIVERED"}
  /\ Cardinality(decisions) < MaxDecisions
  /\ Decide(o, "CANCELLED")

(* A variant in which a decision does not ask to be pushed again.          *)
WritesUnasked(d) ==
  /\ d \in decisions
  /\ decisions' = decisions \ {d}
  /\ shopStatus' = [shopStatus EXCEPT ![d.order] = d.status]
  /\ overtaken' = IF d.order \in OnTheWay THEN overtaken \cup {d.order} ELSE overtaken
  /\ UNCHANGED <<siteVars, invoiced, linked, synced, stock, agentVars, stops>>

Writes(d) ==
  /\ d \in decisions
  /\ decisions' = decisions \ {d}
  /\ shopStatus' = [shopStatus EXCEPT ![d.order] = d.status]
  /\ synced' = synced \ {d.order}
  /\ overtaken' = IF d.order \in OnTheWay THEN overtaken \cup {d.order} ELSE overtaken
  /\ UNCHANGED <<siteVars, invoiced, linked, stock, agentVars, stops>>

SoldAtCounter == Stock - stock - MapThenSumSet(LAMBDA o : Quantity[o], invoiced)

(* A sale never stops for want of goods in the books (allowNegative).      *)
CounterSale ==
  /\ SoldAtCounter < MaxSales
  /\ stock' = stock - 1
  /\ UNCHANGED <<siteVars, shopStatus, invoiced, linked, synced, decisions,
                 agentVars, overtaken, stops>>

-----------------------------------------------------------------------------
(* The agent: pulling the new orders and landing them one by one.          *)

Pull ==
  /\ at = "idle"
  /\ at' = "landing"
  /\ todo' = {o \in Order : Placed(o) /\ o \notin pulled}
  /\ landed' = {}
  /\ UNCHANGED <<siteVars, shopVars, decisions, order, call, late, overtaken, stops>>

(* landOrder: an order that is there already is only acknowledged again.   *)
Land(o) ==
  /\ at = "landing" /\ o \in todo
  /\ todo' = todo \ {o}
  /\ \/ /\ shopStatus[o] # "NONE"
        /\ landed' = landed \cup {o}
        /\ UNCHANGED <<at, order, shopStatus>>
     \/ /\ shopStatus[o] = "NONE"
        /\ shopStatus' = [shopStatus EXCEPT ![o] = "PLACED"]
        /\ at' = "invoicing" /\ order' = o
        /\ UNCHANGED landed
  /\ UNCHANGED <<siteVars, invoiced, linked, synced, stock, decisions, call, late,
                 overtaken, stops>>

(* A variant in which an order is acknowledged whether it landed or not.   *)
LandFailsLanded(o) ==
  /\ at = "landing" /\ o \in todo
  /\ todo' = todo \ {o}
  /\ landed' = landed \cup {o}
  /\ UNCHANGED <<siteVars, shopVars, decisions, at, order, call, late, overtaken, stops>>

LandFails(o) ==
  /\ at = "landing" /\ o \in todo
  /\ todo' = todo \ {o}
  /\ UNCHANGED <<siteVars, shopVars, decisions, at, landed, order, call, late, overtaken, stops>>

(* The order has landed, with its invoice or without.                      *)
Landed ==
  /\ at' = "landing" /\ landed' = landed \cup {order} /\ order' = NoOrder

(* invoiceOrder calls createInvoice, whose key is made from the order, and *)
(* which takes the goods off the shelves whether they are there or not.    *)
Issue ==
  /\ at = "invoicing"
  /\ stock' = stock - Quantity[order]
  /\ invoiced' = invoiced \cup {order}
  /\ at' = "linking"
  /\ UNCHANGED <<siteVars, shopStatus, linked, synced, decisions, todo, landed, order, call,
                 late, overtaken, stops>>

IssueFails ==
  /\ at = "invoicing"
  /\ Landed
  /\ UNCHANGED <<siteVars, shopVars, decisions, todo, call, late, overtaken, stops>>

Link ==
  /\ at = "linking"
  /\ linked' = linked \cup {order} /\ synced' = synced \ {order}
  /\ Landed
  /\ UNCHANGED <<siteVars, shopStatus, invoiced, stock, decisions, todo, call, late,
                 overtaken, stops>>

LinkFails ==
  /\ at = "linking"
  /\ stops < MaxStops /\ stops' = stops + 1
  /\ Landed
  /\ UNCHANGED <<siteVars, shopVars, decisions, todo, call, late, overtaken>>

-----------------------------------------------------------------------------
(* The agent: its calls.                                                   *)

Ask(label, request) == at' = label /\ call' = request
Skip(label) == at' = label /\ UNCHANGED call

Ack ==
  /\ at = "landing" /\ todo = {}
  /\ \/ landed # {} /\ Ask("acking", Request("ack", landed, NoStatus, {}, 0))
     \/ landed = {} /\ Skip("statuses")
  /\ landed' = {}
  /\ UNCHANGED <<siteVars, shopVars, decisions, todo, order, late, overtaken, stops>>

(* A variant in which every order is pushed as taken off the shelves.      *)
TakenByAll(rows) == rows

(* The orders of a push whose goods the shop says it has taken.            *)
Taken(rows) == rows \cap linked

(* A variant in which a cancelled order has nothing to push.               *)
UnsyncedSold ==
  {o \in Order \ synced : shopStatus[o] \in {"PREPARING", "SHIPPED", "DELIVERED"}}

Unsynced == {o \in Order \ synced : shopStatus[o] \notin {"NONE", "PLACED"}}

pushStatuses ==
  /\ at = "statuses"
  /\ todo' = Unsynced
  /\ \/ /\ todo' # {}
        /\ Ask("pushing", Request("status", todo', shopStatus, Taken(todo'), 0))
     \/ todo' = {} /\ Skip("catalog")
  /\ UNCHANGED <<siteVars, shopVars, decisions, landed, order, late, overtaken, stops>>

Mark ==
  /\ at = "marking"
  /\ synced' = synced \cup todo
  /\ at' = "catalog" /\ todo' = {}
  /\ UNCHANGED <<siteVars, shopStatus, invoiced, linked, stock, decisions, landed, order,
                 call, late, overtaken, stops>>

pushCatalog ==
  /\ at = "catalog"
  /\ Ask("publishing", Request("catalog", {}, NoStatus, {}, stock))
  /\ UNCHANGED <<siteVars, shopVars, decisions, todo, landed, order, late, overtaken, stops>>

-----------------------------------------------------------------------------
(* The calls at the site: SyncService.                                     *)

(* A variant that acknowledges only orders still waiting for the shop.     *)
ackOrdersPlaced(orders) ==
  /\ pulled' = pulled \cup {o \in orders : siteStatus[o] = "PLACED"}
  /\ UNCHANGED <<siteStatus, freed, offered>>

ackOrders(orders) ==
  /\ pulled' = pulled \cup orders
  /\ UNCHANGED <<siteStatus, freed, offered>>

applyStatuses(r, orders) ==
  /\ siteStatus' = [o \in Order |-> IF o \in orders THEN r.status[o] ELSE siteStatus[o]]
  /\ freed' = freed \cup (r.applied \cap orders)
  /\ UNCHANGED <<pulled, offered>>

applyCatalog(r) == offered' = r.quantity /\ UNCHANGED <<siteStatus, pulled, freed>>

(* The site does the work of request r for the orders given: an update per *)
(* order for statuses, one statement otherwise.                            *)
Serve(r, orders) ==
  /\ \/ r.to = "ack" /\ ackOrders(orders)
     \/ r.to = "status" /\ applyStatuses(r, orders)
     \/ r.to = "catalog" /\ applyCatalog(r)
  /\ UNCHANGED checked

AfterCall == [acking |-> "statuses", pushing |-> "marking", publishing |-> "idle"]

Answered ==
  /\ at \in DOMAIN AfterCall
  /\ Serve(call, call.orders)
  /\ at' = AfterCall[at] /\ call' = Blank
  /\ UNCHANGED <<shopVars, decisions, todo, landed, order, late, overtaken, stops>>

(* The cycle is over: the next one begins with what the databases hold.    *)
GiveUp == at' = "idle" /\ todo' = {} /\ landed' = {} /\ order' = NoOrder /\ call' = Blank

(* A call breaks, when the site had done some of it, all of it or nothing. *)
Broken ==
  /\ at \in DOMAIN AfterCall
  /\ \/ UNCHANGED siteVars
     \/ call.to = "status" /\ \E orders \in SUBSET call.orders \ {{}} : Serve(call, orders)
     \/ call.to # "status" /\ Serve(call, call.orders)
  /\ GiveUp
  /\ UNCHANGED <<shopVars, decisions, late, overtaken, stops>>

(* A call times out, or the API stops, while the request is on its way.    *)
TimesOut ==
  /\ at \in DOMAIN AfterCall
  /\ Cardinality(late) < MaxLate
  /\ late' = late \cup {call}
  /\ GiveUp
  /\ UNCHANGED <<siteVars, shopVars, decisions, overtaken, stops>>

ServedLate(r) ==
  /\ r \in late
  /\ Serve(r, r.orders)
  /\ late' = late \ {r}
  /\ UNCHANGED <<shopVars, decisions, at, todo, landed, order, call, overtaken, stops>>

(* The API stops, or a query of the agent throws, between two steps.       *)
Stops ==
  /\ at \notin DOMAIN AfterCall \cup {"idle"}
  /\ stops < MaxStops /\ stops' = stops + 1
  /\ GiveUp
  /\ UNCHANGED <<siteVars, shopVars, decisions, late, overtaken>>

-----------------------------------------------------------------------------
Agent ==
  \/ Pull \/ Issue \/ IssueFails \/ Link \/ Ack \/ pushStatuses \/ Mark \/ pushCatalog
  \/ \E o \in Order : Land(o) \/ LandFails(o)

Next ==
  \/ \E o \in Order : Check(o) \/ Place(o) \/ CustomerCancels(o)
  \/ \E o \in Order : AdvanceReads(o) \/ CancelReads(o)
  \/ \E d \in decisions : Writes(d)
  \/ CounterSale
  \/ Agent
  \/ Answered \/ Broken \/ TimesOut \/ Stops \/ LinkFails
  \/ \E r \in late : ServedLate(r)

(* The cron fires again and again; a call that is made again and again is  *)
(* answered some day, and so does a landing that is tried again succeed.   *)
(* Nobody has to buy, to cancel or to decide anything.                     *)
Fairness ==
  /\ WF_vars(Agent)
  /\ \A o \in Order : SF_vars(Land(o))
  /\ \A label \in DOMAIN AfterCall : SF_vars(at = label /\ Answered)

Spec == Init /\ [][Next]_vars
FairSpec == Spec /\ Fairness

-----------------------------------------------------------------------------
TypeOK ==
  /\ siteStatus \in [Order -> Statuses \cup {"NONE"}]
  /\ pulled \subseteq Order /\ freed \subseteq Order /\ checked \subseteq Order
  /\ offered \in Int /\ stock \in Int
  /\ shopStatus \in [Order -> Statuses \cup {"NONE"}]
  /\ invoiced \subseteq Order /\ linked \subseteq Order
  /\ synced \subseteq Order /\ overtaken \subseteq Order
  /\ decisions \subseteq [order : Order, status : Statuses]
  /\ at \in {"idle", "landing", "invoicing", "linking", "acking", "statuses", "pushing",
             "marking", "catalog", "publishing"}
  /\ todo \subseteq Order /\ landed \subseteq Order
  /\ order \in Order \cup {NoOrder}
  /\ call \in Requests /\ late \subseteq Requests
  /\ stops \in Nat

(* An order the site will not send again is in the shop.                   *)
(* Whatever call breaks, is answered late or is repeated, and wherever the *)
(* API stops, no order is lost (pullOrders, ackOrders).                    *)
AckedIsLanded == \A o \in pulled : shopStatus[o] # "NONE"

(* The site stops reserving the goods of an order only once the shop has   *)
(* taken them off its shelves, also when the invoice failed and the staff  *)
(* go on with the order (invoiceOrder, pushStatuses, applyStatuses).       *)
FreedIsInvoiced == freed \subseteq invoiced

(* When the shop thinks the site knows its decision on an order, the site  *)
(* shows it, unless a decision was taken while a push of the order was on  *)
(* its way: the mark after the call then hides it (pushStatuses).          *)
SyncedIsShown ==
  \A o \in synced \ overtaken : siteStatus[o] = shopStatus[o]

(* Pulling an order again never takes back what the staff decided on it:   *)
(* an order is PLACED in the shop only at the time it lands (landOrder).   *)
DecisionSurvivesPull ==
  [][\A o \in Order : shopStatus'[o] = "PLACED" => shopStatus[o] \in {"NONE", "PLACED"}]_vars

(* Every order placed on the site comes to stand in the shop and is then   *)
(* acknowledged, so that it is not pulled for ever (tick, pullOrders).     *)
PlacedLands ==
  \A o \in Order : Placed(o) ~> (o \in pulled /\ shopStatus[o] # "NONE")

(* Every decision of the staff comes to show on the site, unless one is    *)
(* taken while a push of the order is on its way (pushStatuses).           *)
DecisionReachesSite ==
  \A o \in Order :
    shopStatus[o] \notin {"NONE", "PLACED"} ~>
      (siteStatus[o] = shopStatus[o] \/ o \in overtaken)

-----------------------------------------------------------------------------
(* What the code says of itself.                                           *)

(* "In this way no more than the stock is sold between two syncs"          *)
(* (StorefrontOrderService).                                               *)
NothingIsOversold ==
  MapThenSumSet(LAMBDA o : Quantity[o], {o \in Order : Live(o)}) <= Stock
=============================================================================
