-------------------------- MODULE SiteOrdersProofs --------------------------
(***************************************************************************)
(* Proofs about SiteOrders: whatever call breaks or comes late, and        *)
(* wherever the agent stops, for any orders, stock and bounds.             *)
(***************************************************************************)
EXTENDS SiteOrders, TLAPS

Stands(o) == shopStatus[o] # "NONE"
Decided(o) == shopStatus[o] \notin {"NONE", "PLACED"}

(* What a request says is true when it is served, however late: a landed   *)
(* order stays, an invoice stays, and a status that was decided anew in    *)
(* the meantime belongs to an overtaken order.                             *)
Honest(r) ==
  /\ r.to = "ack" => \A o \in r.orders : Stands(o)
  /\ r.applied \subseteq invoiced
  /\ r.to = "status" =>
       \A o \in r.orders :
         /\ Decided(o) /\ r.status[o] # "NONE"
         /\ o \notin overtaken => r.status[o] = shopStatus[o]

(* The agent waits for the request of the place it is at.                  *)
Waiting ==
  /\ at = "acking" => call.to = "ack"
  /\ at = "pushing" => call.to = "status" /\ call.orders = todo
  /\ at = "publishing" => call.to = "catalog"
  /\ at \notin {"acking", "pushing", "publishing"} => call = Blank

(* Staff requests never write PLACED.                                      *)
DecisionsGoOn == \A d \in decisions : d.status # "PLACED" /\ Stands(d.order)

(* What lands was placed, and what is about to be placed was not.          *)
ComesFromSite ==
  /\ \A o \in checked : ~Placed(o)
  /\ \A o \in Order : Stands(o) => Placed(o)
  /\ at \in {"landing", "invoicing", "linking"} => \A o \in todo : Placed(o)

(* What the agent holds and sends is true.                                 *)
Carries ==
  /\ \A o \in landed : Stands(o)
  /\ at \in {"invoicing", "linking"} => order \in Order /\ Stands(order)
  /\ at = "linking" => order \in invoiced
  /\ linked \subseteq invoiced
  /\ \A o \in synced : Decided(o)
  /\ at = "marking" =>
       \A o \in todo : Decided(o) /\ (o \notin overtaken => siteStatus[o] = shopStatus[o])
  /\ Honest(call)
  /\ \A r \in late : Honest(r)

IInv ==
  /\ TypeOK /\ Waiting /\ DecisionsGoOn /\ ComesFromSite /\ Carries
  /\ AckedIsLanded /\ FreedIsInvoiced /\ SyncedIsShown

USE DEF siteVars, shopVars, agentVars

(* The initial state.                                                      *)
LEMMA InitEstablishes == Init => IInv
BY QuantityAssumption, StockAssumption
DEF Init, IInv, TypeOK, Waiting, DecisionsGoOn, ComesFromSite, Carries, AckedIsLanded,
    FreedIsInvoiced, SyncedIsShown, Honest, Stands, Decided, Placed, Requests, Request, Blank,
    NoStatus, Statuses

(* What the customers do on the site.                                      *)
LEMMA SiteSteps ==
  ASSUME IInv, NEW o \in Order, Check(o) \/ Place(o) \/ CustomerCancels(o)
  PROVE  IInv'
<1>. USE DEF IInv, TypeOK, Waiting, DecisionsGoOn, ComesFromSite, Carries, AckedIsLanded,
     FreedIsInvoiced, SyncedIsShown, Honest, Stands, Decided, Placed, Statuses
<1>1. CASE Check(o)
  BY <1>1 DEF Check
<1>2. CASE Place(o)
  BY <1>2 DEF Place
<1>3. CASE CustomerCancels(o)
  BY <1>3 DEF CustomerCancels
<1>. QED  BY <1>1, <1>2, <1>3

(* What the staff do in the shop.                                          *)
LEMMA StaffReads ==
  ASSUME IInv, NEW o \in Order, AdvanceReads(o) \/ CancelReads(o)
  PROVE  IInv'
<1>1. \E s \in Statuses \ {"PLACED"} : Decide(o, s) /\ Stands(o)
  BY DEF AdvanceReads, CancelReads, NextStatus, Statuses, Stands
<1>. QED
  BY <1>1 DEF Decide, IInv, TypeOK, Waiting, DecisionsGoOn, ComesFromSite, Carries,
     AckedIsLanded, FreedIsInvoiced, SyncedIsShown, Honest, Stands, Decided, Placed

LEMMA StaffWrites ==
  ASSUME IInv, NEW d \in decisions, Writes(d)
  PROVE  IInv'
<1>. DEFINE o == d.order
<1>1. o \in Order /\ d.status \in Statuses \ {"PLACED"} /\ Stands(o)
  BY DEF IInv, TypeOK, DecisionsGoOn
<1>2. /\ shopStatus' = [shopStatus EXCEPT ![o] = d.status]
      /\ overtaken \subseteq overtaken'
      /\ overtaken' \subseteq Order
  BY <1>1 DEF Writes, IInv, TypeOK
<1>3. o \notin overtaken' =>
        /\ o \notin Carried(call)
        /\ \A r \in late : o \notin Carried(r)
        /\ at = "marking" => o \notin todo
  BY <1>1 DEF Writes, OnTheWay
<1>4. \A r \in Requests : Honest(r) /\ (o \notin overtaken' => o \notin Carried(r)) => Honest(r)'
  BY <1>1, <1>2 DEF Writes, Honest, Carried, Decided, Stands, Statuses, IInv, TypeOK, Requests
<1>5. TypeOK'
  BY <1>1, <1>2 DEF Writes, IInv, TypeOK
<1>6. Waiting' /\ DecisionsGoOn' /\ ComesFromSite'
  BY <1>1, <1>2 DEF Writes, IInv, TypeOK, Waiting, DecisionsGoOn, ComesFromSite, Stands, Placed,
     Statuses
<1>7. \A r \in late \cup {call} : Honest(r)'
  <2>1. SUFFICES ASSUME NEW r \in late \cup {call}
                 PROVE  Honest(r)'
    OBVIOUS
  <2>2. r \in Requests /\ Honest(r)
    BY DEF IInv, TypeOK, Carries
  <2>. QED  BY <1>3, <1>4, <2>2
<1>8. Carries'
  <2>1. call' = call /\ late' = late
    BY DEF Writes
  <2>2. Honest(call)' /\ \A r \in late' : Honest(r)'
    BY <1>7, <2>1
  <2>. QED
  BY <1>1, <1>2, <1>3, <2>2
  DEF Writes, IInv, TypeOK, Carries, Stands, Decided, Statuses
<1>9. AckedIsLanded' /\ FreedIsInvoiced' /\ SyncedIsShown'
  BY <1>1, <1>2 DEF Writes, IInv, TypeOK, AckedIsLanded, FreedIsInvoiced, SyncedIsShown, Stands,
     Statuses
<1>. QED  BY <1>5, <1>6, <1>8, <1>9 DEF IInv

(* The cycle of the agent.                                                 *)
LEMMA AgentSteps ==
  ASSUME IInv, Agent \/ LinkFails \/ CounterSale
  PROVE  IInv'
<1>. USE DEF IInv, TypeOK, Waiting, DecisionsGoOn, ComesFromSite, Carries, AckedIsLanded,
     FreedIsInvoiced, SyncedIsShown, Honest, Stands, Decided, Placed, Statuses
<1>1. CASE Pull
  BY <1>1 DEF Pull
<1>2. CASE \E o \in Order : Land(o)
  <2>1. PICK o \in Order : Land(o)
    BY <1>2
  <2>2. CASE shopStatus[o] # "NONE"
    BY <2>1, <2>2 DEF Land
  <2>3. CASE shopStatus[o] = "NONE"
    <3>1. /\ shopStatus' = [shopStatus EXCEPT ![o] = "PLACED"] /\ at' = "invoicing" /\ order' = o
          /\ todo' = todo \ {o} /\ at = "landing" /\ o \in todo
          /\ UNCHANGED <<siteVars, landed, invoiced, linked, synced, stock, decisions, call,
                         late, overtaken, stops>>
      BY <2>1, <2>3 DEF Land
    <3>2. \A r \in Requests : Honest(r) => Honest(r)'
      BY <2>3, <3>1 DEF Requests
    <3>3. Honest(call)' /\ \A r \in late' : Honest(r)'
      <4>. HIDE DEF Honest
      <4>. QED  BY <3>1, <3>2
    <3>4. TypeOK' /\ Waiting' /\ DecisionsGoOn' /\ ComesFromSite'
      BY <2>3, <3>1
    <3>5. AckedIsLanded' /\ FreedIsInvoiced' /\ SyncedIsShown'
      BY <2>3, <3>1
    <3>6. Carries'
      <4>. HIDE DEF Honest
      <4>. QED  BY <2>3, <3>1, <3>3
    <3>. QED  BY <3>4, <3>5, <3>6
  <2>. QED  BY <2>2, <2>3
<1>3. CASE \E o \in Order : LandFails(o)
  BY <1>3 DEF LandFails
<1>4. CASE Issue
  BY <1>4, QuantityAssumption DEF Issue
<1>5. CASE IssueFails
  BY <1>5 DEF IssueFails, Landed
<1>6. CASE Link
  BY <1>6 DEF Link, Landed
<1>7. CASE LinkFails
  BY <1>7 DEF LinkFails, Landed
<1>8. CASE Ack
  BY <1>8 DEF Ack, Ask, Skip, Request, NoStatus, Requests, Blank
<1>9. CASE pushStatuses
  BY <1>9 DEF pushStatuses, Unsynced, Taken, Ask, Skip, Request, NoStatus, Requests, Blank
<1>10. CASE Mark
  BY <1>10 DEF Mark
<1>11. CASE pushCatalog
  BY <1>11 DEF pushCatalog, Ask, Request, NoStatus, Requests, Blank
<1>12. CASE CounterSale
  BY <1>12 DEF CounterSale
<1>. QED
  BY <1>1, <1>2, <1>3, <1>4, <1>5, <1>6, <1>7, <1>8, <1>9, <1>10, <1>11, <1>12 DEF Agent

(* Serving an honest request leaves the databases agreeing.                *)
LEMMA Served ==
  ASSUME IInv, NEW r \in Requests, Honest(r), NEW orders \in SUBSET Order,
         orders \subseteq r.orders, Serve(r, orders), UNCHANGED <<shopVars, overtaken>>
  PROVE  /\ siteStatus' \in [Order -> Statuses \cup {"NONE"}]
         /\ pulled' \subseteq Order /\ freed' \subseteq Order /\ offered' \in Int
         /\ \A o \in checked' : ~Placed(o)'
         /\ \A o \in Order : Placed(o) => Placed(o)'
         /\ AckedIsLanded' /\ FreedIsInvoiced' /\ SyncedIsShown'
         /\ at = "marking" =>
              \A o \in todo : o \notin overtaken => siteStatus'[o] = shopStatus[o]
         /\ r.to = "status" =>
              \A o \in orders : o \notin overtaken => siteStatus'[o] = shopStatus[o]
         /\ checked' = checked
<1>. USE DEF IInv, TypeOK, ComesFromSite, Carries, AckedIsLanded, FreedIsInvoiced, SyncedIsShown,
     Honest, Stands, Decided, Placed, Statuses, Requests, Serve
<1>1. CASE r.to = "ack"
  BY <1>1 DEF ackOrders
<1>2. CASE r.to = "status"
  <2>1. /\ siteStatus' = [o \in Order |-> IF o \in orders THEN r.status[o] ELSE siteStatus[o]]
        /\ freed' = freed \cup (r.applied \cap orders)
        /\ UNCHANGED <<pulled, offered, checked, shopStatus, invoiced, overtaken, synced>>
    BY <1>2 DEF applyStatuses
  <2>2. \A o \in orders :
          /\ Decided(o) /\ r.status[o] \in Statuses
          /\ o \notin overtaken => r.status[o] = shopStatus[o]
    <3>1. r.status \in [Order -> Statuses \cup {"NONE"}]
      BY DEF Requests
    <3>2. \A o \in r.orders :
            /\ Decided(o) /\ r.status[o] # "NONE"
            /\ o \notin overtaken => r.status[o] = shopStatus[o]
      <4>. HIDE DEF Decided
      <4>. QED  BY <1>2 DEF Honest
    <3>. HIDE DEF IInv, TypeOK, ComesFromSite, Carries, Honest, Requests, Serve, Statuses, Decided
    <3>. QED  BY <3>1, <3>2
  <2>3. \A o \in Order : siteStatus'[o] = IF o \in orders THEN r.status[o] ELSE siteStatus[o]
    BY <2>1
  <2>a. /\ siteStatus \in [Order -> Statuses \cup {"NONE"}] /\ freed \subseteq Order
        /\ todo \subseteq Order /\ synced \subseteq Order /\ pulled \subseteq Order
        /\ offered \in Int
        /\ r.applied \subseteq invoiced /\ freed \subseteq invoiced /\ invoiced \subseteq Order
        /\ checked \subseteq Order /\ \A o \in checked : ~Placed(o)
        /\ \A o \in Order : Stands(o) => Placed(o)
        /\ \A o \in pulled : Stands(o)
        /\ \A o \in synced \ overtaken : siteStatus[o] = shopStatus[o]
        /\ at = "marking" => \A o \in todo : o \notin overtaken => siteStatus[o] = shopStatus[o]
    OBVIOUS
  <2>. HIDE DEF IInv, TypeOK, ComesFromSite, Carries, Honest, Requests, Serve, Statuses
  <2>b. "NONE" \notin Statuses
    BY DEF Statuses
  <2>4. siteStatus' \in [Order -> Statuses \cup {"NONE"}] /\ freed' \subseteq Order
    BY <2>1, <2>2, <2>a
  <2>5. \A o \in Order : Placed(o) => Placed(o)'
    BY <2>2, <2>3, <2>b
  <2>6. \A o \in checked' : ~Placed(o)'
    BY <2>1, <2>2, <2>3, <2>a
  <2>7. AckedIsLanded' /\ FreedIsInvoiced' /\ SyncedIsShown'
    BY <2>1, <2>2, <2>3, <2>a
  <2>8. at = "marking" => \A o \in todo : o \notin overtaken => siteStatus'[o] = shopStatus[o]
    BY <2>2, <2>3, <2>a
  <2>9. \A o \in orders : o \notin overtaken => siteStatus'[o] = shopStatus[o]
    BY <2>2, <2>3
  <2>. QED  BY <2>1, <2>4, <2>5, <2>6, <2>7, <2>8, <2>9, <2>a
<1>3. CASE r.to = "catalog"
  BY <1>3 DEF applyCatalog
<1>. QED  BY <1>1, <1>2, <1>3

(* The calls of the agent, and what becomes of them.                       *)
LEMMA CallSteps ==
  ASSUME IInv, Answered \/ Broken \/ TimesOut \/ Stops \/ \E r \in late : ServedLate(r)
  PROVE  IInv'
<1>. USE DEF Waiting, DecisionsGoOn, ComesFromSite, Carries, Honest, Stands, Decided, Placed
<1>0. Blank \in Requests /\ Blank.to = "none" /\ Blank.applied = {}
  BY DEF Blank, Request, NoStatus, Requests
<1>1. CASE Answered
  <2>1. Serve(call, call.orders)
    BY <1>1 DEF Answered
  <2>2. call \in Requests /\ Honest(call) /\ call.orders \in SUBSET Order
    BY DEF IInv, TypeOK, Requests
  <2>3. /\ at \in {"acking", "pushing", "publishing"} /\ call' = Blank
        /\ at' = AfterCall[at]
        /\ UNCHANGED <<shopVars, decisions, todo, landed, order, late, overtaken, stops>>
    BY <1>1 DEF Answered, AfterCall
  <2>4. /\ at' \in {"statuses", "marking", "idle"}
        /\ at' = "marking" => at = "pushing"
    BY <2>3 DEF AfterCall
  <2>5. /\ siteStatus' \in [Order -> Statuses \cup {"NONE"}]
        /\ pulled' \subseteq Order /\ freed' \subseteq Order /\ offered' \in Int
        /\ \A o \in checked' : ~Placed(o)'
        /\ \A o \in Order : Placed(o) => Placed(o)'
        /\ AckedIsLanded' /\ FreedIsInvoiced' /\ SyncedIsShown'
        /\ call.to = "status" =>
             \A o \in call.orders : o \notin overtaken => siteStatus'[o] = shopStatus[o]
        /\ checked' = checked
    <3>. HIDE DEF Waiting, DecisionsGoOn, ComesFromSite, Carries, Honest, Stands, Decided, Placed
    <3>. QED  BY <2>1, <2>2, <2>3, Served
  <2>6. TypeOK' /\ Waiting' /\ DecisionsGoOn'
    BY <1>0, <2>3, <2>4, <2>5 DEF IInv, TypeOK
  <2>7. ComesFromSite'
    BY <2>3, <2>4, <2>5 DEF IInv, TypeOK
  <2>8. Honest(call)' /\ \A r \in late : Honest(r)'
    BY <1>0, <2>3 DEF IInv, Requests
  <2>9. at' = "marking" =>
          \A o \in todo : Decided(o) /\ (o \notin overtaken => siteStatus'[o] = shopStatus[o])
    <3>1. at = "pushing" => call.to = "status" /\ call.orders = todo
      BY DEF IInv
    <3>2. call.to = "status" => \A o \in call.orders : Decided(o)
      <4>. HIDE DEF Decided
      <4>. QED  BY <2>2 DEF Honest
    <3>. HIDE DEF Waiting, DecisionsGoOn, ComesFromSite, Carries, Honest, Decided
    <3>. QED  BY <2>4, <2>5, <3>1, <3>2
  <2>10. Carries'
    <3>. HIDE DEF Honest
    <3>. QED  BY <2>3, <2>4, <2>8, <2>9 DEF IInv, TypeOK
  <2>. QED  BY <2>5, <2>6, <2>7, <2>10 DEF IInv
<1>2. CASE Broken
  <2>1. \/ UNCHANGED siteVars
        \/ \E orders \in SUBSET call.orders : Serve(call, orders)
    BY <1>2 DEF Broken
  <2>2. call \in Requests /\ Honest(call) /\ call.orders \in SUBSET Order
    BY DEF IInv, TypeOK, Requests
  <2>3. CASE UNCHANGED siteVars
    BY <1>0, <1>2, <2>3 DEF Broken, GiveUp, IInv, TypeOK, AckedIsLanded, FreedIsInvoiced, SyncedIsShown
  <2>4. CASE \E orders \in SUBSET call.orders : Serve(call, orders)
    BY <1>0, <1>2, <2>2, <2>4, Served DEF Broken, GiveUp, IInv, TypeOK
  <2>. QED  BY <2>1, <2>3, <2>4
<1>3. CASE TimesOut
  BY <1>0, <1>3 DEF TimesOut, GiveUp, IInv, TypeOK, AckedIsLanded, FreedIsInvoiced, SyncedIsShown
<1>4. CASE Stops
  BY <1>0, <1>4 DEF Stops, GiveUp, AfterCall, IInv, TypeOK, AckedIsLanded, FreedIsInvoiced, SyncedIsShown
<1>5. CASE \E r \in late : ServedLate(r)
  <2>1. PICK r \in late : ServedLate(r)
    BY <1>5
  <2>2. r \in Requests /\ Honest(r) /\ r.orders \in SUBSET Order
    BY <2>1 DEF IInv, TypeOK, Requests
  <2>. QED
    BY <2>1, <2>2, Served DEF ServedLate, IInv, TypeOK
<1>. QED  BY <1>1, <1>2, <1>3, <1>4, <1>5

(* IInv is an inductive invariant of the specification.                    *)
THEOREM Invariance == Spec => []IInv
<1>1. IInv /\ UNCHANGED vars => IInv'
  BY DEF vars, IInv, TypeOK, Waiting, DecisionsGoOn, ComesFromSite, Carries, AckedIsLanded,
     FreedIsInvoiced, SyncedIsShown, Honest, Stands, Decided, Placed
<1>2. IInv /\ Next => IInv'
  BY SiteSteps, StaffReads, StaffWrites, AgentSteps, CallSteps DEF Next
<1>. QED  BY <1>1, <1>2, InitEstablishes, PTL DEF Spec

(* Both databases, the agent and every request on its way keep their types.*)
(* Quantities are integers: no sale stops for want of goods (createInvoice)*)
THEOREM TypeIsInvariant == Spec => []TypeOK
BY Invariance, PTL DEF IInv

(* No order is lost between the two databases: what the site will not send *)
(* again is in the shop.                                                   *)
THEOREM NoOrderIsLost == Spec => []AckedIsLanded
BY Invariance, PTL DEF IInv

(* The site reserves the goods of an order until the shop has taken them.  *)
THEOREM GoodsStayReserved == Spec => []FreedIsInvoiced
BY Invariance, PTL DEF IInv

(* A decision marked as pushed shows on the site, unless one was taken     *)
(* while a push of the order was on its way.                               *)
THEOREM PushedDecisionsShow == Spec => []SyncedIsShown
BY Invariance, PTL DEF IInv

(* No pull undoes a decision of the staff.                                 *)
THEOREM PullsUndoNothing == Spec => DecisionSurvivesPull
<1>1. ASSUME IInv, [Next]_vars
      PROVE  [\A o \in Order : shopStatus'[o] = "PLACED" => shopStatus[o] \in {"NONE", "PLACED"}]_vars
  <2>1. ASSUME NEW o \in Order, shopStatus'[o] = "PLACED", shopStatus'[o] # shopStatus[o]
        PROVE  shopStatus[o] = "NONE"
    <3>1. CASE \E d \in decisions : Writes(d)
      BY <1>1, <2>1, <3>1 DEF Writes, IInv, TypeOK, DecisionsGoOn
    <3>2. CASE \E p \in Order : Land(p)
      BY <1>1, <2>1, <3>2 DEF Land, IInv, TypeOK
    <3>. QED
      BY <1>1, <2>1, <3>1, <3>2
      DEF Next, Agent, vars, Check, Place, CustomerCancels, AdvanceReads, CancelReads, Decide,
          CounterSale, Pull, LandFails, Issue, IssueFails, Link, LinkFails, Ack, pushStatuses,
          Mark, pushCatalog, Answered, Broken, TimesOut, Stops, ServedLate
  <2>. QED  BY <2>1
<1>. QED  BY <1>1, Invariance, PTL DEF Spec, DecisionSurvivesPull
=============================================================================
