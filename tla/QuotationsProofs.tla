-------------------------- MODULE QuotationsProofs --------------------------
(***************************************************************************)
(* Proofs about Quotations, for any sheets, lines, requests and bounds.    *)
(* The invariants are proved one upon the other: what requests know of     *)
(* their sheets, the sales, what is shown of them, and the sums of edits.  *)
(***************************************************************************)
EXTENDS Quotations, TLAPS

Converting == {"looking", "selling", "marking"}
Editing == {"editing", "rewriting"}

(* Requests are about sheets that exist. *)
Known == \A h \in Handler : ~ Is(h, "idle") => Of(h) \in Sheet /\ status[Of(h)] # "NONE"

(* A sheet is marked after its sale only. *)
Sold ==
  /\ OneSalePerSheet
  /\ \A s \in Sheet : status[s] = "NONE" => sales[s] = 0
  /\ \A s \in Sheet : status[s] = "CONVERTED" => sales[s] > 0
  /\ \A h \in Handler : Is(h, "marking") => sales[Of(h)] > 0

(* Unless an edit and a conversion met: a conversion has read the lines    *)
(* that are there, a sale is for the lines that are there, and nobody is   *)
(* editing a sheet that is converted.                                      *)
Shown ==
  /\ \A h \in Handler :
       Of(h) \notin edited /\ call[h].at \in Converting => call[h].lines = lines[Of(h)]
  /\ \A s \in Sheet \ edited : sales[s] > 0 => sold[s] = lines[s]
  /\ \A s \in Sheet \ edited, h \in Handler :
       status[s] = "CONVERTED" /\ Of(h) = s => call[h].at \notin Editing

(* A sale that is not marked has a conversion that is going to mark it. *)
Marked ==
  \A s \in Sheet \ (broken \cup (Blank \cap edited)) :
    sales[s] > 0 =>
      status[s] = "CONVERTED" \/ \E h \in Handler : Of(h) = s /\ Is(h, "marking")

(* Unless two edits met in their transactions: an edit deletes the lines   *)
(* that are there, and has counted the prices that are there.              *)
Alone ==
  \A h, g \in Handler :
    h # g /\ Is(h, "rewriting") /\ Is(g, "rewriting") /\ Of(h) = Of(g) => Of(h) \in crossed

Totals ==
  /\ \A s \in Sheet : status[s] = "NONE" => total[s] = 0
  /\ \A h \in Handler :
       Is(h, "rewriting") /\ Of(h) \notin crossed => call[h].lines = lines[Of(h)]
  /\ TotalIsOfLines

Counted(h) == Unpriced(Changed(price[Of(h)], call[h].change)) = {}

Priced ==
  /\ \A h \in Handler :
       Is(h, "rewriting") /\ Of(h) \in Blank \ crossed /\ call[h].all => Counted(h)
  /\ PricedIsPriced

(* Only a null gives a row without a final price its pricedAt, so that a   *)
(* conversion that looks at pricedAt has a price for every row.            *)
Charged ==
  /\ \A s \in Sheet \ cleared, l \in Line : price[s][l] # "null"
  /\ \A h \in Handler :
       call[h].at \in {"looking", "selling"} /\ Of(h) \notin cleared =>
         Priceless(call[h].read) = {}
  /\ NothingGivenAway

-----------------------------------------------------------------------------
(* The shape of the state. *)
LEMMA TypeInit == Init => TypeOK
BY BoundsAssumption DEF Init, TypeOK, Idle, Edit, NoRows, Untouched, Rows, Changes, RowStates

Places == {"idle", "looking", "selling", "marking", "editing", "rewriting", "extending"}

Calls ==
  [at : Places, sheet : Sheet \cup {NoSheet}, lines : SUBSET Edit, mine : Edit,
   read : Rows, change : Changes, all : BOOLEAN]

LEMMA IdleType == Idle \in Calls
BY BoundsAssumption DEF Idle, Calls, Places, Edit, NoRows, Untouched, Rows, Changes, RowStates

LEMMA UntouchedType == Untouched \in Changes
BY DEF Untouched, Changes

(* How requests move: they begin, go on, or leave. *)
LEMMA BeginsType ==
  ASSUME TypeOK, NEW h \in Handler, NEW label \in Places, NEW s \in Sheet, NEW n \in Edit,
         Begins(h, label, s, n)
  PROVE  call' \in [Handler -> Calls]
<1> DEFINE new == [Idle EXCEPT !.at = label, !.sheet = s, !.lines = lines[s], !.mine = n,
                        !.read = price[s]]
<1>1. Idle \in Calls /\ lines[s] \in SUBSET Edit /\ price[s] \in Rows
  BY IdleType DEF TypeOK
<1>2. new \in Calls
  BY <1>1 DEF Calls
<1>3. call \in [Handler -> Calls]
  BY DEF TypeOK, Calls, Places
<1>4. call' = [call EXCEPT ![h] = new]
  BY DEF Begins
<1> HIDE DEF new
<1> QED BY <1>2, <1>3, <1>4

LEMMA StepsType ==
  ASSUME TypeOK, NEW h \in Handler, NEW label \in Places, StepsTo(h, label)
  PROVE  call' \in [Handler -> Calls]
<1>1. call \in [Handler -> Calls]
  BY DEF TypeOK, Calls, Places
<1>2. [call[h] EXCEPT !.at = label] \in Calls
  BY <1>1 DEF Calls
<1>3. call' = [call EXCEPT ![h] = [call[h] EXCEPT !.at = label]]
  BY <1>1 DEF StepsTo
<1> QED BY <1>1, <1>2, <1>3

LEMMA LeavesType ==
  ASSUME TypeOK, NEW h \in Handler, Leaves(h)
  PROVE  call' \in [Handler -> Calls]
BY IdleType DEF Leaves, TypeOK, Calls, Places

(* The shape of what a step does to the sheets, the sales and the history. *)
Shape ==
  /\ status \in [Sheet -> Unconverted \cup {"NONE", "CONVERTED", "CANCELLED"}]
  /\ lines \in [Sheet -> SUBSET Edit] /\ total \in [Sheet -> Edit]
  /\ price \in [Sheet -> Rows] /\ valid \subseteq Sheet
  /\ sales \in [Sheet -> Nat] /\ sold \in [Sheet -> SUBSET Edit]
  /\ unpaid \in [Sheet -> SUBSET Line] /\ cleared \subseteq Sheet
  /\ crossed \subseteq Sheet /\ edited \subseteq Sheet /\ broken \subseteq Sheet
  /\ edits \in Edit /\ errors \in 0 .. MaxErrors

LEMMA TypeParts ==
  ASSUME Shape', call' \in [Handler -> Calls]
  PROVE  TypeOK'
BY DEF TypeOK, Shape, Calls, Places

(* The first statements of an edit. *)
Entered(h) ==
  /\ Of(h) \in Sheet /\ Is(h, "editing")
  /\ call' \in [Handler -> Calls]
  /\ \A g \in Handler \ {h} : call'[g] = call[g]
  /\ call'[h].at = "rewriting" /\ call'[h].sheet = Of(h)
  /\ call'[h].lines = lines[Of(h)]
  /\ Of(h) \in Blank /\ call'[h].all =>
       Unpriced(Changed(price[Of(h)], call'[h].change)) = {}
  /\ crossed' = IF Meets(h, Of(h), {"rewriting"}) THEN crossed \cup {Of(h)} ELSE crossed
  /\ UNCHANGED <<sheetVars, saleVars, edited, broken, cleared, edits, errors>>

LEMMA EntersEffect ==
  ASSUME TypeOK, NEW h \in Handler, NEW change \in Changes,
         Rewrites(h) \/ SavesRows(h, change)
  PROVE  Entered(h)
<1>1. call \in [Handler -> Calls] /\ lines[Of(h)] \in SUBSET Edit
  <2>1. Of(h) \in Sheet
    BY DEF Rewrites, SavesRows, Sheet
  <2> QED BY <2>1 DEF TypeOK, Calls, Places
<1>2. PICK c \in Changes, all \in BOOLEAN :
        /\ Enters(h, c, all)
        /\ Of(h) \in Blank /\ all => Unpriced(Changed(price[Of(h)], c)) = {}
  <2>1. CASE Rewrites(h)
    BY <2>1, UntouchedType, SheetAssumption DEF Rewrites
  <2>2. CASE SavesRows(h, change)
    <3>1. AllPriced(Changed(price[Of(h)], change)) \in BOOLEAN
      BY DEF AllPriced
    <3> QED BY <2>2, <3>1 DEF SavesRows, AllPriced
  <2> QED BY <2>1, <2>2
<1> DEFINE new == [call[h] EXCEPT !.at = "rewriting", !.lines = lines[Of(h)], !.read = NoRows,
                     !.change = c, !.all = all]
<1>3. /\ new \in Calls /\ new.at = "rewriting" /\ new.sheet = Of(h)
      /\ new.lines = lines[Of(h)] /\ new.change = c /\ new.all = all
  BY <1>1 DEF Calls, Places, Of, NoRows, Rows, RowStates
<1>4. call' = [call EXCEPT ![h] = new]
  BY <1>2 DEF Enters
<1> HIDE DEF new
<1>5. /\ call' \in [Handler -> Calls] /\ call'[h] = new
      /\ \A g \in Handler \ {h} : call'[g] = call[g]
  BY <1>1, <1>3, <1>4
<1>6. Of(h) \in Sheet
  BY DEF Rewrites, SavesRows, Sheet
<1>7. Is(h, "editing")
  BY DEF Rewrites, SavesRows
<1> QED BY <1>2, <1>3, <1>5, <1>6, <1>7 DEF Enters, Entered

LEMMA TypeStep ==
  ASSUME TypeOK, Known, [Next]_vars
  PROVE  TypeOK'
<1>1. CASE UNCHANGED vars
  BY <1>1 DEF vars, sheetVars, saleVars, history, TypeOK
<1>2. ASSUME NEW s \in Sheet, Create(s) \/ Lapses(s) \/ Cancel(s) PROVE TypeOK'
  <2>1. price' \in [Sheet -> Rows]
    BY <1>2 DEF Create, Lapses, Cancel, TypeOK, Rows, RowStates
  <2>3. Shape'
    BY <1>2, <2>1, BoundsAssumption
       DEF Create, Lapses, Cancel, saleVars, history, TypeOK, Shape, Edit, Unconverted
  <2>2. call' \in [Handler -> Calls]
    BY <1>2 DEF Create, Lapses, Cancel, TypeOK, Calls, Places
  <2> QED BY <2>2, <2>3, TypeParts
<1>3. ASSUME NEW h \in Handler, NEW s \in Sheet, ConvertReads(h, s) \/ ExtendReads(h, s)
      PROVE  TypeOK'
  <2>1. call' \in [Handler -> Calls]
    BY <1>3, BeginsType, BoundsAssumption DEF ConvertReads, ExtendReads, Places, Edit
  <2>2. Shape'
    BY <1>3 DEF ConvertReads, ExtendReads, sheetVars, saleVars, history, TypeOK, Shape
  <2> QED BY <2>1, <2>2, TypeParts
<1>4. ASSUME NEW h \in Handler, NEW s \in Sheet, EditReads(h, s) PROVE TypeOK'
  <2>1. edits + 1 \in Edit /\ edits' = edits + 1
    BY <1>4, BoundsAssumption DEF EditReads, TypeOK, Edit
  <2>2. call' \in [Handler -> Calls]
    BY <1>4, <2>1, BeginsType DEF EditReads, Places
  <2>3. Shape'
    BY <1>4, <2>1 DEF EditReads, sheetVars, saleVars, TypeOK, Shape
  <2> QED BY <2>2, <2>3, TypeParts
<1>5. ASSUME NEW h \in Handler, LooksUp(h) PROVE TypeOK'
  <2>1. call' \in [Handler -> Calls]
    BY <1>5, StepsType DEF LooksUp, Places
  <2>2. Shape'
    BY <1>5 DEF LooksUp, sheetVars, saleVars, history, TypeOK, Shape
  <2> QED BY <2>1, <2>2, TypeParts
<1>6. ASSUME NEW h \in Handler, Sells(h) PROVE TypeOK'
  <2>1. call' \in [Handler -> Calls]
    BY <1>6, StepsType DEF Sells, Places
  <2>2. call[h].lines \in SUBSET Edit
    BY DEF TypeOK
  <2>3. Shape'
    BY <1>6, <2>2 DEF Sells, sheetVars, saleVars, history, TypeOK, Shape, Priceless
  <2> QED BY <2>1, <2>3, TypeParts
<1>7. ASSUME NEW h \in Handler, Refuses(h) \/ Extends(h) \/ Marks(h) PROVE TypeOK'
  <2>1. call' \in [Handler -> Calls]
    BY <1>7, LeavesType DEF Refuses, Extends, Marks
  <2>2. ~ Is(h, "idle")
    BY <1>7 DEF Refuses, Extends, Marks, Is
  <2>3. Of(h) \in Sheet
    BY <2>2 DEF Known
  <2>4. Shape'
    BY <1>7, <2>3
       DEF Refuses, Extends, Marks, sheetVars, saleVars, history, TypeOK, Shape, Unconverted
  <2> QED BY <2>1, <2>4, TypeParts
<1>8. ASSUME NEW h \in Handler, NEW change \in Changes,
             Rewrites(h) \/ SavesRows(h, change)
      PROVE  TypeOK'
  <2>0. Entered(h)
    BY <1>8, EntersEffect
  <2>1. Of(h) \in Sheet
    BY <2>0 DEF Entered
  <2>2. Shape'
    BY <2>0, <2>1 DEF Entered, sheetVars, saleVars, TypeOK, Shape
  <2> QED BY <2>0, <2>2, TypeParts DEF Entered
<1>9. ASSUME NEW h \in Handler, Updates(h) \/ Saves(h) PROVE TypeOK'
  <2>1. call' \in [Handler -> Calls]
    BY <1>9, LeavesType DEF Updates, Saves
  <2>2. Of(h) \in Sheet
    BY <1>9 DEF Updates, Saves, Sheet
  <2>3. /\ call[h].mine \in Edit /\ call[h].lines \in SUBSET Edit
        /\ call[h].change \in Changes
    BY DEF TypeOK
  <2>4. edited' \subseteq Sheet
    BY <1>9, <2>2 DEF Updates, Saves, Interferes, TypeOK
  <2>a. price' \in [Sheet -> Rows]
    <3>1. Changed(price[Of(h)], call[h].change) \in Rows
      BY <2>2, <2>3 DEF TypeOK, Changed, Rows, Changes, RowStates
    <3> QED BY <1>9, <2>2, <3>1 DEF Updates, Saves, TypeOK
  <2>5. Shape'
    BY <1>9, <2>2, <2>3, <2>4, <2>a DEF Updates, Saves, saleVars, TypeOK, Shape, Unconverted
  <2> QED BY <2>1, <2>5, TypeParts
<1>10. ASSUME NEW lost, lost \subseteq Handler, Breaks(lost) PROVE TypeOK'
  <2>1. call' \in [Handler -> Calls]
    BY <1>10, IdleType DEF Breaks, TypeOK, Calls, Places
  <2>2. errors' \in 0 .. MaxErrors
    BY <1>10, BoundsAssumption DEF Breaks, TypeOK
  <2>3. broken' \subseteq Sheet
    BY <1>10 DEF Breaks, TypeOK, Known, Is, Of
  <2>4. Shape'
    BY <1>10, <2>2, <2>3 DEF Breaks, sheetVars, saleVars, TypeOK, Shape
  <2> QED BY <2>1, <2>4, TypeParts
<1> QED BY <1>1, <1>2, <1>3, <1>4, <1>5, <1>6, <1>7, <1>8, <1>9, <1>10, UntouchedType
   DEF Next, Asks, Serves

-----------------------------------------------------------------------------
(* No sheet goes away: what is known of the sheet of a request stays so.   *)
LEMMA KnownStep ==
  ASSUME TypeOK, Known, [Next]_vars
  PROVE  Known'
<1>1. CASE UNCHANGED vars
  BY <1>1 DEF vars, sheetVars, saleVars, history, Is, Of, TypeOK, Known
<1>2. ASSUME NEW s \in Sheet, Create(s) PROVE Known'
  BY <1>2 DEF Create, saleVars, history, Is, Of, TypeOK, Known
<1>3. ASSUME NEW s \in Sheet, Lapses(s) PROVE Known'
  BY <1>3 DEF Lapses, saleVars, history, Is, Of, Open, Unconverted, TypeOK, Known
<1>4. ASSUME NEW s \in Sheet, Cancel(s) PROVE Known'
  BY <1>4 DEF Cancel, saleVars, history, Is, Of, Open, Unconverted, TypeOK, Known
<1>5. ASSUME NEW h \in Handler, NEW s \in Sheet, ConvertReads(h, s) PROVE Known'
  BY <1>5, SheetAssumption
     DEF ConvertReads, Begins, sheetVars, saleVars, history, Is, Of, Open, Idle,
         Unconverted, TypeOK, Known
<1>6. ASSUME NEW h \in Handler, NEW s \in Sheet, EditReads(h, s) PROVE Known'
  BY <1>6, SheetAssumption
     DEF EditReads, Begins, sheetVars, saleVars, Is, Of, Open, Editable, Idle,
         Unconverted, TypeOK, Known
<1>7. ASSUME NEW h \in Handler, NEW s \in Sheet, ExtendReads(h, s) PROVE Known'
  BY <1>7, SheetAssumption
     DEF ExtendReads, Begins, sheetVars, saleVars, history, Is, Of, Open, Idle,
         Unconverted, TypeOK, Known
<1>8. ASSUME NEW h \in Handler, LooksUp(h) PROVE Known'
  BY <1>8, SheetAssumption
     DEF LooksUp, StepsTo, sheetVars, saleVars, history, Is, Of, TypeOK, Known
<1>9. ASSUME NEW h \in Handler, Refuses(h) PROVE Known'
  BY <1>9, SheetAssumption
     DEF Refuses, Leaves, sheetVars, saleVars, history, Is, Of, Idle, TypeOK, Known
<1>10. ASSUME NEW h \in Handler, Sells(h) PROVE Known'
  BY <1>10, SheetAssumption
     DEF Sells, StepsTo, sheetVars, saleVars, history, Is, Of, TypeOK, Known
<1>11. ASSUME NEW h \in Handler, Marks(h) PROVE Known'
  BY <1>11, SheetAssumption
     DEF Marks, Leaves, saleVars, Is, Of, Meets, Idle, TypeOK, Known
<1>12. ASSUME NEW h \in Handler, NEW change \in Changes,
             Rewrites(h) \/ SavesRows(h, change)
      PROVE  Known'
  <2>1. Entered(h)
    BY <1>12, EntersEffect
  <2> QED
    BY <2>1, SheetAssumption
       DEF Entered, Is, Of, Meets, sheetVars, saleVars, TypeOK, Known
<1>13. ASSUME NEW h \in Handler, Updates(h) PROVE Known'
  BY <1>13, SheetAssumption
     DEF Updates, Interferes, Leaves, saleVars, Is, Of, Meets, Idle, TypeOK, Known
<1>14. ASSUME NEW h \in Handler, Saves(h) PROVE Known'
  BY <1>14, SheetAssumption
     DEF Saves, Interferes, Leaves, saleVars, Is, Of, Meets, Idle, TypeOK, Known
<1>15. ASSUME NEW h \in Handler, Extends(h) PROVE Known'
  BY <1>15, SheetAssumption
     DEF Extends, Leaves, saleVars, history, Is, Of, Idle, TypeOK, Known
<1>16. ASSUME NEW lost, Breaks(lost) PROVE Known'
  BY <1>16 DEF Breaks, sheetVars, saleVars, Is, Of, Idle, TypeOK, Known
<1> QED
  BY <1>1, <1>2, <1>3, <1>4, <1>5, <1>6, <1>7, <1>8, <1>9, <1>10, <1>11, <1>12,
     <1>13, <1>14, <1>15, <1>16, UntouchedType
     DEF Next, Asks, Serves

-----------------------------------------------------------------------------
(* A sale is made where there is none, and marked after it was found. *)
LEMMA SoldStep ==
  ASSUME TypeOK, Known, Sold, [Next]_vars
  PROVE  Sold'
<1>1. CASE UNCHANGED vars
  BY <1>1
     DEF vars, sheetVars, saleVars, history, Is, Of, TypeOK, Known, Sold,
         OneSalePerSheet
<1>2. ASSUME NEW s \in Sheet, Create(s) PROVE Sold'
  BY <1>2 DEF Create, saleVars, history, Is, Of, TypeOK, Known, Sold, OneSalePerSheet
<1>3. ASSUME NEW s \in Sheet, Lapses(s) PROVE Sold'
  BY <1>3
     DEF Lapses, saleVars, history, Is, Of, Open, Unconverted, TypeOK, Known, Sold,
         OneSalePerSheet
<1>4. ASSUME NEW s \in Sheet, Cancel(s) PROVE Sold'
  BY <1>4
     DEF Cancel, saleVars, history, Is, Of, Open, Unconverted, TypeOK, Known, Sold,
         OneSalePerSheet
<1>5. ASSUME NEW h \in Handler, NEW s \in Sheet, ConvertReads(h, s) PROVE Sold'
  BY <1>5, SheetAssumption
     DEF ConvertReads, Begins, sheetVars, saleVars, history, Is, Of, Open, Idle,
         Unconverted, TypeOK, Known, Sold, OneSalePerSheet
<1>6. ASSUME NEW h \in Handler, NEW s \in Sheet, EditReads(h, s) PROVE Sold'
  BY <1>6, SheetAssumption
     DEF EditReads, Begins, sheetVars, saleVars, Is, Of, Open, Editable, Idle,
         Unconverted, TypeOK, Known, Sold, OneSalePerSheet
<1>7. ASSUME NEW h \in Handler, NEW s \in Sheet, ExtendReads(h, s) PROVE Sold'
  BY <1>7, SheetAssumption
     DEF ExtendReads, Begins, sheetVars, saleVars, history, Is, Of, Open, Idle,
         Unconverted, TypeOK, Known, Sold, OneSalePerSheet
<1>8. ASSUME NEW h \in Handler, LooksUp(h) PROVE Sold'
  BY <1>8, SheetAssumption
     DEF LooksUp, StepsTo, sheetVars, saleVars, history, Is, Of, TypeOK, Known, Sold,
         OneSalePerSheet
<1>9. ASSUME NEW h \in Handler, Refuses(h) PROVE Sold'
  BY <1>9, SheetAssumption
     DEF Refuses, Leaves, sheetVars, saleVars, history, Is, Of, Idle, TypeOK, Known,
         Sold, OneSalePerSheet
<1>10. ASSUME NEW h \in Handler, Sells(h) PROVE Sold'
  <2>1. /\ call \in [Handler -> Calls] /\ sales \in [Sheet -> Nat]
        /\ Of(h) \in Sheet /\ status[Of(h)] # "NONE"
    BY <1>10 DEF Sells, Is, TypeOK, Calls, Places, Known
  <2>2. /\ call'[h].sheet = call[h].sheet
        /\ \A g \in Handler \ {h} : call'[g] = call[g]
        /\ status' = status
    BY <1>10, <2>1 DEF Sells, StepsTo, Calls, sheetVars
  <2>3. /\ sales' \in [Sheet -> Nat]
        /\ sales'[Of(h)] = 1
        /\ \A s \in Sheet : sales'[s] = sales[s] \/ s = Of(h)
    BY <1>10, <2>1 DEF Sells, saleVars, Sold, OneSalePerSheet
  <2>4. ASSUME NEW g \in Handler, call'[g].at = "marking" PROVE sales'[call'[g].sheet] > 0
    <3>1. CASE g = h
      BY <2>2, <2>3, <3>1 DEF Of
    <3>2. CASE g # h
      <4>1. call[g].at = "marking" /\ call'[g].sheet = call[g].sheet
        BY <2>2, <2>4, <3>2
      <4>2. call[g].sheet \in Sheet /\ sales[call[g].sheet] > 0
        BY <4>1 DEF Known, Sold, Is, Of
      <4> QED BY <2>3, <4>1, <4>2
    <3> QED BY <3>1, <3>2
  <2>5. \A s \in Sheet : sales'[s] <= 1 /\ (sales[s] > 0 => sales'[s] > 0)
    BY <2>1, <2>3 DEF Sold, OneSalePerSheet
  <2>6. \A s \in Sheet : status'[s] = "NONE" => sales'[s] = 0
    BY <2>1, <2>2, <2>3 DEF Sold
  <2>7. \A s \in Sheet : status'[s] = "CONVERTED" => sales'[s] > 0
    BY <2>2, <2>5 DEF Sold
  <2> QED
    BY <2>4, <2>5, <2>6, <2>7 DEF Sold, OneSalePerSheet, Is, Of
<1>11. ASSUME NEW h \in Handler, Marks(h) PROVE Sold'
  BY <1>11, SheetAssumption
     DEF Marks, Leaves, saleVars, Is, Of, Meets, Idle, TypeOK, Known, Sold,
         OneSalePerSheet
<1>12. ASSUME NEW h \in Handler, NEW change \in Changes,
             Rewrites(h) \/ SavesRows(h, change)
      PROVE  Sold'
  <2>1. Entered(h)
    BY <1>12, EntersEffect
  <2> QED
    BY <2>1, SheetAssumption
       DEF Entered, Is, Of, Meets, sheetVars, saleVars, TypeOK, Known, Sold,
           OneSalePerSheet
<1>13. ASSUME NEW h \in Handler, Updates(h) PROVE Sold'
  BY <1>13, SheetAssumption
     DEF Updates, Interferes, Leaves, saleVars, Is, Of, Meets, Idle, TypeOK, Known,
         Sold, OneSalePerSheet
<1>14. ASSUME NEW h \in Handler, Saves(h) PROVE Sold'
  BY <1>14, SheetAssumption
     DEF Saves, Interferes, Leaves, saleVars, Is, Of, Meets, Idle, TypeOK, Known, Sold,
         OneSalePerSheet
<1>15. ASSUME NEW h \in Handler, Extends(h) PROVE Sold'
  BY <1>15, SheetAssumption
     DEF Extends, Leaves, saleVars, history, Is, Of, Idle, TypeOK, Known, Sold,
         OneSalePerSheet
<1>16. ASSUME NEW lost, Breaks(lost) PROVE Sold'
  BY <1>16
     DEF Breaks, sheetVars, saleVars, Is, Of, Idle, TypeOK, Known, Sold, OneSalePerSheet
<1> QED
  BY <1>1, <1>2, <1>3, <1>4, <1>5, <1>6, <1>7, <1>8, <1>9, <1>10, <1>11, <1>12,
     <1>13, <1>14, <1>15, <1>16, UntouchedType
     DEF Next, Asks, Serves

(* An edit that commits under a conversion, or between a sale and its mark, *)
(* and a mark under an edit are recorded: the rest stays as it was read.   *)
LEMMA ShownStep ==
  ASSUME TypeOK, Known, Sold, Shown, [Next]_vars
  PROVE  Shown'
<1>1. CASE UNCHANGED vars
  BY <1>1
     DEF vars, sheetVars, saleVars, history, Is, Of, TypeOK, Known, Sold, Shown,
         Converting, Editing
<1>2. ASSUME NEW s \in Sheet, Create(s) PROVE Shown'
  BY <1>2
     DEF Create, saleVars, history, Is, Of, TypeOK, Known, Sold, Shown, Converting,
         Editing
<1>3. ASSUME NEW s \in Sheet, Lapses(s) PROVE Shown'
  BY <1>3
     DEF Lapses, saleVars, history, Is, Of, Open, Unconverted, TypeOK, Known, Sold,
         Shown, Converting, Editing
<1>4. ASSUME NEW s \in Sheet, Cancel(s) PROVE Shown'
  BY <1>4
     DEF Cancel, saleVars, history, Is, Of, Open, Unconverted, TypeOK, Known, Sold,
         Shown, Converting, Editing
<1>5. ASSUME NEW h \in Handler, NEW s \in Sheet, ConvertReads(h, s) PROVE Shown'
  BY <1>5, SheetAssumption
     DEF ConvertReads, Begins, sheetVars, saleVars, history, Is, Of, Open, Idle,
         Unconverted, TypeOK, Known, Sold, Shown, Converting, Editing
<1>6. ASSUME NEW h \in Handler, NEW s \in Sheet, EditReads(h, s) PROVE Shown'
  BY <1>6, SheetAssumption
     DEF EditReads, Begins, sheetVars, saleVars, Is, Of, Open, Editable, Idle,
         Unconverted, TypeOK, Known, Sold, Shown, Converting, Editing
<1>7. ASSUME NEW h \in Handler, NEW s \in Sheet, ExtendReads(h, s) PROVE Shown'
  BY <1>7, SheetAssumption
     DEF ExtendReads, Begins, sheetVars, saleVars, history, Is, Of, Open, Idle,
         Unconverted, TypeOK, Known, Sold, Shown, Converting, Editing
<1>8. ASSUME NEW h \in Handler, LooksUp(h) PROVE Shown'
  BY <1>8, SheetAssumption
     DEF LooksUp, StepsTo, sheetVars, saleVars, history, Is, Of, TypeOK, Known, Sold,
         Shown, Converting, Editing
<1>9. ASSUME NEW h \in Handler, Refuses(h) PROVE Shown'
  BY <1>9, SheetAssumption
     DEF Refuses, Leaves, sheetVars, saleVars, history, Is, Of, Idle, TypeOK, Known,
         Sold, Shown, Converting, Editing
<1>10. ASSUME NEW h \in Handler, Sells(h) PROVE Shown'
  BY <1>10, SheetAssumption
     DEF Sells, StepsTo, sheetVars, saleVars, history, Is, Of, TypeOK, Known, Sold,
         Shown, Converting, Editing
<1>11. ASSUME NEW h \in Handler, Marks(h) PROVE Shown'
  BY <1>11, SheetAssumption
     DEF Marks, Leaves, saleVars, Is, Of, Meets, Idle, TypeOK, Known, Sold, Shown,
         Converting, Editing
<1>12. ASSUME NEW h \in Handler, NEW change \in Changes,
             Rewrites(h) \/ SavesRows(h, change)
      PROVE  Shown'
  <2>1. Entered(h)
    BY <1>12, EntersEffect
  <2> QED
    BY <2>1, SheetAssumption
       DEF Entered, Is, Of, Meets, sheetVars, saleVars, TypeOK, Known, Sold, Shown,
           Converting, Editing
<1>13. ASSUME NEW h \in Handler, Updates(h) PROVE Shown'
  BY <1>13, SheetAssumption
     DEF Updates, Interferes, Leaves, saleVars, Is, Of, Meets, Idle, TypeOK, Known,
         Sold, Shown, Converting, Editing
<1>14. ASSUME NEW h \in Handler, Saves(h) PROVE Shown'
  BY <1>14, SheetAssumption
     DEF Saves, Interferes, Leaves, saleVars, Is, Of, Meets, Idle, TypeOK, Known, Sold,
         Shown, Converting, Editing
<1>15. ASSUME NEW h \in Handler, Extends(h) PROVE Shown'
  BY <1>15, SheetAssumption
     DEF Extends, Leaves, saleVars, history, Is, Of, Idle, TypeOK, Known, Sold, Shown,
         Converting, Editing
<1>16. ASSUME NEW lost, Breaks(lost) PROVE Shown'
  BY <1>16
     DEF Breaks, sheetVars, saleVars, Is, Of, Idle, TypeOK, Known, Sold, Shown,
         Converting, Editing
<1> QED
  BY <1>1, <1>2, <1>3, <1>4, <1>5, <1>6, <1>7, <1>8, <1>9, <1>10, <1>11, <1>12,
     <1>13, <1>14, <1>15, <1>16, UntouchedType
     DEF Next, Asks, Serves

(* Whoever makes a sale, or finds it, goes on to mark it or is lost. *)
LEMMA MarkedStep ==
  ASSUME TypeOK, Known, Sold, Shown, Marked, [Next]_vars
  PROVE  Marked'
<1>1. CASE UNCHANGED vars
  BY <1>1
     DEF vars, sheetVars, saleVars, history, Is, Of, TypeOK, Known, Sold, Shown, Marked,
         Converting, Editing
<1>2. ASSUME NEW s \in Sheet, Create(s) PROVE Marked'
  BY <1>2
     DEF Create, saleVars, history, Is, Of, TypeOK, Known, Sold, Shown, Marked,
         Converting, Editing
<1>3. ASSUME NEW s \in Sheet, Lapses(s) PROVE Marked'
  BY <1>3
     DEF Lapses, saleVars, history, Is, Of, Open, Unconverted, TypeOK, Known, Sold,
         Shown, Marked, Converting, Editing
<1>4. ASSUME NEW s \in Sheet, Cancel(s) PROVE Marked'
  BY <1>4
     DEF Cancel, saleVars, history, Is, Of, Open, Unconverted, TypeOK, Known, Sold,
         Shown, Marked, Converting, Editing
<1>5. ASSUME NEW h \in Handler, NEW s \in Sheet, ConvertReads(h, s) PROVE Marked'
  BY <1>5, SheetAssumption
     DEF ConvertReads, Begins, sheetVars, saleVars, history, Is, Of, Open, Idle,
         Unconverted, TypeOK, Known, Sold, Shown, Marked, Converting, Editing
<1>6. ASSUME NEW h \in Handler, NEW s \in Sheet, EditReads(h, s) PROVE Marked'
  BY <1>6, SheetAssumption
     DEF EditReads, Begins, sheetVars, saleVars, Is, Of, Open, Editable, Idle,
         Unconverted, TypeOK, Known, Sold, Shown, Marked, Converting, Editing
<1>7. ASSUME NEW h \in Handler, NEW s \in Sheet, ExtendReads(h, s) PROVE Marked'
  BY <1>7, SheetAssumption
     DEF ExtendReads, Begins, sheetVars, saleVars, history, Is, Of, Open, Idle,
         Unconverted, TypeOK, Known, Sold, Shown, Marked, Converting, Editing
<1>8. ASSUME NEW h \in Handler, LooksUp(h) PROVE Marked'
  BY <1>8, SheetAssumption
     DEF LooksUp, StepsTo, sheetVars, saleVars, history, Is, Of, TypeOK, Known, Sold,
         Shown, Marked, Converting, Editing
<1>9. ASSUME NEW h \in Handler, Refuses(h) PROVE Marked'
  BY <1>9, SheetAssumption
     DEF Refuses, Leaves, sheetVars, saleVars, history, Is, Of, Idle, TypeOK, Known,
         Sold, Shown, Marked, Converting, Editing
<1>10. ASSUME NEW h \in Handler, Sells(h) PROVE Marked'
  BY <1>10, SheetAssumption
     DEF Sells, StepsTo, sheetVars, saleVars, history, Is, Of, TypeOK, Known, Sold,
         Shown, Marked, Converting, Editing
<1>11. ASSUME NEW h \in Handler, Marks(h) PROVE Marked'
  BY <1>11, SheetAssumption
     DEF Marks, Leaves, saleVars, Is, Of, Meets, Idle, TypeOK, Known, Sold, Shown,
         Marked, Converting, Editing
<1>12. ASSUME NEW h \in Handler, NEW change \in Changes,
             Rewrites(h) \/ SavesRows(h, change)
      PROVE  Marked'
  <2>1. Entered(h)
    BY <1>12, EntersEffect
  <2>2. \A g \in Handler : Is(g, "marking") => call'[g] = call[g]
    BY <2>1 DEF Entered, Is
  <2> QED
    BY <2>1, <2>2 DEF Entered, Is, Of, sheetVars, saleVars, Marked
<1>13. ASSUME NEW h \in Handler, Updates(h) PROVE Marked'
  BY <1>13, SheetAssumption
     DEF Updates, Interferes, Leaves, saleVars, Is, Of, Meets, Idle, TypeOK, Known,
         Sold, Shown, Marked, Converting, Editing
<1>14. ASSUME NEW h \in Handler, Saves(h) PROVE Marked'
  BY <1>14, SheetAssumption
     DEF Saves, Interferes, Leaves, saleVars, Is, Of, Meets, Idle, TypeOK, Known, Sold,
         Shown, Marked, Converting, Editing
<1>15. ASSUME NEW h \in Handler, Extends(h) PROVE Marked'
  BY <1>15, SheetAssumption
     DEF Extends, Leaves, saleVars, history, Is, Of, Idle, TypeOK, Known, Sold, Shown,
         Marked, Converting, Editing
<1>16. ASSUME NEW lost, Breaks(lost) PROVE Marked'
  BY <1>16
     DEF Breaks, sheetVars, saleVars, Is, Of, Idle, TypeOK, Known, Sold, Shown, Marked,
         Converting, Editing
<1> QED
  BY <1>1, <1>2, <1>3, <1>4, <1>5, <1>6, <1>7, <1>8, <1>9, <1>10, <1>11, <1>12,
     <1>13, <1>14, <1>15, <1>16, UntouchedType
     DEF Next, Asks, Serves

-----------------------------------------------------------------------------
(* Edits that meet in their transactions are recorded. *)
LEMMA AloneStep ==
  ASSUME TypeOK, Known, Alone, [Next]_vars
  PROVE  Alone'
<1>1. CASE UNCHANGED vars
  BY <1>1 DEF vars, sheetVars, saleVars, history, Is, Of, TypeOK, Known, Alone
<1>2. ASSUME NEW s \in Sheet, Create(s) PROVE Alone'
  BY <1>2 DEF Create, saleVars, history, Is, Of, TypeOK, Known, Alone
<1>3. ASSUME NEW s \in Sheet, Lapses(s) PROVE Alone'
  BY <1>3 DEF Lapses, saleVars, history, Is, Of, Open, Unconverted, TypeOK, Known, Alone
<1>4. ASSUME NEW s \in Sheet, Cancel(s) PROVE Alone'
  BY <1>4 DEF Cancel, saleVars, history, Is, Of, Open, Unconverted, TypeOK, Known, Alone
<1>5. ASSUME NEW h \in Handler, NEW s \in Sheet, ConvertReads(h, s) PROVE Alone'
  BY <1>5, SheetAssumption
     DEF ConvertReads, Begins, sheetVars, saleVars, history, Is, Of, Open, Idle,
         Unconverted, TypeOK, Known, Alone
<1>6. ASSUME NEW h \in Handler, NEW s \in Sheet, EditReads(h, s) PROVE Alone'
  BY <1>6, SheetAssumption
     DEF EditReads, Begins, sheetVars, saleVars, Is, Of, Open, Editable, Idle,
         Unconverted, TypeOK, Known, Alone
<1>7. ASSUME NEW h \in Handler, NEW s \in Sheet, ExtendReads(h, s) PROVE Alone'
  BY <1>7, SheetAssumption
     DEF ExtendReads, Begins, sheetVars, saleVars, history, Is, Of, Open, Idle,
         Unconverted, TypeOK, Known, Alone
<1>8. ASSUME NEW h \in Handler, LooksUp(h) PROVE Alone'
  BY <1>8, SheetAssumption
     DEF LooksUp, StepsTo, sheetVars, saleVars, history, Is, Of, TypeOK, Known, Alone
<1>9. ASSUME NEW h \in Handler, Refuses(h) PROVE Alone'
  BY <1>9, SheetAssumption
     DEF Refuses, Leaves, sheetVars, saleVars, history, Is, Of, Idle, TypeOK, Known,
         Alone
<1>10. ASSUME NEW h \in Handler, Sells(h) PROVE Alone'
  BY <1>10, SheetAssumption
     DEF Sells, StepsTo, sheetVars, saleVars, history, Is, Of, TypeOK, Known, Alone
<1>11. ASSUME NEW h \in Handler, Marks(h) PROVE Alone'
  BY <1>11, SheetAssumption
     DEF Marks, Leaves, saleVars, Is, Of, Meets, Idle, TypeOK, Known, Alone
<1>12. ASSUME NEW h \in Handler, NEW change \in Changes,
             Rewrites(h) \/ SavesRows(h, change)
      PROVE  Alone'
  <2>1. Entered(h)
    BY <1>12, EntersEffect
  <2> QED
    BY <2>1, SheetAssumption
       DEF Entered, Is, Of, Meets, sheetVars, saleVars, TypeOK, Known, Alone
<1>13. ASSUME NEW h \in Handler, Updates(h) PROVE Alone'
  BY <1>13, SheetAssumption
     DEF Updates, Interferes, Leaves, saleVars, Is, Of, Meets, Idle, TypeOK, Known,
         Alone
<1>14. ASSUME NEW h \in Handler, Saves(h) PROVE Alone'
  BY <1>14, SheetAssumption
     DEF Saves, Interferes, Leaves, saleVars, Is, Of, Meets, Idle, TypeOK, Known, Alone
<1>15. ASSUME NEW h \in Handler, Extends(h) PROVE Alone'
  BY <1>15, SheetAssumption
     DEF Extends, Leaves, saleVars, history, Is, Of, Idle, TypeOK, Known, Alone
<1>16. ASSUME NEW lost, Breaks(lost) PROVE Alone'
  BY <1>16 DEF Breaks, sheetVars, saleVars, Is, Of, Idle, TypeOK, Known, Alone
<1> QED
  BY <1>1, <1>2, <1>3, <1>4, <1>5, <1>6, <1>7, <1>8, <1>9, <1>10, <1>11, <1>12,
     <1>13, <1>14, <1>15, <1>16, UntouchedType
     DEF Next, Asks, Serves

(* An edit that is alone leaves its own lines only, and their totals. *)
LEMMA TotalsStep ==
  ASSUME TypeOK, Known, Alone, Totals, [Next]_vars
  PROVE  Totals'
<1>1. CASE UNCHANGED vars
  BY <1>1
     DEF vars, sheetVars, saleVars, history, Is, Of, TypeOK, Known, Alone, Totals,
         TotalIsOfLines, Edit
<1>2. ASSUME NEW s \in Sheet, Create(s) PROVE Totals'
  BY <1>2
     DEF Create, saleVars, history, Is, Of, TypeOK, Known, Alone, Totals,
         TotalIsOfLines, Edit
<1>3. ASSUME NEW s \in Sheet, Lapses(s) PROVE Totals'
  BY <1>3
     DEF Lapses, saleVars, history, Is, Of, Open, Unconverted, TypeOK, Known, Alone,
         Totals, TotalIsOfLines, Edit
<1>4. ASSUME NEW s \in Sheet, Cancel(s) PROVE Totals'
  BY <1>4
     DEF Cancel, saleVars, history, Is, Of, Open, Unconverted, TypeOK, Known, Alone,
         Totals, TotalIsOfLines, Edit
<1>5. ASSUME NEW h \in Handler, NEW s \in Sheet, ConvertReads(h, s) PROVE Totals'
  BY <1>5, SheetAssumption
     DEF ConvertReads, Begins, sheetVars, saleVars, history, Is, Of, Open, Idle,
         Unconverted, TypeOK, Known, Alone, Totals, TotalIsOfLines, Edit
<1>6. ASSUME NEW h \in Handler, NEW s \in Sheet, EditReads(h, s) PROVE Totals'
  BY <1>6, SheetAssumption
     DEF EditReads, Begins, sheetVars, saleVars, Is, Of, Open, Editable, Idle,
         Unconverted, TypeOK, Known, Alone, Totals, TotalIsOfLines, Edit
<1>7. ASSUME NEW h \in Handler, NEW s \in Sheet, ExtendReads(h, s) PROVE Totals'
  BY <1>7, SheetAssumption
     DEF ExtendReads, Begins, sheetVars, saleVars, history, Is, Of, Open, Idle,
         Unconverted, TypeOK, Known, Alone, Totals, TotalIsOfLines, Edit
<1>8. ASSUME NEW h \in Handler, LooksUp(h) PROVE Totals'
  BY <1>8, SheetAssumption
     DEF LooksUp, StepsTo, sheetVars, saleVars, history, Is, Of, TypeOK, Known, Alone,
         Totals, TotalIsOfLines, Edit
<1>9. ASSUME NEW h \in Handler, Refuses(h) PROVE Totals'
  BY <1>9, SheetAssumption
     DEF Refuses, Leaves, sheetVars, saleVars, history, Is, Of, Idle, TypeOK, Known,
         Alone, Totals, TotalIsOfLines, Edit
<1>10. ASSUME NEW h \in Handler, Sells(h) PROVE Totals'
  BY <1>10, SheetAssumption
     DEF Sells, StepsTo, sheetVars, saleVars, history, Is, Of, TypeOK, Known, Alone,
         Totals, TotalIsOfLines, Edit
<1>11. ASSUME NEW h \in Handler, Marks(h) PROVE Totals'
  BY <1>11, SheetAssumption
     DEF Marks, Leaves, saleVars, Is, Of, Meets, Idle, TypeOK, Known, Alone, Totals,
         TotalIsOfLines, Edit
<1>12. ASSUME NEW h \in Handler, NEW change \in Changes,
             Rewrites(h) \/ SavesRows(h, change)
      PROVE  Totals'
  <2>1. Entered(h)
    BY <1>12, EntersEffect
  <2> QED
    BY <2>1, SheetAssumption
       DEF Entered, Is, Of, Meets, sheetVars, saleVars, TypeOK, Known, Alone, Totals,
           TotalIsOfLines, Edit
<1>13. ASSUME NEW h \in Handler, Updates(h) PROVE Totals'
  BY <1>13, SheetAssumption
     DEF Updates, Interferes, Leaves, saleVars, Is, Of, Meets, Idle, TypeOK, Known,
         Alone, Totals, TotalIsOfLines, Edit
<1>14. ASSUME NEW h \in Handler, Saves(h) PROVE Totals'
  BY <1>14, SheetAssumption
     DEF Saves, Interferes, Leaves, saleVars, Is, Of, Meets, Idle, TypeOK, Known, Alone,
         Totals, TotalIsOfLines, Edit
<1>15. ASSUME NEW h \in Handler, Extends(h) PROVE Totals'
  BY <1>15, SheetAssumption
     DEF Extends, Leaves, saleVars, history, Is, Of, Idle, TypeOK, Known, Alone, Totals,
         TotalIsOfLines, Edit
<1>16. ASSUME NEW lost, Breaks(lost) PROVE Totals'
  BY <1>16
     DEF Breaks, sheetVars, saleVars, Is, Of, Idle, TypeOK, Known, Alone, Totals,
         TotalIsOfLines, Edit
<1> QED
  BY <1>1, <1>2, <1>3, <1>4, <1>5, <1>6, <1>7, <1>8, <1>9, <1>10, <1>11, <1>12,
     <1>13, <1>14, <1>15, <1>16, UntouchedType
     DEF Next, Asks, Serves

(* An edit that is alone counts the lines without a price as they will be. *)
LEMMA PricedStep ==
  ASSUME TypeOK, Known, Alone, Priced, [Next]_vars
  PROVE  Priced'
<1>1. CASE UNCHANGED vars
  BY <1>1
     DEF vars, sheetVars, saleVars, history, Is, Of, TypeOK, Known, Alone, Priced,
         Counted, PricedIsPriced, Unpriced
<1>2. ASSUME NEW s \in Sheet, Create(s) PROVE Priced'
  BY <1>2
     DEF Create, saleVars, history, Is, Of, TypeOK, Known, Alone, Priced, Counted,
         PricedIsPriced, Unpriced
<1>3. ASSUME NEW s \in Sheet, Lapses(s) PROVE Priced'
  BY <1>3
     DEF Lapses, saleVars, history, Is, Of, Open, Unconverted, TypeOK, Known, Alone,
         Priced, Counted, PricedIsPriced, Unpriced
<1>4. ASSUME NEW s \in Sheet, Cancel(s) PROVE Priced'
  BY <1>4
     DEF Cancel, saleVars, history, Is, Of, Open, Unconverted, TypeOK, Known, Alone,
         Priced, Counted, PricedIsPriced, Unpriced
<1>5. ASSUME NEW h \in Handler, NEW s \in Sheet, ConvertReads(h, s) PROVE Priced'
  BY <1>5, SheetAssumption
     DEF ConvertReads, Begins, sheetVars, saleVars, history, Is, Of, Open, Idle,
         Unconverted, TypeOK, Known, Alone, Priced, Counted, PricedIsPriced, Unpriced
<1>6. ASSUME NEW h \in Handler, NEW s \in Sheet, EditReads(h, s) PROVE Priced'
  BY <1>6, SheetAssumption
     DEF EditReads, Begins, sheetVars, saleVars, Is, Of, Open, Editable, Idle,
         Unconverted, TypeOK, Known, Alone, Priced, Counted, PricedIsPriced, Unpriced
<1>7. ASSUME NEW h \in Handler, NEW s \in Sheet, ExtendReads(h, s) PROVE Priced'
  BY <1>7, SheetAssumption
     DEF ExtendReads, Begins, sheetVars, saleVars, history, Is, Of, Open, Idle,
         Unconverted, TypeOK, Known, Alone, Priced, Counted, PricedIsPriced, Unpriced
<1>8. ASSUME NEW h \in Handler, LooksUp(h) PROVE Priced'
  BY <1>8, SheetAssumption
     DEF LooksUp, StepsTo, sheetVars, saleVars, history, Is, Of, TypeOK, Known, Alone,
         Priced, Counted, PricedIsPriced, Unpriced
<1>9. ASSUME NEW h \in Handler, Refuses(h) PROVE Priced'
  BY <1>9, SheetAssumption
     DEF Refuses, Leaves, sheetVars, saleVars, history, Is, Of, Idle, TypeOK, Known,
         Alone, Priced, Counted, PricedIsPriced, Unpriced
<1>10. ASSUME NEW h \in Handler, Sells(h) PROVE Priced'
  BY <1>10, SheetAssumption
     DEF Sells, StepsTo, sheetVars, saleVars, history, Is, Of, TypeOK, Known, Alone,
         Priced, Counted, PricedIsPriced, Unpriced
<1>11. ASSUME NEW h \in Handler, Marks(h) PROVE Priced'
  BY <1>11, SheetAssumption
     DEF Marks, Leaves, saleVars, Is, Of, Meets, Idle, TypeOK, Known, Alone, Priced,
         Counted, PricedIsPriced, Unpriced
<1>12. ASSUME NEW h \in Handler, NEW change \in Changes,
             Rewrites(h) \/ SavesRows(h, change)
      PROVE  Priced'
  <2>1. Entered(h)
    BY <1>12, EntersEffect
  <2> QED
    BY <2>1, SheetAssumption
       DEF Entered, Is, Of, Meets, sheetVars, saleVars, TypeOK, Known, Alone, Priced,
           Counted, PricedIsPriced, Unpriced
<1>13. ASSUME NEW h \in Handler, Updates(h) PROVE Priced'
  BY <1>13, SheetAssumption
     DEF Updates, Interferes, Leaves, saleVars, Is, Of, Meets, Idle, TypeOK, Known,
         Alone, Priced, Counted, PricedIsPriced, Unpriced
<1>14. ASSUME NEW h \in Handler, Saves(h) PROVE Priced'
  BY <1>14, SheetAssumption
     DEF Saves, Interferes, Leaves, saleVars, Is, Of, Meets, Idle, TypeOK, Known, Alone,
         Priced, Counted, PricedIsPriced, Unpriced
<1>15. ASSUME NEW h \in Handler, Extends(h) PROVE Priced'
  BY <1>15, SheetAssumption
     DEF Extends, Leaves, saleVars, history, Is, Of, Idle, TypeOK, Known, Alone, Priced,
         Counted, PricedIsPriced, Unpriced
<1>16. ASSUME NEW lost, Breaks(lost) PROVE Priced'
  BY <1>16
     DEF Breaks, sheetVars, saleVars, Is, Of, Idle, TypeOK, Known, Alone, Priced,
         Counted, PricedIsPriced, Unpriced
<1> QED
  BY <1>1, <1>2, <1>3, <1>4, <1>5, <1>6, <1>7, <1>8, <1>9, <1>10, <1>11, <1>12,
     <1>13, <1>14, <1>15, <1>16, UntouchedType
     DEF Next, Asks, Serves

(* What a conversion has read stays what it sells.                         *)
LEMMA ChargedStep ==
  ASSUME TypeOK, Known, Charged, [Next]_vars
  PROVE  Charged'
<1> USE DEF Charged, NothingGivenAway, Priceless
<1>0. call \in [Handler -> Calls] /\ price \in [Sheet -> Rows] /\ unpaid \in [Sheet -> SUBSET Line]
  BY DEF TypeOK, Calls, Places
<1>1. CASE UNCHANGED vars
  BY <1>1 DEF vars, sheetVars, saleVars, history, Is, Of
<1>2. ASSUME NEW s \in Sheet, Create(s) PROVE Charged'
  <2>1. \A t \in Sheet \ cleared, l \in Line : price'[t][l] # "null"
    BY <1>0, <1>2 DEF Create
  <2> QED BY <1>2, <2>1 DEF Create, saleVars, history, Of
<1>3. ASSUME NEW s \in Sheet, Lapses(s) \/ Cancel(s) PROVE Charged'
  BY <1>3 DEF Lapses, Cancel, saleVars, history, Of
<1>4. ASSUME NEW h \in Handler, NEW s \in Sheet, ConvertReads(h, s) PROVE Charged'
  <2>1. /\ call'[h].read = price[s] /\ call'[h].sheet = s
        /\ \A g \in Handler \ {h} : call'[g] = call[g]
        /\ UNCHANGED <<sheetVars, saleVars, history>>
    BY <1>0, <1>4 DEF ConvertReads, Begins, Idle
  <2>2. s \notin cleared => Priceless(price[s]) = {}
    BY <1>4 DEF ConvertReads, Unpriced
  <2> QED BY <2>1, <2>2 DEF sheetVars, saleVars, history, Of
<1>5. ASSUME NEW h \in Handler, NEW s \in Sheet, EditReads(h, s) \/ ExtendReads(h, s) PROVE Charged'
  <2>1. /\ call'[h].at \in {"editing", "extending"}
        /\ \A g \in Handler \ {h} : call'[g] = call[g]
        /\ UNCHANGED <<sheetVars, saleVars, cleared>>
    <3>1. CASE EditReads(h, s)
      BY <1>0, <3>1 DEF EditReads, Begins, Idle
    <3>2. CASE ExtendReads(h, s)
      BY <1>0, <3>2 DEF ExtendReads, Begins, Idle, history
    <3> QED BY <1>5, <3>1, <3>2
  <2> QED BY <2>1 DEF sheetVars, saleVars, Of
<1>6. ASSUME NEW h \in Handler, LooksUp(h) PROVE Charged'
  <2>1. /\ call[h].at = "looking"
        /\ call'[h].read = call[h].read /\ call'[h].sheet = call[h].sheet
        /\ \A g \in Handler \ {h} : call'[g] = call[g]
        /\ UNCHANGED <<sheetVars, saleVars, history>>
    BY <1>0, <1>6 DEF LooksUp, StepsTo, Is, Calls
  <2> QED BY <2>1 DEF sheetVars, saleVars, history, Of
<1>7. ASSUME NEW h \in Handler, Sells(h) PROVE Charged'
  <2>1. /\ call[h].at = "selling" /\ call'[h].at = "marking"
        /\ \A g \in Handler \ {h} : call'[g] = call[g]
        /\ unpaid' = unpaid \/ unpaid' = [unpaid EXCEPT ![Of(h)] = Priceless(call[h].read)]
        /\ UNCHANGED <<sheetVars, history>>
    BY <1>0, <1>7 DEF Sells, StepsTo, Is, Calls, saleVars
  <2>2. Of(h) \in Sheet
    BY <2>1 DEF Known, Is
  <2>3. \A s \in Sheet \ cleared : unpaid'[s] = {}
    BY <1>0, <2>1, <2>2
  <2> QED BY <2>1, <2>3 DEF sheetVars, history, Of
<1>8. ASSUME NEW h \in Handler, Refuses(h) \/ Marks(h) \/ Updates(h) \/ Extends(h) PROVE Charged'
  <2>1. /\ call'[h].at = "idle"
        /\ \A g \in Handler \ {h} : call'[g] = call[g]
        /\ UNCHANGED <<price, saleVars, cleared>>
    BY <1>0, <1>8 DEF Refuses, Marks, Updates, Extends, Leaves, Idle, sheetVars, history
  <2> QED BY <2>1 DEF saleVars, Of
<1>9. ASSUME NEW h \in Handler, NEW change \in Changes,
             Rewrites(h) \/ SavesRows(h, change)
      PROVE  Charged'
  <2>1. Entered(h)
    BY <1>9, EntersEffect
  <2> QED BY <2>1 DEF Entered, sheetVars, saleVars, Of
<1>10. ASSUME NEW h \in Handler, Saves(h) PROVE Charged'
  <2>1. /\ call'[h].at = "idle"
        /\ \A g \in Handler \ {h} : call'[g] = call[g]
        /\ cleared \subseteq cleared' /\ unpaid' = unpaid
        /\ Of(h) \notin cleared' => \A l \in Line : call[h].change[l] # "null"
        /\ price' = [price EXCEPT ![Of(h)] = Changed(@, call[h].change)]
    BY <1>0, <1>10 DEF Saves, Leaves, Idle, saleVars
  <2>2. \A s \in Sheet \ cleared', l \in Line : price'[s][l] # "null"
    BY <1>0, <2>1 DEF Changed
  <2> QED BY <2>1, <2>2 DEF Of
<1>11. ASSUME NEW lost \in SUBSET Handler, Breaks(lost) PROVE Charged'
  <2>1. /\ \A h \in Handler : call'[h] = Idle \/ call'[h] = call[h]
        /\ UNCHANGED <<price, unpaid, cleared>>
    BY <1>11 DEF Breaks, sheetVars, saleVars
  <2>2. Idle.at = "idle"
    BY DEF Idle
  <2> QED BY <2>1, <2>2 DEF Of
<1> QED
  BY <1>1, <1>2, <1>3, <1>4, <1>5, <1>6, <1>7, <1>8, <1>9, <1>10, <1>11, UntouchedType
     DEF Next, Asks, Serves

-----------------------------------------------------------------------------
(* The inductive invariant. *)
IInv ==
  /\ TypeOK /\ Known /\ Sold /\ Shown
  /\ Marked /\ Alone /\ Totals /\ Priced /\ Charged

LEMMA InitInv == Init => IInv
<1> SUFFICES ASSUME Init PROVE IInv
  OBVIOUS
<1>1. TypeOK
  BY TypeInit
<1>2. Known /\ Alone
  BY DEF Init, Known, Alone, Is, Idle
<1>3. Sold /\ Shown /\ Marked
  BY DEF Init, Sold, Shown, Marked, OneSalePerSheet, Is, Of, Idle, Converting, Editing
<1>4. Totals /\ Priced
  BY DEF Init, Sheet, Totals, TotalIsOfLines, Priced, PricedIsPriced, Is, Idle
<1>5. Charged
  BY DEF Init, Charged, NothingGivenAway, Idle, NoRows
<1> QED BY <1>1, <1>2, <1>3, <1>4, <1>5 DEF IInv

LEMMA StepInv == IInv /\ [Next]_vars => IInv'
BY TypeStep, KnownStep, SoldStep, ShownStep, MarkedStep, AloneStep, TotalsStep,
   PricedStep, ChargedStep
   DEF IInv

LEMMA InvHolds == Spec => []IInv
BY InitInv, StepInv, PTL DEF Spec

(* The state has its types, whatever the requests do. *)
THEOREM TypeIsInvariant == Spec => []TypeOK
<1>1. IInv => TypeOK
  BY DEF IInv
<1> QED BY <1>1, InvHolds, PTL

(* The key of the sale: a sheet is sold once, however often it is          *)
(* converted, by however many at a time, and whatever is lost (convert).   *)
THEOREM SoldOnce == Spec => []OneSalePerSheet
<1>1. IInv => OneSalePerSheet
  BY DEF IInv, Sold
<1> QED BY <1>1, InvHolds, PTL

(* The invoice of a converted sheet charges for the lines it shows, unless *)
(* an edit met the conversion (convert, update, savePrices).               *)
THEOREM InvoiceIsAsShown == Spec => []SoldAsShown
<1>1. IInv => SoldAsShown
  BY DEF IInv, Sold, Shown, SoldAsShown
<1> QED BY <1>1, InvHolds, PTL

(* A converted sheet stays converted, or savePrices was under way when it  *)
(* was converted (convert, cancel, update, savePrices).                    *)
Keeps == \A s \in Sheet : status[s] = "CONVERTED" =>
           status'[s] = "CONVERTED" \/ s \in Blank \cap edited

LEMMA ConvertedStep ==
  ASSUME TypeOK, Known, Shown, [Next]_vars
  PROVE  Keeps
<1>1. CASE UNCHANGED vars
  BY <1>1 DEF vars, sheetVars, Keeps
<1>2. ASSUME NEW s \in Sheet, Create(s) \/ Lapses(s) \/ Cancel(s) PROVE Keeps
  BY <1>2 DEF Create, Lapses, Cancel, Open, Unconverted, TypeOK, Keeps
<1>3. ASSUME NEW h \in Handler, Asks(h) PROVE Keeps
  BY <1>3 DEF Asks, ConvertReads, EditReads, ExtendReads, sheetVars, Keeps
<1>4. ASSUME NEW h \in Handler, Marks(h) PROVE Keeps
  BY <1>4 DEF Marks, TypeOK, Keeps
<1>5. ASSUME NEW h \in Handler, Saves(h) PROVE Keeps
  BY <1>5 DEF Saves, Is, Of, TypeOK, Known, Shown, Editing, Keeps
<1>6. ASSUME NEW h \in Handler, Serves(h), ~ Marks(h), ~ Saves(h) PROVE Keeps
  BY <1>6
  DEF Serves, LooksUp, Refuses, Sells, Rewrites, SavesRows, Enters, Updates, Extends,
      sheetVars, Keeps
<1>7. ASSUME NEW lost, Breaks(lost) PROVE Keeps
  BY <1>7 DEF Breaks, sheetVars, Keeps
<1> QED BY <1>1, <1>2, <1>3, <1>4, <1>5, <1>6, <1>7 DEF Next

THEOREM ConversionStays == Spec => ConvertedStays
<1>1. IInv /\ [Next]_vars => [Keeps]_vars
  BY ConvertedStep DEF IInv
<1> QED BY <1>1, InvHolds, PTL DEF Spec, ConvertedStays, Keeps

(* Cancelling keeps a sheet from being sold, unless its conversion broke   *)
(* after the sale, or savePrices took the mark back (cancel, convert).     *)
THEOREM CancelledStaysUnsold == Spec => []CancelledIsUnsold
<1>1. IInv => CancelledIsUnsold
  BY DEF IInv, Marked, CancelledIsUnsold
<1> QED BY <1>1, InvHolds, PTL

(* A quotation shows the totals of its lines, unless two updates met.      *)
THEOREM TotalsAreOfLines == Spec => []TotalIsOfLines
<1>1. IInv => TotalIsOfLines
  BY DEF IInv, Totals
<1> QED BY <1>1, InvHolds, PTL

(* A blank quotation is PRICED when all its rows count as priced, unless   *)
(* two managers met (savePrices).                                          *)
THEOREM PricedCountsEveryRow == Spec => []PricedIsPriced
<1>1. IInv => PricedIsPriced
  BY DEF IInv, Priced
<1> QED BY <1>1, InvHolds, PTL

(* No invoice gives a row away, whatever managers save at one time, unless *)
(* a null was saved for a price (savePrices, convert).                     *)
THEOREM EveryRowIsCharged == Spec => []NothingGivenAway
<1>1. IInv => NothingGivenAway
  BY DEF IInv, Charged
<1> QED BY <1>1, InvHolds, PTL
=============================================================================
