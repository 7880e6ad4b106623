----------------------------- MODULE Quotations -----------------------------
(***************************************************************************)
(* QuotationsService and BlankQuotationsService: sheets of prices that     *)
(* cost no stock until they are converted into an invoice.  A blank one    *)
(* has rows in words, which a manager prices.  Requests of several people  *)
(* run concurrently; a step is one await, or one statement of a            *)
(* transaction where others can get between, and the API may stop anywhere.*)
(* Edits are numbered, and lines are named by the edit that wrote them.    *)
(***************************************************************************)
EXTENDS Integers, FiniteSets

CONSTANTS
  Quotation,
  Blank,
  Line,       \* names for the rows of a blank quotation
  Handler,    \* requests the API may be serving at one time
  NoSheet,    \* neither a Quotation nor a Blank
  MaxSheets,  \* bound: sheets in a behaviour
  MaxEdits,   \* bound: edits in a behaviour
  MaxErrors   \* bound: calls that fail and restarts of the API

Sheet == Quotation \cup Blank

ASSUME SheetAssumption == Quotation \cap Blank = {} /\ NoSheet \notin Sheet
ASSUME BoundsAssumption == MaxEdits \in Nat /\ MaxErrors \in Nat

VARIABLES
  status,
  lines,      \* the edits whose lines a sheet has
  total,      \* the edit that computed the totals it shows
  price,      \* the rows of a blank quotation and what is known of their prices
  valid,      \* sheets that have not lapsed
  sales,      \* invoices with the key of a sheet
  sold,       \* what the first of them charges for
  unpaid,     \* the rows of a blank quotation it charges nothing for
  call,       \* the requests being served
  crossed,    \* history: sheets with two edits in their transactions at a time
  edited,     \* history: sheets an edit met in the middle of a conversion
  broken,     \* history: sheets with a conversion lost after its sale
  cleared,    \* history: sheets with a row saved with a null for its price
  edits,      \* edits so far
  errors      \* failures so far

sheetVars == <<status, lines, total, price, valid>>
saleVars == <<sales, sold, unpaid>>
history == <<crossed, edited, broken, cleared, edits, errors>>
vars == <<sheetVars, saleVars, call, history>>

(* A row is unpriced until savePrices is given a price for it.  A null is  *)
(* taken for one: it sets pricedAt and leaves no finalPrice.               *)
RowStates == {"absent", "unpriced", "null", "priced"}
Rows == [Line -> RowStates]
Changes == [Line -> RowStates \cup {"kept"}]
NoRows == [l \in Line |-> "absent"]
Untouched == [l \in Line |-> "kept"]

Idle == [at |-> "idle", sheet |-> NoSheet, lines |-> {}, mine |-> 0,
         read |-> NoRows, change |-> Untouched, all |-> FALSE]

Init ==
  /\ status = [s \in Sheet |-> "NONE"]
  /\ lines = [s \in Sheet |-> {}] /\ total = [s \in Sheet |-> 0]
  /\ price = [s \in Sheet |-> NoRows] /\ valid = {}
  /\ sales = [s \in Sheet |-> 0] /\ sold = [s \in Sheet |-> {}]
  /\ unpaid = [s \in Sheet |-> {}]
  /\ call = [h \in Handler |-> Idle]
  /\ crossed = {} /\ edited = {} /\ broken = {} /\ cleared = {}
  /\ edits = 0 /\ errors = 0

-----------------------------------------------------------------------------
Is(h, label) == call[h].at = label
Of(h) == call[h].sheet
StepsTo(h, label) == call' = [call EXCEPT ![h].at = label]
Leaves(h) == call' = [call EXCEPT ![h] = Idle]
Begins(h, label, s, number) ==
  /\ Is(h, "idle")
  /\ call' = [call EXCEPT ![h] =
       [Idle EXCEPT !.at = label, !.sheet = s, !.lines = lines[s], !.mine = number,
             !.read = price[s]]]

Unconverted == {"ACTIVE", "OPEN", "PRICED"}
Open(s) == status[s] \in Unconverted

Unpriced(rows) == {l \in Line : rows[l] = "unpriced"}
Priceless(rows) == {l \in Line : rows[l] \in {"unpriced", "null"}}

(* The other requests that are somewhere with a sheet. *)
Meets(h, s, labels) == \E g \in Handler \ {h} : Of(g) = s /\ call[g].at \in labels

Create(s) ==
  /\ status[s] = "NONE" /\ Cardinality({t \in Sheet : status[t] # "NONE"}) < MaxSheets
  /\ status' = [status EXCEPT ![s] = IF s \in Blank THEN "OPEN" ELSE "ACTIVE"]
  /\ lines' = [lines EXCEPT ![s] = {0}]
  /\ \E asked \in SUBSET Line \ {{}} :
       price' = IF s \in Blank
                THEN [price EXCEPT ![s] = [l \in Line |-> IF l \in asked THEN "unpriced" ELSE "absent"]]
                ELSE price
  /\ valid' = valid \cup {s}
  /\ UNCHANGED <<total, saleVars, call, history>>

Lapses(s) ==
  /\ s \in valid /\ Open(s)
  /\ valid' = valid \ {s}
  /\ UNCHANGED <<status, lines, total, price, saleVars, call, history>>

-----------------------------------------------------------------------------
(* convert *)

(* A variant that goes by the status of a blank quotation.                 *)
ConvertsPriced(h, s) ==
  /\ Open(s) /\ s \in valid /\ (s \in Blank => status[s] = "PRICED")
  /\ Begins(h, "looking", s, 0)
  /\ UNCHANGED <<sheetVars, saleVars, history>>

(* Every row must have its pricedAt; it is sold at finalPrice ?? 0.        *)
ConvertReads(h, s) ==
  /\ Open(s) /\ s \in valid /\ Unpriced(price[s]) = {}
  /\ Begins(h, "looking", s, 0)
  /\ UNCHANGED <<sheetVars, saleVars, history>>

(* A variant that looks for an earlier invoice only when it is inserted.   *)
LooksLate(h) ==
  /\ Is(h, "looking") /\ StepsTo(h, "selling")
  /\ UNCHANGED <<sheetVars, saleVars, history>>

(* createInvoice, whose key is made from the sheet, looks for an invoice   *)
(* with that key before anything else ...                                  *)
LooksUp(h) ==
  /\ Is(h, "looking")
  /\ StepsTo(h, IF sales[Of(h)] > 0 THEN "marking" ELSE "selling")
  /\ UNCHANGED <<sheetVars, saleVars, history>>

(* ... may refuse the sale, for want of goods or of a customer ...         *)
Refuses(h) ==
  /\ Is(h, "selling") /\ Leaves(h)
  /\ UNCHANGED <<sheetVars, saleVars, history>>

(* A variant whose key is not unique.                                      *)
SellsAgain(h) ==
  /\ Is(h, "selling")
  /\ sales' = [sales EXCEPT ![Of(h)] = @ + 1]
  /\ sold' = [sold EXCEPT ![Of(h)] = call[h].lines]
  /\ StepsTo(h, "marking")
  /\ UNCHANGED <<sheetVars, unpaid, history>>

(* ... and commits it, or meets the key of a sale committed meanwhile.     *)
Sells(h) ==
  /\ Is(h, "selling")
  /\ \/ sales[Of(h)] > 0 /\ UNCHANGED saleVars
     \/ /\ sales[Of(h)] = 0
        /\ sales' = [sales EXCEPT ![Of(h)] = 1]
        /\ sold' = [sold EXCEPT ![Of(h)] = call[h].lines]
        /\ unpaid' = [unpaid EXCEPT ![Of(h)] = Priceless(call[h].read)]
  /\ StepsTo(h, "marking")
  /\ UNCHANGED <<sheetVars, history>>

(* A variant that leaves a sheet alone that was cancelled meanwhile.       *)
MarksOpen(h) ==
  /\ Is(h, "marking")
  /\ status' = [status EXCEPT ![Of(h)] = IF Open(Of(h)) THEN "CONVERTED" ELSE @]
  /\ edited' = IF Meets(h, Of(h), {"editing", "rewriting"}) THEN edited \cup {Of(h)} ELSE edited
  /\ Leaves(h)
  /\ UNCHANGED <<lines, total, price, valid, saleVars, crossed, broken, cleared, edits, errors>>

Marks(h) ==
  /\ Is(h, "marking")
  /\ status' = [status EXCEPT ![Of(h)] = "CONVERTED"]
  /\ edited' = IF Meets(h, Of(h), {"editing", "rewriting"}) THEN edited \cup {Of(h)} ELSE edited
  /\ Leaves(h)
  /\ UNCHANGED <<lines, total, price, valid, saleVars, crossed, broken, cleared, edits, errors>>

-----------------------------------------------------------------------------
(* update and savePrices check the status before their transaction, which  *)
(* does not look at it again.                                              *)

(* A variant without the check.                                            *)
EditsAnything(s) == status[s] # "NONE"

Editable(s) == Open(s)

EditReads(h, s) ==
  /\ Editable(s) /\ edits < MaxEdits
  /\ Begins(h, "editing", s, edits + 1)
  /\ edits' = edits + 1
  /\ UNCHANGED <<sheetVars, saleVars, crossed, edited, broken, cleared, errors>>

(* The first statements of the transaction, whose effect nobody sees yet.  *)
Enters(h, change, all) ==
  /\ call' = [call EXCEPT ![h] =
       [@ EXCEPT !.at = "rewriting", !.lines = lines[Of(h)], !.read = NoRows,
                 !.change = change, !.all = all]]
  /\ crossed' = IF Meets(h, Of(h), {"rewriting"}) THEN crossed \cup {Of(h)} ELSE crossed
  /\ UNCHANGED <<sheetVars, saleVars, edited, broken, cleared, edits, errors>>

(* update finds and deletes the lines that are there. *)
Rewrites(h) ==
  /\ Is(h, "editing") /\ Of(h) \in Quotation
  /\ Enters(h, Untouched, FALSE)

(* What savePrices may be asked for: rows it has read and that are still   *)
(* there to be priced, cleared or removed, others to be added, and not all *)
(* to be removed.  Rows another transaction has written are locked.        *)
Savable(h, change) ==
  LET made(p) == {l \in Line : change[l] = p}
      there == {l \in Line : call[h].read[l] # "absent" /\ price[Of(h)][l] # "absent"}
      read == {l \in Line : call[h].read[l] # "absent"}
  IN /\ \A p \in {"priced", "null", "absent"} : made(p) \subseteq there
     /\ \A l \in made("unpriced") : price[Of(h)][l] = "absent"
     /\ made("absent") # {} /\ read \subseteq made("absent") => made("unpriced") # {}
     /\ \A g \in Handler \ {h} : Of(g) = Of(h) =>
          \A l \in Line : change[l] = "kept" \/ call[g].change[l] = "kept"

Changed(rows, change) == [l \in Line |-> IF change[l] = "kept" THEN rows[l] ELSE change[l]]
AllPriced(rows) == rows # NoRows /\ Unpriced(rows) = {}

(* A variant that counts the prices before it adds rows.                   *)
SavesRowsEarly(h, change) ==
  /\ Is(h, "editing") /\ Of(h) \in Blank /\ Savable(h, change)
  /\ Enters(h, change, AllPriced(Changed(price[Of(h)],
       [l \in Line |-> IF change[l] = "unpriced" THEN "kept" ELSE change[l]])))

(* savePrices removes, prices and adds rows, and counts the prices as its  *)
(* transaction sees them.                                                  *)
SavesRows(h, change) ==
  /\ Is(h, "editing") /\ Of(h) \in Blank /\ Savable(h, change)
  /\ Enters(h, change, AllPriced(Changed(price[Of(h)], change)))

Interferes(h) ==
  edited' = IF \/ sales[Of(h)] > 0 /\ status[Of(h)] # "CONVERTED"
               \/ Meets(h, Of(h), {"looking", "selling", "marking"})
            THEN edited \cup {Of(h)} ELSE edited

(* A variant that leaves the old lines.                                    *)
AddsLines(h) ==
  /\ Is(h, "rewriting") /\ Of(h) \in Quotation
  /\ lines' = [lines EXCEPT ![Of(h)] = @ \cup {call[h].mine}]
  /\ total' = [total EXCEPT ![Of(h)] = call[h].mine]
  /\ valid' \in {valid, valid \cup {Of(h)}}
  /\ Interferes(h) /\ Leaves(h)
  /\ UNCHANGED <<status, price, saleVars, crossed, broken, cleared, edits, errors>>

(* update commits: lines another update has written since stay beside its  *)
(* own, for the delete has not seen them.                                  *)
Updates(h) ==
  /\ Is(h, "rewriting") /\ Of(h) \in Quotation
  /\ lines' = [lines EXCEPT ![Of(h)] = (@ \ call[h].lines) \cup {call[h].mine}]
  /\ total' = [total EXCEPT ![Of(h)] = call[h].mine]
  /\ valid' \in {valid, valid \cup {Of(h)}}
  /\ Interferes(h) /\ Leaves(h)
  /\ UNCHANGED <<status, price, saleVars, crossed, broken, cleared, edits, errors>>

(* savePrices commits, with the status it has computed. *)
Saves(h) ==
  /\ Is(h, "rewriting") /\ Of(h) \in Blank
  /\ lines' = [lines EXCEPT ![Of(h)] = {call[h].mine}]
  /\ price' = [price EXCEPT ![Of(h)] = Changed(@, call[h].change)]
  /\ cleared' = IF \E l \in Line : call[h].change[l] = "null"
                THEN cleared \cup {Of(h)} ELSE cleared
  /\ status' = [status EXCEPT ![Of(h)] = IF call[h].all THEN "PRICED" ELSE "OPEN"]
  /\ Interferes(h) /\ Leaves(h)
  /\ UNCHANGED <<total, valid, saleVars, crossed, broken, edits, errors>>

-----------------------------------------------------------------------------
(* A variant that cancels whatever the sheet has become.                   *)
CancelsAnything(s) ==
  /\ status[s] # "NONE"
  /\ status' = [status EXCEPT ![s] = "CANCELLED"]
  /\ UNCHANGED <<lines, total, price, valid, saleVars, call, history>>

(* cancel: one conditional statement. *)
Cancel(s) ==
  /\ Open(s)
  /\ status' = [status EXCEPT ![s] = "CANCELLED"]
  /\ UNCHANGED <<lines, total, price, valid, saleVars, call, history>>

ExtendReads(h, s) ==
  /\ s \in Quotation /\ Open(s)
  /\ Begins(h, "extending", s, 0)
  /\ UNCHANGED <<sheetVars, saleVars, history>>

Extends(h) ==
  /\ Is(h, "extending")
  /\ valid' = valid \cup {Of(h)}
  /\ Leaves(h)
  /\ UNCHANGED <<status, lines, total, price, saleVars, history>>

(* Calls fail, or the API stops with all it serves: no transaction stays   *)
(* half done, but a sale stays without its mark.                           *)
Breaks(lost) ==
  /\ errors < MaxErrors /\ errors' = errors + 1
  /\ call' = [h \in Handler |-> IF h \in lost THEN Idle ELSE call[h]]
  /\ broken' = broken \cup {Of(h) : h \in {g \in lost : Is(g, "marking")}}
  /\ UNCHANGED <<sheetVars, saleVars, crossed, edited, cleared, edits>>

-----------------------------------------------------------------------------
Asks(h) == \E s \in Sheet : ConvertReads(h, s) \/ EditReads(h, s) \/ ExtendReads(h, s)

Serves(h) ==
  \/ LooksUp(h) \/ Refuses(h) \/ Sells(h) \/ Marks(h)
  \/ Rewrites(h) \/ Updates(h) \/ Saves(h) \/ Extends(h)
  \/ \E change \in Changes : SavesRows(h, change)

Next ==
  \/ \E s \in Sheet : Create(s) \/ Lapses(s) \/ Cancel(s)
  \/ \E h \in Handler : Asks(h) \/ Serves(h) \/ Breaks({h})
  \/ Breaks(Handler)

Spec == Init /\ [][Next]_vars

(* A request that is being served goes on; nobody has to ask for anything. *)
FairSpec == Spec /\ \A h \in Handler : WF_vars(Serves(h))

-----------------------------------------------------------------------------
Edit == 0 .. MaxEdits

TypeOK ==
  /\ status \in [Sheet -> Unconverted \cup {"NONE", "CONVERTED", "CANCELLED"}]
  /\ lines \in [Sheet -> SUBSET Edit] /\ total \in [Sheet -> Edit]
  /\ price \in [Sheet -> Rows] /\ valid \subseteq Sheet
  /\ sales \in [Sheet -> Nat] /\ sold \in [Sheet -> SUBSET Edit]
  /\ unpaid \in [Sheet -> SUBSET Line]
  /\ call \in [Handler ->
       [at : {"idle", "looking", "selling", "marking", "editing", "rewriting", "extending"},
        sheet : Sheet \cup {NoSheet}, lines : SUBSET Edit, mine : Edit,
        read : Rows, change : Changes, all : BOOLEAN]]
  /\ crossed \subseteq Sheet /\ edited \subseteq Sheet /\ broken \subseteq Sheet
  /\ cleared \subseteq Sheet
  /\ edits \in Edit /\ errors \in 0 .. MaxErrors

(* However many conversions of a sheet run, fail and are tried again, it   *)
(* is sold once: the key of the sale is the sheet's own (convert).         *)
OneSalePerSheet == \A s \in Sheet : sales[s] <= 1

(* A converted sheet shows what its invoice charges for, as the customer   *)
(* has seen and bought it, unless an edit and a conversion overlapped, or  *)
(* an edit came between a sale and its mark (convert, update, savePrices). *)
SoldAsShown ==
  \A s \in Sheet \ edited : status[s] = "CONVERTED" => sold[s] = lines[s]

(* Nothing takes a conversion back, except that savePrices, which writes a *)
(* status without a condition, does when it overlaps with one.             *)
ConvertedStays ==
  [][\A s \in Sheet : status[s] = "CONVERTED" =>
       status'[s] = "CONVERTED" \/ s \in Blank \cap edited]_vars

(* A cancelled sheet is not sold, or it is about to be marked after all,   *)
(* unless the conversion was lost between its sale and its mark, or was    *)
(* taken back by savePrices (cancel, convert).                             *)
CancelledIsUnsold ==
  \A s \in Sheet \ (broken \cup (Blank \cap edited)) :
    status[s] = "CANCELLED" /\ sales[s] > 0 =>
      \E h \in Handler : Of(h) = s /\ Is(h, "marking")

(* The totals of a quotation are those of its lines, unless two updates    *)
(* ran at one time: the second does not see the lines of the first, leaves *)
(* them there and counts only its own (update).                            *)
TotalIsOfLines ==
  \A s \in Quotation \ crossed : status[s] # "NONE" => lines[s] = {total[s]}

(* A blank quotation is PRICED when every row of it counts as priced       *)
(* (pricedAt), also after rows were added to a priced one, unless two      *)
(* managers saved at one time (savePrices).                                *)
PricedIsPriced ==
  \A s \in Blank \ crossed : status[s] = "PRICED" => Unpriced(price[s]) = {}

(* An invoice charges a final price for every row of its sheet, also when  *)
(* managers save rows at one time and the sheet is wrongly PRICED, unless  *)
(* a row was saved with a null for its price: that row counts as priced    *)
(* and is given away (savePrices, convert).                                *)
NothingGivenAway ==
  \A s \in Sheet \ cleared : unpaid[s] = {}

(* Once nothing fails any more, converting a sheet again whose sale was    *)
(* not marked succeeds, whatever may refuse a new sale by then (convert).  *)
RetryHeals ==
  \A h \in Handler, s \in Sheet :
    (errors = MaxErrors /\ Is(h, "looking") /\ Of(h) = s /\ sales[s] > 0)
      ~> status[s] = "CONVERTED"
=============================================================================
