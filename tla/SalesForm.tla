----------------------------- MODULE SalesForm -----------------------------
(***************************************************************************)
(* The form in which a clerk writes a sales invoice (SI) or order (SO): the *)
(* customer, the order an invoice is made of, the lines, and the part of    *)
(* them that is put off to a new order.  Products with the prices of the    *)
(* customer, the document to edit and the rows read from a message are      *)
(* asked of the server, and their answers come in any order, or fail.       *)
(*                                                                          *)
(* Left out: prices, discounts, stock and payments, on which the form may   *)
(* refuse to save besides; order and number of the empty rows.              *)
(***************************************************************************)
EXTENDS Integers, FiniteSets

CONSTANTS Customers, Guest,
          Orders, NoOrder,
          Buyer,        \* Buyer[o]: the customer of an order
          MaxLines, MaxQuantity

ASSUME SalesFormAssumption ==
  /\ Guest \notin Customers /\ NoOrder \notin Orders
  /\ Buyer \in [Orders -> Customers \cup {Guest}]
  /\ MaxLines \in Nat /\ MaxQuantity \in Nat

VARIABLES document,  \* kind of the document, and what is edited, if anything
          stage,     \* what the form waits for
          customer,
          source,    \* the order that the invoice is made of
          line,      \* line[k]: a row of the form
          splitMode,
          products,  \* whose prices the form shows
          requests,  \* the customers whose products are asked for, their answers listened to
          panel,     \* the import of a message
          failed     \* the last answer with products that was listened to was an error

formVars == <<document, stage, customer, source, line, splitMode, products, requests, panel, failed>>

Anyone == Customers \cup {Guest}
Keys    == 1 .. MaxLines
Amounts == 1 .. MaxQuantity

-----------------------------------------------------------------------------
(***************************************************************************)
(* Lines                                                                   *)
(***************************************************************************)

\* side is the document that the line goes to, product whether product and unit are
\* chosen, link the order whose line it fulfils;
\* review says of an imported line whether it is to be looked at, readFor for whom its
\* message was read, and carried that the clerk has since made the form another's over it.
Blank == [side |-> "none", product |-> FALSE, quantity |-> 0, link |-> NoOrder,
          review |-> "none", readFor |-> Guest, carried |-> FALSE]

Used     == {k \in Keys : line[k] # Blank}
ImportedRows == {k \in Used : line[k].review # "none"}
On(side) == {k \in Used : line[k].side = side}
FirstBlank    == {k \in Keys \ Used : \A j \in Keys \ Used : k <= j}

\* A document with lines for the goods of o, in one row or two.
LinesOf(o) ==
  LET goods(q) == [Blank EXCEPT !.side = "SI", !.product = TRUE, !.quantity = q, !.link = o]
  IN  {[k \in Keys |-> IF k <= Cardinality(DOMAIN b) THEN goods(b[k]) ELSE Blank] :
         b \in UNION {[1 .. n -> Amounts] : n \in {m \in {1, 2} : m <= MaxLines}}}

\* editSalesLine: a change by the clerk takes the doubt away.
EditSalesLine(k, x) ==
  [line EXCEPT ![k] = [x EXCEPT !.review = IF @ = "doubt" /\ x # line[k] THEN "done" ELSE @]]

\* splitSalesFormLine: what stays of line k when q of its goods are put off, and what goes.
SplitInvoiceLine(k, q) == EditSalesLine(k, [line[k] EXCEPT !.quantity = @ - q])
SplitOrderLine(k, q) == [line[k] EXCEPT !.side = "SO", !.link = NoOrder, !.quantity = q]

IdlePanel == [busy |-> FALSE, timely |-> FALSE, asked |-> Guest]

-----------------------------------------------------------------------------
(***************************************************************************)
(* Products                                                                *)
(***************************************************************************)

\* The requests for earlier customers are not listened to any more; an answer that
\* nobody listens to changes nothing.
Listened(asked) == {}

\* The panel of imports stands still.
Disabled(st, o) == st = "saving" \/ o # NoOrder

\* What a change of customer, source or stage sets off: a request for products, and the
\* answer that the panel waits for is out of date.
Turn(c, o, st) ==
  /\ customer' = c /\ source' = o /\ stage' = st
  /\ requests' = IF c = customer THEN requests ELSE Listened(requests) \cup {c}
  /\ panel' = IF c # customer \/ Disabled(st, o) # Disabled(stage, source)
                THEN [panel EXCEPT !.timely = FALSE] ELSE panel

\* The answer to the request for the products and prices of c.
AnswerProducts(c, ok) ==
  /\ c \in requests
  /\ requests' = requests \ {c}
  /\ products' = IF ok THEN c ELSE products
  /\ failed' = ~ok
  /\ UNCHANGED <<document, stage, customer, source, line, splitMode, panel>>

\* Customers, guest products, accounts and orders; the form opens or waits for its document.
AnswerLists(ok) ==
  /\ stage = "loading"
  /\ products' = IF ok THEN Guest ELSE products
  /\ stage' = IF document.edited THEN "hydrating" ELSE "ready"
  /\ UNCHANGED <<document, customer, source, line, splitMode, requests, panel, failed>>

\* hydrate: the document as it was saved, its order if it was made of one.
Hydrate(ok) ==
  /\ stage = "hydrating"
  /\ IF ok THEN \E o \in Orders \cup {NoOrder}, c \in Anyone :
                  /\ document.kind = "SO" => o = NoOrder
                  /\ o # NoOrder => c = Buyer[o]
                  /\ Turn(c, o, "ready") /\ line' \in LinesOf(o)
           ELSE Turn(customer, source, "ready") /\ UNCHANGED line
  /\ UNCHANGED <<document, splitMode, products, failed>>

-----------------------------------------------------------------------------
(***************************************************************************)
(* The clerk                                                               *)
(***************************************************************************)

\* Fields can be used while the form is saved.
Open == stage \in {"ready", "saving"}

\* An invoice that is written, of which a part may be put off.
Divisible == document.kind = "SI" /\ ~document.edited

\* The second list of lines is there.
OrderSide == Divisible /\ source = NoOrder /\ (splitMode \/ On("SO") # {})

Sides == IF OrderSide THEN {"SI", "SO"} ELSE {"SI"}

Editing == Open /\ UNCHANGED <<document, stage, customer, source, splitMode, products, requests, panel, failed>>

\* changeCustomer keeps the lines, those of a message as they were read for the old one.
ChangeCustomer(c) ==
  /\ Open /\ source = NoOrder /\ c # customer
  /\ Turn(c, source, stage)
  /\ line' = [k \in Keys |-> [line[k] EXCEPT !.carried = line[k].review # "none" /\ line[k].readFor # c]]
  /\ UNCHANGED <<document, splitMode, products, failed>>

Unlinked == [k \in Keys |-> [line[k] EXCEPT !.link = NoOrder]]

Load_KeepPutOff(o) == {[k \in Keys |-> IF k \in On("SO") THEN line[k] ELSE x[k]] : x \in LinesOf(o)}

\* The lines of the order and no others.
Load(o) == LinesOf(o)

\* loadOrder: the invoice is made of what is left of an order, or no longer.
LoadOrder(o) ==
  /\ Open /\ Divisible /\ o # source
  /\ IF o = NoOrder THEN line' = Unlinked ELSE line' \in Load(o)
  /\ Turn(IF o = NoOrder THEN customer ELSE Buyer[o], o, stage)
  /\ UNCHANGED <<document, splitMode, products, failed>>

\* addLine, and the choice of product and unit in an empty row.
AddFormLine(side) ==
  /\ Editing /\ side \in Sides
  /\ \E k \in FirstBlank : line' = [line EXCEPT ![k] = [Blank EXCEPT !.side = side, !.product = TRUE]]

\* insertCustomerHistory: goods the customer has had, whose quantity is still to come.
InsertCustomerHistory(side) == source = NoOrder /\ customer # Guest /\ AddFormLine(side)

\* updateLine
UpdateLine(k, q) ==
  /\ Editing /\ line[k].side \in Sides
  /\ line' = EditSalesLine(k, [line[k] EXCEPT !.quantity = q])

\* selectProduct, selectUnit: the goods of an order stay what they are.
SelectProduct(k) ==
  /\ Editing /\ line[k].side \in Sides
  /\ ~(source # NoOrder /\ line[k].link # NoOrder)
  /\ line' = EditSalesLine(k, [line[k] EXCEPT !.product = TRUE])

RemoveLine(k) ==
  /\ Editing /\ line[k].side \in Sides
  /\ line' = [line EXCEPT ![k] = Blank]

MoveToOrder(k) ==
  /\ Editing /\ Divisible /\ source = NoOrder /\ line[k].side = "SI" /\ line[k].product
  /\ line' = [line EXCEPT ![k].side = "SO"]

MoveToInvoice(k) ==
  /\ Editing /\ OrderSide /\ line[k].side = "SO" /\ line[k].product
  /\ line' = [line EXCEPT ![k].side = "SI"]

StartSplitting ==
  /\ Open /\ Divisible /\ ~splitMode
  /\ splitMode' = TRUE
  /\ UNCHANGED <<document, stage, customer, source, line, products, requests, panel, failed>>

\* applySplitLine: an order that the invoice is made of keeps the rest itself.
ApplySplitLine(k, q) ==
  /\ Editing /\ Divisible /\ splitMode
  /\ line[k].side = "SI" /\ line[k].product /\ q \in 1 .. line[k].quantity - 1
  /\ IF source = NoOrder
       THEN \E j \in FirstBlank : line' = [SplitInvoiceLine(k, q) EXCEPT ![j] = SplitOrderLine(k, q)]
       ELSE line' = SplitInvoiceLine(k, q)

-----------------------------------------------------------------------------
(***************************************************************************)
(* Import and saving                                                       *)
(***************************************************************************)

\* parse of the panel
SendMessage ==
  /\ Open /\ ~panel.busy /\ ~Disabled(stage, source)
  /\ panel' = [busy |-> TRUE, timely |-> TRUE, asked |-> customer]
  /\ UNCHANGED <<document, stage, customer, source, line, splitMode, products, requests, failed>>

Timely_SameCustomer == panel.asked = customer

\* The form is still as it was when the message was sent, and was so ever since.
Timely == panel.timely

\* A row, put in the first empty one; a doubtful one may lack everything.
ImportedLine(product, q, doubt) ==
  [Blank EXCEPT !.side = "SI", !.product = product, !.quantity = q,
                !.review = IF doubt THEN "doubt" ELSE "done", !.readFor = panel.asked]

AppendImportedLines(x) == \E k \in FirstBlank : line' = [line EXCEPT ![k] = x]

AnswerMessage(ok) ==
  /\ panel.busy
  /\ panel' = IdlePanel
  /\ IF ok /\ Timely
       THEN \E doubt \in BOOLEAN, product \in BOOLEAN, q \in 0 .. MaxQuantity :
              /\ ~(product /\ q > 0) => doubt
              /\ AppendImportedLines(ImportedLine(product, q, doubt))
       ELSE UNCHANGED line
  /\ UNCHANGED <<document, stage, customer, source, splitMode, products, requests, failed>>

Filled(side) == {k \in On(side) : line[k].product /\ line[k].quantity > 0}

\* importValidationError
ImportsChecked == \A k \in ImportedRows : line[k].review = "done" /\ line[k].product /\ line[k].quantity > 0

\* validate
Valid ==
  /\ ImportsChecked
  /\ \A k \in Used : line[k].product => line[k].quantity > 0
  /\ Filled("SI") # {}

Save ==
  /\ stage = "ready" /\ Valid
  /\ Turn(customer, source, "saving")
  /\ UNCHANGED <<document, line, splitMode, products, failed>>

\* The page closes the form and forgets it, or the clerk goes on with it.
AnswerSave(ok) ==
  /\ stage = "saving"
  /\ IF ok THEN /\ stage' = "closed" /\ customer' = Guest /\ source' = NoOrder
                /\ line' = [k \in Keys |-> Blank] /\ requests' = {} /\ panel' = IdlePanel
           ELSE Turn(customer, source, "ready") /\ UNCHANGED line
  /\ UNCHANGED <<document, splitMode, products, failed>>

-----------------------------------------------------------------------------

FormInit ==
  /\ document \in [kind : {"SI", "SO"}, edited : BOOLEAN]
  /\ stage     = "loading"
  /\ customer  = Guest
  /\ source    = NoOrder
  /\ line      = [k \in Keys |-> Blank]
  /\ splitMode = FALSE
  /\ products  = NoOrder
  /\ requests  = {Guest}
  /\ panel     = IdlePanel
  /\ failed    = FALSE

\* The fields above the lines, and the message to import; SelectProduct and the like
\* are of a row, AddFormLine of the panel it is in.
FillForm ==
  \/ \E c \in Anyone : ChangeCustomer(c)
  \/ \E o \in Orders \cup {NoOrder} : LoadOrder(o)
  \/ SendMessage

EditPanel == \E side \in {"SI", "SO"} : AddFormLine(side) \/ InsertCustomerHistory(side)

EditRow ==
  \E k \in Used :
    \/ SelectProduct(k) \/ RemoveLine(k) \/ MoveToOrder(k) \/ MoveToInvoice(k)
    \/ \E q \in Amounts : UpdateLine(k, q) \/ ApplySplitLine(k, q)

FormNext ==
  \/ \E ok \in BOOLEAN : AnswerLists(ok) \/ Hydrate(ok) \/ AnswerMessage(ok) \/ AnswerSave(ok)
  \/ \E c \in Anyone, ok \in BOOLEAN : AnswerProducts(c, ok)
  \/ FillForm \/ EditPanel \/ EditRow
  \/ StartSplitting \/ Save

-----------------------------------------------------------------------------
(***************************************************************************)
(* Properties                                                              *)
(***************************************************************************)

\* Answers come too late without harm: once nothing is awaited the form shows the prices
\* of the customer it is for, unless their answer failed; and the rows of a message stand
\* in the form of the customer for whom it was read, unless the clerk changed the customer
\* over them, which keeps the lines; among those of an order they never stand.
AnswersInTime ==
  /\ (Open /\ ~failed /\ requests = {}) => products = customer
  /\ \A k \in ImportedRows : (line[k].readFor = customer \/ line[k].carried) /\ source = NoOrder

\* Goods that an order holds are not ordered a second time: an invoice that is made of
\* an order puts nothing off to a new one, what it puts off is of no order, and what
\* it fulfils is of its own, whatever is split, moved and loaded before it is saved.
NothingOrderedTwice ==
  Open =>
    /\ source # NoOrder => On("SO") = {}
    /\ \A k \in On("SI") : line[k].link \in {NoOrder, source}
    /\ \A k \in On("SO") : line[k].link = NoOrder
=============================================================================
