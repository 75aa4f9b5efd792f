----------------------------- MODULE Catalogue -----------------------------
(***************************************************************************)
(* Units and the units of products.  A product has one base unit (isParent) *)
(* in which its stock is counted; the other units are multiples of it.      *)
(*                                                                          *)
(* Names are words: the units of one word differ in upper and lower case    *)
(* only, which the lookups ignore and the unique index does not.  A line of *)
(* a product form or of an import names a unit that exists, or a new one.   *)
(* Left out: categories, brands, prices, the order of display, and whether  *)
(* a unit is in use, which none of these operations reads.                  *)
(***************************************************************************)
EXTENDS Integers, Sequences, FiniteSets

CONSTANTS UnitIds,  \* ids of unit rows
          Words,
          NoWord,   \* the name of a unit that does not exist
          Articles,    \* products, by name
          Factors,
          MaxRows   \* bound on the product units ever created

ASSUME CatalogueAssumption == NoWord \notin Words /\ MaxRows \in Nat

VARIABLES unit,    \* unit[u]: its name
          article,    \* article[p]: "none", "active" or "inactive"
          rows,    \* product units, in the order they were created
          stockIn, \* stockIn[p]: the row that the stock of the product is counted in
          names,   \* the units as the import in progress read them, or <<>>
          muddled  \* products whose rows an import may have confused, see Muddles

catalogueVars == <<unit, article, rows, stockIn, names, muddled>>

Known(table, u)  == table[u] # NoWord
Called(table, w) == {u \in UnitIds : table[u] = w}

\* The unit of a line: one that is known, or a new one of a name that is not.
Resolves(table, u, w) ==
  \/ table[u] = w /\ w # NoWord
  \/ Called(table, w) = {} /\ w \in Words /\ ~Known(unit, u)

Created(table, u, w) == IF Known(table, u) THEN table ELSE [table EXCEPT ![u] = w]

RowsOf(p)     == {r \in DOMAIN rows : rows[r].of = p}
BaseRows(p)   == {r \in RowsOf(p) : rows[r].base}
RowOf(p, u, f, base, parent, active) ==
  [of |-> p, unit |-> u, factor |-> f, base |-> base, parent |-> parent, active |-> active]

-----------------------------------------------------------------------------
(***************************************************************************)
(* The product form                                                        *)
(***************************************************************************)

\* The base line comes first; the other lines hang off it.
CreateProduct(p, u, w) ==
  /\ article[p] = "none" /\ Len(rows) < MaxRows
  /\ Resolves(unit, u, w)
  /\ unit' = Created(unit, u, w)
  /\ article' = [article EXCEPT ![p] = "active"]
  /\ rows' = Append(rows, RowOf(p, u, 1, TRUE, 0, TRUE))
  /\ stockIn' = [stockIn EXCEPT ![p] = Len(rows) + 1]
  /\ UNCHANGED <<names, muddled>>

CreateProductWith(p, u, w, v, x, f) ==
  /\ article[p] = "none" /\ Len(rows) + 1 < MaxRows
  /\ Resolves(unit, u, w)
  /\ Resolves(Created(unit, u, w), v, x)
  /\ unit' = Created(Created(unit, u, w), v, x)
  /\ article' = [article EXCEPT ![p] = "active"]
  /\ rows' = rows \o <<RowOf(p, u, 1, TRUE, 0, TRUE), RowOf(p, v, f, FALSE, Len(rows) + 1, TRUE)>>
  /\ stockIn' = [stockIn EXCEPT ![p] = Len(rows) + 1]
  /\ UNCHANGED <<names, muddled>>

BaseLines_Any(p, b) == RowsOf(p)

\* The base line must be the row that update found to be the base: b.
BaseLines(p, b) == {b}

\* What the form knew when it was opened: the first k rows.  Every line that it
\* sends is written, and hangs off the base.
Shown(p, k) == {r \in RowsOf(p) : r <= k}

Written(p, b, base, k) ==
  [r \in DOMAIN rows |->
     IF r = base THEN [rows[r] EXCEPT !.factor = 1, !.base = TRUE, !.parent = 0, !.active = TRUE]
     ELSE IF r \in Shown(p, k) THEN [rows[r] EXCEPT !.base = FALSE, !.parent = b]
     ELSE rows[r]]

\* Editing a line: the base may be given another unit, the others another
\* factor as well, or be taken in or out of use.
UpdateProduct(p, b, base, k, u, w) ==
  /\ base \in Shown(p, k) /\ Resolves(unit, u, w)
  /\ \E r \in Shown(p, k) : \E f \in IF r = base THEN {1} ELSE Factors :
       \E active \in IF r = base THEN {TRUE} ELSE BOOLEAN :
         rows' = [Written(p, b, base, k) EXCEPT ![r].unit = u, ![r].factor = f, ![r].active = active]
  /\ unit' = Created(unit, u, w)
  /\ UNCHANGED <<article, stockIn, names, muddled>>

\* Or adding one.
AddLine(p, b, base, k, u, w) ==
  /\ base \in Shown(p, k) /\ Len(rows) < MaxRows /\ Resolves(unit, u, w)
  /\ \E f \in Factors : rows' = Append(Written(p, b, base, k), RowOf(p, u, f, FALSE, b, TRUE))
  /\ unit' = Created(unit, u, w)
  /\ UNCHANGED <<article, stockIn, names, muddled>>

ToggleStatus(p, status) ==
  /\ article[p] # "none"
  /\ article' = [article EXCEPT ![p] = status]
  /\ UNCHANGED <<unit, rows, stockIn, names, muddled>>

-----------------------------------------------------------------------------
(***************************************************************************)
(* The import                                                              *)
(***************************************************************************)

\* massImport reads the units once, for all its products.
BeginImport ==
  /\ names = <<>>
  /\ names' = unit
  /\ UNCHANGED <<unit, article, rows, stockIn, muddled>>

EndImport ==
  /\ names # <<>> /\ names' = <<>>
  /\ UNCHANGED <<unit, article, rows, stockIn, muddled>>

\* A product that exists keeps the name of its base unit.
SameBase(p, w) == \E b \in BaseRows(p) : rows[b].active /\ unit[rows[b].unit] = w

\* The units of the product that the import does not name go out of use.
Retired(p, words) ==
  [r \in DOMAIN rows |->
     IF rows[r].of = p /\ unit[rows[r].unit] \notin words THEN [rows[r] EXCEPT !.active = FALSE]
     ELSE rows[r]]

\* A line is written over a row of the product with its unit, or appended:
\* the tables that may result, each with the row written.
Upserts(table, line) ==
  LET own == {r \in DOMAIN table : table[r].of = line.of /\ table[r].unit = line.unit}
  IN  IF own = {} THEN {[table |-> Append(table, line), row |-> Len(table) + 1]}
      ELSE {[table |-> [table EXCEPT ![r] = line], row |-> r] : r \in own}

\* The import names the base unit twice, finds another unit of its name, or
\* finds a product that has a unit twice.
Muddles(p, u, w, v, x) ==
  \/ x = w
  \/ article[p] # "none" /\ \E b \in BaseRows(p) : unit[rows[b].unit] = w /\ rows[b].unit # u
  \/ \E r, s \in RowsOf(p) : r # s /\ rows[r].unit = rows[s].unit

\* A product of the import with a base line and a second line (x = NoWord: none).
ImportProduct(p, u, w, v, x, f) ==
  LET words  == {w, x}
      start  == IF article[p] = "none" THEN rows ELSE Retired(p, words)
  IN  /\ names # <<>>
      /\ article[p] = "none" \/ SameBase(p, w)
      /\ Resolves(names, u, w)
      /\ IF x = w THEN v = u ELSE x # NoWord => v # u /\ Resolves(names, v, x)
      /\ \E first \in Upserts(start, RowOf(p, u, 1, TRUE, 0, TRUE)) :
           LET line == RowOf(p, v, f, FALSE, first.row, TRUE)
           IN  /\ IF x = NoWord THEN rows' = first.table
                                ELSE \E second \in Upserts(first.table, line) : rows' = second.table
               /\ Len(rows') <= MaxRows
               /\ stockIn' = IF article[p] = "none" THEN [stockIn EXCEPT ![p] = first.row] ELSE stockIn
      /\ LET based == Created(unit, u, w)
             known == IF x = NoWord THEN based ELSE Created(based, v, x)
         IN  unit' = known /\ names' = [n \in UnitIds |-> IF n \in {u, v} THEN known[n] ELSE names[n]]
      /\ article' = IF article[p] = "none" THEN [article EXCEPT ![p] = "active"] ELSE article
      /\ muddled' = IF Muddles(p, u, w, v, x) THEN muddled \cup {p} ELSE muddled

-----------------------------------------------------------------------------
(***************************************************************************)
(* The units                                                               *)
(***************************************************************************)

\* A name that differs in case only is a warning, which the user may overrule.
CreateUnit(u, w) ==
  /\ ~Known(unit, u)
  /\ unit' = Created(unit, u, w)
  /\ UNCHANGED <<article, rows, stockIn, names, muddled>>

RenameUnit(u, w) ==
  /\ Known(unit, u)
  /\ unit' = [unit EXCEPT ![u] = w]
  /\ UNCHANGED <<article, rows, stockIn, names, muddled>>

-----------------------------------------------------------------------------

CatalogueInit ==
  /\ unit = [u \in UnitIds |-> NoWord]
  /\ article = [p \in Articles |-> "none"]
  /\ rows = <<>> /\ names = <<>>
  /\ stockIn = [p \in Articles |-> 0]
  /\ muddled = {}

EditProduct(p) ==
  \/ \E u \in UnitIds, w \in Words : CreateProduct(p, u, w)
  \/ \E u, v \in UnitIds, w, x \in Words, f \in Factors : CreateProductWith(p, u, w, v, x, f)
  \/ \E b \in BaseRows(p), k \in DOMAIN rows, u \in UnitIds, w \in Words :
       \E base \in BaseLines(p, b) : UpdateProduct(p, b, base, k, u, w) \/ AddLine(p, b, base, k, u, w)
  \/ \E status \in {"active", "inactive"} : ToggleStatus(p, status)

Import ==
  \/ BeginImport \/ EndImport
  \/ \E p \in Articles, u, v \in UnitIds, w \in Words, x \in Words \cup {NoWord}, f \in Factors :
       ImportProduct(p, u, w, v, x, f)

EditUnit ==
  \E u \in UnitIds, w \in Words : CreateUnit(u, w) \/ RenameUnit(u, w)

CatalogueNext == Import \/ EditUnit \/ \E p \in Articles : EditProduct(p)

-----------------------------------------------------------------------------
(***************************************************************************)
(* Properties                                                              *)
(***************************************************************************)

\* "Wajib memiliki tepat 1 Satuan Dasar": whatever was edited, imported or
\* renamed in between, a product has one base unit, in use, with factor 1, its
\* stock is counted in it and its other units hang off it; unless an import
\* named that unit twice, found another of its name, or a unit twice in a product.
OneBaseEach ==
  \A p \in Articles : article[p] # "none" /\ p \notin muddled =>
    \E b \in RowsOf(p) :
      /\ BaseRows(p) = {b} /\ rows[b].active /\ rows[b].factor = 1 /\ stockIn[p] = b
      /\ \A r \in RowsOf(p) \ {b} : rows[r].parent = b
=============================================================================
