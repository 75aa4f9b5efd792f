--------------------------- MODULE MasterRecords ---------------------------
(***************************************************************************)
(* Customers, suppliers, categories and brands, and the pages they are kept *)
(* with.  The four differ in what makes two records look alike, and in      *)
(* whether the database forbids it; kind, which never changes, says which.  *)
(*                                                                          *)
(* A save is a request in two steps: the service reads the records, and     *)
(* then writes in a transaction that locks nothing it has read.  A warning  *)
(* of a record that looks alike goes back to the page, whose user may       *)
(* insist.                                                                  *)
(*                                                                          *)
(* A name is a word in one of two spellings, which the lookups do not tell  *)
(* apart and the unique index does.  Left out: addresses, mail, contact     *)
(* persons, the lists of the pages, and what a customer owes (a request to  *)
(* deactivate one may be refused at any time, which changes nothing).       *)
(***************************************************************************)
EXTENDS Integers, FiniteSets

CONSTANTS RecordIds,
          Terms,      \* the words names are made of
          Phones,
          NoPhone,
          NoRecord,
          Keepers,    \* the users who keep the records
          MaxSaves    \* bound on the writes

ASSUME RecordsAssumption ==
  NoPhone \notin Phones /\ RecordIds \subseteq Nat /\ NoRecord \notin RecordIds /\ MaxSaves \in Nat

VARIABLES kind,     \* the records of this behaviour
          record,   \* record[r]: the row, or Nothing
          audited,  \* audited[r]: what the last audit row says of it, or Nothing
          saves,    \* how often something was written
          form,     \* form[k]: the page of a keeper and its request
          told,     \* pairs of records a user was warned of
          crossed   \* records and pairs written while another request was between its steps

recordVars == <<kind, record, audited, saves, form, told, crossed>>

Kinds == {"customer", "supplier", "category", "brand"}

Nothing == [word |-> "none", capital |-> FALSE, phone |-> NoPhone, active |-> FALSE]

\* Spelling matters where an index tells it apart, telephones where there are any.
Rows(k) ==
  [word    : Terms,
   capital : IF k \in {"category", "brand"} THEN BOOLEAN ELSE {FALSE},
   phone   : IF k \in {"customer", "supplier"} THEN Phones \cup {NoPhone} ELSE {NoPhone},
   active  : {TRUE}]

Idle == [stage |-> "idle", of |-> NoRecord, row |-> Nothing, read |-> Nothing, sees |-> {}, since |-> FALSE]

Exists(r) == record[r] # Nothing
SameName(x, y) == x.word = y.word

-----------------------------------------------------------------------------
(***************************************************************************)
(* What looks like a row x that is to be saved as record own, or as a new   *)
(* one                                                                     *)
(***************************************************************************)

Others(own) == {r \in RecordIds \ {own} : Exists(r)}

NamedAlike_Exact(x, own) == {r \in Others(own) : SameName(record[r], x) /\ record[r].capital = x.capital}

NamedAlike(x, own)  == {r \in Others(own) : SameName(record[r], x)}
PhonedAlike(x, own) == {r \in Others(own) : x.phone # NoPhone /\ record[r].phone = x.phone}

CustomerTwins(x, own) == NamedAlike(x, own) \cup PhonedAlike(x, own)
SupplierTwins(x, own) == NamedAlike(x, own) \cup PhonedAlike(x, own)
CategoryTwins(x, own) == NamedAlike(x, own)
BrandTwins(x, own)    == NamedAlike(x, own)

Twins(x, own) ==
  CASE kind = "customer" -> CustomerTwins(x, own)
    [] kind = "supplier" -> SupplierTwins(x, own)
    [] kind = "category" -> CategoryTwins(x, own)
    [] kind = "brand"    -> BrandTwins(x, own)

\* category_name and brand_name are unique.
Unique(x, own) ==
  kind \in {"category", "brand"} =>
    \A r \in RecordIds \ {own} : Exists(r) => ~(SameName(record[r], x) /\ record[r].capital = x.capital)

-----------------------------------------------------------------------------
(***************************************************************************)
(* The two steps of a save                                                 *)
(***************************************************************************)

\* Whoever has read something and not written yet has read it before this write.
Noticed(k) ==
  [w \in Keepers |-> IF w # k /\ form[w] # Idle
                       THEN [form[w] EXCEPT !.since = TRUE] ELSE form[w]]

Now(r) == IF r = NoRecord THEN Nothing ELSE record[r]

ReadOnly == UNCHANGED <<kind, record, audited, saves, told, crossed>>

\* A request with row x for record r, or a new one: the service reads the record and
\* those that look alike, one of which makes it send a warning back.
Check(k, stage, r, x) ==
  LET twins == Twins(x, r)
      f == [Idle EXCEPT !.of = r, !.row = x]
  IN  /\ form[k] = Idle /\ saves < MaxSaves
      /\ form' = [form EXCEPT ![k] =
           IF twins # {} THEN [f EXCEPT !.stage = "warned", !.sees = twins]
                         ELSE [f EXCEPT !.stage = stage, !.read = Now(r)]]
      /\ ReadOnly

\* The request is over without a write, and the page shows an error or nothing.
Ends(k) == form' = [form EXCEPT ![k] = Idle] /\ ReadOnly

\* Row x is written to record r, and what the audit row says of it becomes said.
Recorded(k, r, x, said) ==
  /\ record' = [record EXCEPT ![r] = x]
  /\ audited' = [audited EXCEPT ![r] = said]
  /\ told' = told \cup {{r, s} : s \in form[k].sees}
  /\ crossed' = IF form[k].since THEN crossed \cup {{r, s} : s \in RecordIds} ELSE crossed
  /\ form' = [Noticed(k) EXCEPT ![k] = Idle]
  /\ saves < MaxSaves /\ saves' = saves + 1
  /\ UNCHANGED kind

FirstFree == CHOOSE r \in RecordIds : ~Exists(r)

Insert(k, x, said) ==
  IF Unique(x, NoRecord)
    THEN (\E r \in RecordIds : ~Exists(r)) /\ Recorded(k, FirstFree, x, said)
    ELSE Ends(k)

Create(k) ==
  \/ \E x \in Rows(kind) : Check(k, "create", NoRecord, x)
  \/ form[k].stage = "create" /\ Insert(k, form[k].row, form[k].row)

\* A telephone that was cleared in the form is not sent, and stays.
Saved(x, row) == [x EXCEPT !.word = row.word, !.capital = row.capital,
                           !.phone = IF row.phone = NoPhone THEN @ ELSE row.phone]

Said_NameOnly(old, read, x) ==
  IF old = Nothing THEN Nothing ELSE [old EXCEPT !.word = x.word, !.capital = x.capital]

\* The audit row names the fields in which the row written differs from the row read.
Said(old, read, x) ==
  IF old = Nothing THEN Nothing
    ELSE [old EXCEPT !.word    = IF read.word    # x.word    THEN x.word    ELSE @,
                     !.capital = IF read.capital # x.capital THEN x.capital ELSE @,
                     !.phone   = IF read.phone   # x.phone   THEN x.phone   ELSE @]

Update(k) ==
  \/ \E x \in Rows(kind), r \in RecordIds : Exists(r) /\ Check(k, "update", r, x)
  \/ LET r == form[k].of
         x == Saved(record[r], form[k].row)
     IN  /\ form[k].stage = "update"
         /\ IF Unique(x, r) THEN Recorded(k, r, x, Said(audited[r], form[k].read, x)) ELSE Ends(k)

\* A request that finds the status set already is refused, and one for a customer who
\* owes something.
SetActive(k, stage, active) ==
  \/ \E r \in RecordIds :
       /\ form[k] = Idle /\ saves < MaxSaves
       /\ Exists(r) /\ record[r].active # active
       /\ form' = [form EXCEPT ![k] = [Idle EXCEPT !.stage = stage, !.of = r]]
       /\ ReadOnly
  \/ LET r == form[k].of
     IN  /\ form[k].stage = stage
         /\ Recorded(k, r, [record[r] EXCEPT !.active = active],
                    IF audited[r] = Nothing THEN Nothing ELSE [audited[r] EXCEPT !.active = active])

Inactivate(k) == SetActive(k, "inactivate", FALSE)
Reactivate(k) == SetActive(k, "reactivate", TRUE)

-----------------------------------------------------------------------------
(***************************************************************************)
(* The four services                                                       *)
(***************************************************************************)

CreateCustomer(k)     == kind = "customer" /\ Create(k)
UpdateCustomer(k)     == kind = "customer" /\ Update(k)
InactivateCustomer(k) == kind = "customer" /\ Inactivate(k)
ReactivateCustomer(k) == kind = "customer" /\ Reactivate(k)

CreateSupplier(k)     == kind = "supplier" /\ Create(k)
UpdateSupplier(k)     == kind = "supplier" /\ Update(k)
InactivateSupplier(k) == kind = "supplier" /\ Inactivate(k)
ReactivateSupplier(k) == kind = "supplier" /\ Reactivate(k)

CreateCategory(k)     == kind = "category" /\ Create(k)
UpdateCategory(k)     == kind = "category" /\ Update(k)
InactivateCategory(k) == kind = "category" /\ Inactivate(k)
ReactivateCategory(k) == kind = "category" /\ Reactivate(k)

CreateBrand(k)        == kind = "brand" /\ Create(k)
UpdateBrand(k)        == kind = "brand" /\ Update(k)
InactivateBrand(k)    == kind = "brand" /\ Inactivate(k)
ReactivateBrand(k)    == kind = "brand" /\ Reactivate(k)

\* A product form names a category or brand: one that looks alike is used, or a
\* new one is made, of which no audit row tells.
Resolve(k) ==
  \/ \E x \in Rows(kind) :
       /\ form[k] = Idle /\ saves < MaxSaves
       /\ Twins(x, NoRecord) = {}
       /\ form' = [form EXCEPT ![k] = [Idle EXCEPT !.stage = "resolved", !.row = x]]
       /\ ReadOnly
  \/ form[k].stage = "resolved" /\ Insert(k, form[k].row, Nothing)

ResolveCategory(k) == kind = "category" /\ Resolve(k)
ResolveBrand(k)    == kind = "brand" /\ Resolve(k)

-----------------------------------------------------------------------------
(***************************************************************************)
(* The pages: what a form sends is any row, and a warning opens a dialog,   *)
(* where the user may insist or put it aside                               *)
(***************************************************************************)

PutAside(k) == form[k].stage = "warned" /\ Ends(k)

\* The same request is sent with force, and is not checked.
Insist(k) ==
  /\ form[k].stage = "warned"
  /\ form' = [form EXCEPT ![k] =
       [@ EXCEPT !.stage = IF form[k].of = NoRecord THEN "create" ELSE "update", !.read = Now(form[k].of)]]
  /\ ReadOnly

Page(k) == PutAside(k) \/ Insist(k)

CustomerPage(k) == kind = "customer" /\ Page(k)
SupplierPage(k) == kind = "supplier" /\ Page(k)
CategoryPage(k) == kind = "category" /\ Page(k)
BrandPage(k)    == kind = "brand" /\ Page(k)

FirstId == CHOOSE r \in RecordIds : \A s \in RecordIds : r <= s

\* One record is there already, and was audited when it was made.
RecordsInit ==
  /\ kind \in Kinds
  /\ \E x \in Rows(kind) : record = [r \in RecordIds |-> IF r = FirstId THEN x ELSE Nothing]
  /\ audited = record
  /\ saves   = 0
  /\ form    = [k \in Keepers |-> Idle]
  /\ told    = {}
  /\ crossed = {}

RecordsNext ==
  \E k \in Keepers :
    \/ CustomerPage(k) \/ SupplierPage(k) \/ CategoryPage(k) \/ BrandPage(k)
    \/ CreateCustomer(k) \/ UpdateCustomer(k) \/ InactivateCustomer(k) \/ ReactivateCustomer(k)
    \/ CreateSupplier(k) \/ UpdateSupplier(k) \/ InactivateSupplier(k) \/ ReactivateSupplier(k)
    \/ CreateCategory(k) \/ UpdateCategory(k) \/ InactivateCategory(k) \/ ReactivateCategory(k)
    \/ CreateBrand(k) \/ UpdateBrand(k) \/ InactivateBrand(k) \/ ReactivateBrand(k)
    \/ ResolveCategory(k) \/ ResolveBrand(k)

-----------------------------------------------------------------------------
(***************************************************************************)
(* Properties                                                              *)
(***************************************************************************)

Alike(x, y) == SameName(x, y) \/ (x.phone # NoPhone /\ x.phone = y.phone)

\* Two records that look alike are there because somebody was warned of the pair and
\* insisted, or because one was written while the other was between its check and
\* its write, which nothing locks.
TwinsConfirmed ==
  \A r, s \in RecordIds :
    (r # s /\ Exists(r) /\ Exists(s) /\ Alike(record[r], record[s])) => {r, s} \in told \cup crossed

\* What the audit rows say of a record is what it is, after any sequence of edits and
\* changes of status, unless an edit was overtaken by another between reading the
\* record and writing it, or the record came out of a product form.
AuditTells ==
  \A r \in RecordIds : audited[r] \in {Nothing, record[r]} \/ {r} \in crossed
=============================================================================
