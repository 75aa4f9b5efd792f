----------------------------- MODULE OrderText -----------------------------
(***************************************************************************)
(* The names by which customers call products and units, and the reading of *)
(* an order that came as text.                                              *)
(*                                                                          *)
(* Products and units have an official name, and aliases that are kept      *)
(* under one advisory lock; a rename of a product or unit does not take it. *)
(* A line of text is read into rows, which a clerk reviews when the reading *)
(* leaves a doubt.                                                          *)
(*                                                                          *)
(* A name is a sequence of words and a line one of words and numbers: both  *)
(* are normalised, so that case and spaces are left out, and the length of  *)
(* a name is counted in words.  Left out: products and units not in use.    *)
(***************************************************************************)
EXTENDS Integers, FiniteSetsExt, SequencesExt

CONSTANTS Products, Units,
          Names,      \* what a product or unit may be called
          First,      \* what each is called to begin with
          Numbers,    \* the numbers of a line; zero is no quantity
          AliasIds,
          NoTarget,   \* neither product nor unit
          Managers,   \* pages with the list of aliases
          Sold,       \* pairs of a product and a unit it is sold by
          MaxWrites   \* bound on the changes of names

ASSUME OrderTextAssumption ==
  /\ Products \cap Units = {} /\ NoTarget \notin Products \cup Units
  /\ First \in [Products \cup Units -> Names]
  /\ Sold \subseteq Products \X Units /\ MaxWrites \in Nat
  /\ IsFiniteSet(Products \cup Units \cup Names) /\ Numbers \subseteq Int
  /\ Names \subseteq Seq(UNION {Range(n) : n \in Names})

VARIABLES official,   \* official[t]: the name of a product or unit
          alias,      \* alias[i]: the row of an alias
          shown,      \* shown[m]: an alias as it is on the page of m
          renamed,    \* products and units renamed so far
          writes,     \* how often names were changed
          guest,      \* the pairs guests have a price for
          history     \* the pairs the customer of the order has a price for

textVars == <<official, alias, shown, renamed, writes, guest, history>>

Targets == Products \cup Units
NoAlias == [of |-> NoTarget, name |-> <<>>]

KindOf(t) == IF t \in Products THEN Products ELSE Units

Counted == writes < MaxWrites /\ writes' = writes + 1

-----------------------------------------------------------------------------
(***************************************************************************)
(* Aliases                                                                 *)
(***************************************************************************)

Taken_ByTarget(t, n, own) == \E i \in AliasIds \ own : alias[i] = [of |-> t, name |-> n]

\* An alias of the same kind has the name.
Taken(t, n, own) == \E i \in AliasIds \ own : alias[i].of \in KindOf(t) /\ alias[i].name = n

\* validateName
ValidName(t, n, own) == ~Taken(t, n, own) /\ \A s \in KindOf(t) : official[s] # n

\* A batch of aliases for t, all or none.
CreateAliases(t, ns) ==
  /\ \A n \in ns : ValidName(t, n, {})
  /\ \E ids \in SUBSET AliasIds :
       /\ \A i \in ids : alias[i] = NoAlias
       /\ \E b \in [ids -> ns] :
            /\ Cardinality(ids) = Cardinality(ns) /\ IsInjective(b)
            /\ alias' = [i \in AliasIds |-> IF i \in ids THEN [of |-> t, name |-> b[i]] ELSE alias[i]]
  /\ Counted
  /\ UNCHANGED <<official, shown, renamed, guest, history>>

\* A page shows an alias, and its user edits or deletes it some time later.
OpenAlias(m, i) ==
  /\ alias[i] # NoAlias
  /\ shown' = [shown EXCEPT ![m] = [id |-> i, name |-> alias[i].name]]
  /\ UNCHANGED <<official, alias, renamed, writes, guest, history>>

\* The alias is still called what the page shows.
Unchanged(m) == shown[m].name # <<>> /\ alias[shown[m].id].name = shown[m].name

ChangeAlias(m, n) ==
  LET i == shown[m].id
      t == alias[i].of
  IN  /\ Unchanged(m) /\ ValidName(t, n, {i}) /\ n # alias[i].name
      /\ alias' = [alias EXCEPT ![i].name = n]
      /\ shown' = [shown EXCEPT ![m].name = <<>>]
      /\ Counted
      /\ UNCHANGED <<official, renamed, guest, history>>

DeleteAlias(m) ==
  /\ Unchanged(m)
  /\ alias' = [alias EXCEPT ![shown[m].id] = NoAlias]
  /\ shown' = [shown EXCEPT ![m].name = <<>>]
  /\ Counted
  /\ UNCHANGED <<official, renamed, guest, history>>

\* A product or unit gets another name.  No alias stands in its way, nor does another of
\* that name: its spelling differs in case or spaces, or a warning was insisted on.
Rename(t, n) ==
  /\ official' = [official EXCEPT ![t] = n]
  /\ renamed' = renamed \cup {t}
  /\ Counted
  /\ UNCHANGED <<alias, shown, guest, history>>

\* updateGuestPrices
UpdateGuestPrices(pairs) ==
  /\ guest' = guest \cup pairs
  /\ UNCHANGED <<official, alias, shown, renamed, writes, history>>

\* updateSnapshot: an invoice of the customer leaves the prices of its lines.
UpdateSnapshot(mode, pairs) ==
  /\ mode \in {"MERGE", "REWRITE"}
  /\ history' = IF mode = "REWRITE" THEN pairs ELSE history \cup pairs
  /\ UNCHANGED <<official, alias, shown, renamed, writes, guest>>

-----------------------------------------------------------------------------
(***************************************************************************)
(* The reading of a line                                                   *)
(***************************************************************************)

Named(kind, n)   == {t \in kind : official[t] = n}
Nicknamed(kind, n)  == {alias[i].of : i \in {j \in AliasIds : alias[j].of \in kind /\ alias[j].name = n}}

\* An official name goes before an alias.
ChooseWords(kind, n) == IF Named(kind, n) # {} THEN Named(kind, n) ELSE Nicknamed(kind, n)

Recognised(kind) == {n \in Names : ChooseWords(kind, n) # {}}

\* Products are looked for at both ends of the line.
ProductCandidates(line) == {n \in Recognised(Products) : IsPrefix(n, line) \/ IsSuffix(n, line)}

Longest(ns) == {n \in ns : \A m \in ns : Len(m) <= Len(n)}

Row(p, u, q, why) == [product |-> p, unit |-> u, quantity |-> q, why |-> why]

\* The names of units that follow the number at position k of a text.
UnitAt(text, k) == Longest({n \in Recognised(Units) : IsPrefix(n, SubSeq(text, k + 1, Len(text)))})

Doubt(q) == IF q > 0 THEN {} ELSE {"quantity"}

\* The row of q of the unit that is called n.
Amount(p, q, n) ==
  LET us == ChooseWords(Units, n)
  IN  IF Cardinality(us) = 1 THEN Row(p, CHOOSE u \in us : TRUE, q, Doubt(q))
                             ELSE Row(p, NoTarget, q, Doubt(q) \cup {"which unit"})

Unread(p) == Row(p, NoTarget, 0, {"format"})

\* The numbers, each with a unit, from position k of a text on.
AmountsFrom(p, text) ==
  LET from[k \in 1 .. Len(text) + 1] ==
        IF k > Len(text) THEN <<>>
        ELSE IF text[k] \notin Numbers THEN <<Unread(p)>>
        ELSE IF UnitAt(text, k) = {}
          THEN <<Row(p, NoTarget, text[k],
                     Doubt(text[k]) \cup {IF k = Len(text) THEN "no unit" ELSE "unknown unit"})>>
        ELSE LET n == CHOOSE n \in UnitAt(text, k) : TRUE
             IN  <<Amount(p, text[k], n)>> \o from[k + 1 + Len(n)]
  IN  from

\* A text that goes on with anything but a number is not read at all.
ParseAmounts(p, text) ==
  LET rows == AmountsFrom(p, text)[1]
  IN  IF text = <<>> THEN <<Row(p, NoTarget, 0, {"quantity", "no unit"})>>
      ELSE IF Unread(p) \in Range(rows) THEN <<Unread(p)>> ELSE rows

\* What is left of the line without the name of the product.
Remainder(line, n) ==
  IF IsPrefix(n, line) THEN SubSeq(line, Len(n) + 1, Len(line)) ELSE SubSeq(line, 1, Len(line) - Len(n))

ParseOrderText(line) ==
  LET ns == Longest(ProductCandidates(line))
      ps == UNION {ChooseWords(Products, n) : n \in ns}
  IN  IF Cardinality(ns) = 1 /\ Cardinality(ps) = 1
        THEN ParseAmounts(CHOOSE p \in ps : TRUE, Remainder(line, CHOOSE n \in ns : TRUE))
        ELSE <<Row(NoTarget, NoTarget, 0, {"product"})>>

Inferred_Silent(r, u) == [r EXCEPT !.unit = u, !.why = @ \ {"no unit"}]

\* A unit that the text leaves out is the only one the customer has a price for.
Inferred(r, u) == [r EXCEPT !.unit = u, !.why = (@ \ {"no unit"}) \cup {"from history"}]

\* WhatsappImportService.parse: a row as the clerk gets it.
Imported(r) ==
  LET usual == {u \in Units : <<r.product, u>> \in Sold \cap history}
      q == IF r.unit = NoTarget /\ "no unit" \in r.why /\ Cardinality(usual) = 1
             THEN Inferred(r, CHOOSE u \in usual : TRUE) ELSE r
  IN  CASE q.unit = NoTarget -> q
        [] q.unit # NoTarget /\ <<q.product, q.unit>> \notin Sold -> [q EXCEPT !.why = @ \cup {"not sold by it"}]
        [] q.unit # NoTarget /\ <<q.product, q.unit>> \in Sold ->
             IF <<q.product, q.unit>> \in history \cup guest THEN q ELSE [q EXCEPT !.why = @ \cup {"no price"}]

Parse(line) == LET rows == ParseOrderText(line) IN [k \in DOMAIN rows |-> Imported(rows[k])]

-----------------------------------------------------------------------------

TextInit ==
  /\ official = First
  /\ alias   = [i \in AliasIds |-> NoAlias]
  /\ shown   = [m \in Managers |-> [id |-> CHOOSE i \in AliasIds : TRUE, name |-> <<>>]]
  /\ renamed = {}
  /\ writes  = 0
  /\ guest = {} /\ history = {}

TextNext ==
  \/ \E t \in Targets, n, m \in Names : CreateAliases(t, {n, m})
  \/ \E m \in Managers : DeleteAlias(m) \/ (\E i \in AliasIds : OpenAlias(m, i)) \/ \E n \in Names : ChangeAlias(m, n)
  \/ \E t \in Targets, n \in Names : Rename(t, n)
  \/ UpdateGuestPrices(Sold)
  \/ \E pairs \in SUBSET Sold, mode \in {"MERGE", "REWRITE"} : UpdateSnapshot(mode, pairs)

-----------------------------------------------------------------------------
(***************************************************************************)
(* Properties                                                              *)
(***************************************************************************)

\* An alias means the product or unit it was made for and nothing else, unless a
\* product or unit was given that very name later.
AliasesUnderstood ==
  \A i \in AliasIds : alias[i] # NoAlias =>
    \/ ChooseWords(KindOf(alias[i].of), alias[i].name) = {alias[i].of}
    \/ \E t \in renamed \cap KindOf(alias[i].of) : official[t] = alias[i].name

\* Lines of one product at either end of an amount, and of one with two amounts.
AmountTexts == {<<q>> : q \in Numbers} \cup {<<q>> \o n : q \in Numbers, n \in Names}
Lines == Names \cup {n \o <<1>> \o m \o <<1>> \o m : n, m \in Names}
               \cup UNION {{n \o a, a \o n} : n \in Names, a \in AmountTexts}

\* Whoever is called n, the official bearer of the name before others.
Bears(kind, t, n) ==
  official[t] = n \/ (t \in Nicknamed(kind, n) /\ \A s \in kind : official[s] # n)

\* What is not put before the clerk for review says what the text says: the line is the
\* name of the product and, beside it, the quantities with the names of their units, and
\* the product is sold by them at a known price; where no price is known all is reviewed.
ReadAsWritten ==
  guest \cup history # {} => \A line \in Lines :
    LET rows == Parse(line)
    IN  (\A k \in DOMAIN rows : rows[k].why = {}) =>
          \E n \in Names, ns \in [DOMAIN rows -> Names] :
            LET text == FlattenSeq([k \in DOMAIN rows |-> <<rows[k].quantity>> \o ns[k]])
            IN  /\ line \in {n \o text, text \o n}
                /\ \A k \in DOMAIN rows :
                     /\ Bears(Products, rows[k].product, n) /\ Bears(Units, rows[k].unit, ns[k])
                     /\ rows[k].quantity > 0
                     /\ <<rows[k].product, rows[k].unit>> \in Sold \cap (guest \cup history)

\* A message is understood as it was written, under the names and aliases of the day.
MessagesUnderstood == AliasesUnderstood /\ ReadAsWritten
=============================================================================
