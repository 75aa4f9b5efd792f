--------------------------- MODULE OpeningBalance ---------------------------
(***************************************************************************)
(* Opening balances: what customers owe and suppliers are owed when the     *)
(* books are opened, one document each, and the goods in stock, drafted by  *)
(* a user and then posted.  Other components meanwhile receive goods.       *)
(*                                                                          *)
(* Transactions are READ COMMITTED and take their locks one by one.         *)
(***************************************************************************)
EXTENDS Locks, FiniteSets

CONSTANTS Parties,   \* customers and suppliers
          Goods,
          Drafters,
          Drafts,    \* ids of inventory opening documents
          NoDraft,
          Clerks     \* those who process the requests

ASSUME OpeningAssumption == NoDraft \notin Drafts /\ IsFiniteSet(Drafts)

VARIABLES opened,   \* opened[p]: opening documents of party p
          doc,      \* doc[d]: an inventory opening document
          moved,    \* moved[g]: how goods g came into stock, in order
          equity,   \* entries of account 3901
          job       \* job[c]: what clerk c is doing

openingVars == <<opened, doc, moved, equity, job>>

NoJob == [op |-> "none", held |-> {}]

Working(c) == job[c].op # "none"
HeldBy     == [c \in Clerks |-> job[c].held]

\* The lines of a document: goods in line order, each once.
LineLists == {<<>>} \cup {<<g>> : g \in Goods} \cup {<<g, h>> : g, h \in Goods}
Lines     == {ls \in LineLists : Cardinality(Range(ls)) = Len(ls)}

StockLocks(ls) == [k \in DOMAIN ls |-> Advisory(ls[k])]

\* completeInventory locks the document, then the stock of each line in turn.
LocksOf(j) ==
  CASE j.op = "none"     -> <<>>
    [] j.op = "party"    -> <<Advisory(j.party)>>
    [] j.op = "save"     -> IF j.draft = NoDraft THEN <<>> ELSE <<Row(j.draft)>>
    [] j.op = "complete" -> <<Row(j.draft)>> \o StockLocks(j.lines)
    [] j.op = "receive"  -> <<Advisory(j.goods)>>

AllLocks == [c \in Clerks |-> LocksOf(job[c])]

Take(c, j) ==
  /\ ~Working(c)
  /\ job' = [job EXCEPT ![c] = j]
  /\ UNCHANGED <<opened, doc, moved, equity>>

\* createCustomer and createSupplier.
BeginParty(c, p) == Take(c, [op |-> "party", held |-> {}, party |-> p])

\* saveInventoryDraft finds the draft of the user without a lock.
BeginSave(c, u, ls) ==
  LET own == {d \in Drafts : doc[d].status = "DRAFT" /\ doc[d].by = u}
  IN  \E d \in IF own = {} THEN {NoDraft} ELSE own :
        Take(c, [op |-> "save", held |-> {}, draft |-> d, by |-> u, lines |-> ls])

BeginComplete(c, d) ==
  /\ doc[d].status # "NONE"
  /\ Take(c, [op |-> "complete", held |-> {}, draft |-> d, lines |-> <<>>])

\* A purchase, an adjustment or a loan brings goods, under the same lock.
BeginReceive(c, g) ==
  /\ Len(moved[g]) = 0
  /\ Take(c, [op |-> "receive", held |-> {}, goods |-> g])

\* The lines are read once the document is locked, and each product is checked
\* for a history once its stock is.
Obtain(c) ==
  LET lock == NextLock(LocksOf(job[c]), job[c].held)
      got  == [job[c] EXCEPT !.held = @ \cup {lock}]
  IN  /\ Missing(LocksOf(job[c]), job[c].held) # {}
      /\ ~Waits(HeldBy, AllLocks, c)
      /\ job' = [job EXCEPT ![c] = IF got.op = "complete" /\ lock = Row(got.draft)
                                   THEN [got EXCEPT !.lines = doc[got.draft].lines] ELSE got]
      /\ UNCHANGED <<opened, doc, moved, equity>>

Obtained(c) == Working(c) /\ Missing(LocksOf(job[c]), job[c].held) = {}

-----------------------------------------------------------------------------

CanOpen(p) == opened[p] = 0

MayPost_AnyGoods(j) == doc[j.draft].status = "DRAFT" /\ j.lines # <<>>

MayPost(j) ==
  /\ doc[j.draft].status = "DRAFT"
  /\ j.lines # <<>>
  /\ \A k \in DOMAIN j.lines : moved[j.lines[k]] = <<>>

CanEnd(j) ==
  CASE j.op = "party"    -> CanOpen(j.party)
    [] j.op = "complete" -> MayPost(j)
    [] j.op = "save"     -> j.draft # NoDraft \/ \E d \in Drafts : doc[d].status = "NONE"
    [] OTHER             -> TRUE

OpenParty(j) ==
  /\ opened' = [opened EXCEPT ![j.party] = @ + 1]
  /\ equity' = equity + 1
  /\ UNCHANGED <<doc, moved>>

\* A new draft, or the lines of the one found, whatever became of it.
SaveLines(j) ==
  /\ \E d \in Drafts :
       /\ IF j.draft = NoDraft THEN doc[d].status = "NONE" ELSE d = j.draft
       /\ doc' = [doc EXCEPT ![d].lines = j.lines, ![d].by = j.by,
                             ![d].status = IF @ = "NONE" THEN "DRAFT" ELSE @]
  /\ UNCHANGED <<opened, moved, equity>>

PostGoods(j) ==
  /\ doc'    = [doc EXCEPT ![j.draft].status = "COMPLETED", ![j.draft].posted = Range(j.lines)]
  /\ moved'  = [g \in Goods |-> IF g \in Range(j.lines) THEN Append(moved[g], j.draft) ELSE moved[g]]
  /\ equity' = equity + Len(j.lines)
  /\ UNCHANGED opened

ReceiveGoods(j) ==
  /\ moved' = [moved EXCEPT ![j.goods] = Append(@, NoDraft)]
  /\ UNCHANGED <<opened, doc, equity>>

End(c) ==
  LET j == job[c]
  IN  /\ Obtained(c) /\ CanEnd(j)
      /\ \/ j.op = "party"    /\ OpenParty(j)
         \/ j.op = "save"     /\ SaveLines(j)
         \/ j.op = "complete" /\ PostGoods(j)
         \/ j.op = "receive"  /\ ReceiveGoods(j)
      /\ job' = [job EXCEPT ![c] = NoJob]

\* An exception, or the victim of a deadlock.
Fail(c) ==
  /\ (Obtained(c) /\ ~CanEnd(job[c])) \/ Deadlocked(HeldBy, AllLocks, c)
  /\ job' = [job EXCEPT ![c] = NoJob]
  /\ UNCHANGED <<opened, doc, moved, equity>>

-----------------------------------------------------------------------------

OpeningInit ==
  /\ opened = [p \in Parties |-> 0]
  /\ \E u \in Drafters :
       doc = [d \in Drafts |-> [status |-> "NONE", by |-> u, lines |-> <<>>, posted |-> {}]]
  /\ moved  = [g \in Goods |-> <<>>]
  /\ equity = 0
  /\ job    = [c \in Clerks |-> NoJob]

OpeningNext ==
  \E c \in Clerks :
    \/ \E p \in Parties : BeginParty(c, p)
    \/ \E u \in Drafters, ls \in Lines : BeginSave(c, u, ls)
    \/ \E d \in Drafts : BeginComplete(c, d)
    \/ \E g \in Goods : BeginReceive(c, g)
    \/ Obtain(c) \/ End(c) \/ Fail(c)

-----------------------------------------------------------------------------
(***************************************************************************)
(* Properties                                                              *)
(***************************************************************************)

\* The books are opened once: one document for a party; the opening goods of a
\* product come before everything else and from one document, whichever drafts
\* and receipts race to bring them; and the equity account has an entry for each.
OpenedOnce ==
  /\ \A p \in Parties : opened[p] <= 1
  /\ \A g \in Goods : \A k \in DOMAIN moved[g] : moved[g][k] # NoDraft => k = 1
  /\ \A d \in Drafts, g \in Goods :
       g \in doc[d].posted <=> (moved[g] # <<>> /\ Head(moved[g]) = d)
  /\ equity = Cardinality({p \in Parties : opened[p] = 1})
              + Cardinality({g \in Goods : moved[g] # <<>> /\ Head(moved[g]) # NoDraft})
=============================================================================
