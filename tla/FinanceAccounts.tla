-------------------------- MODULE FinanceAccounts --------------------------
(***************************************************************************)
(* The cash and bank accounts: creation, default, activation, movements of  *)
(* money and transfers, with the balance of each account, its movements and *)
(* the journal of its chart account.                                        *)
(*                                                                          *)
(* An operation is a transaction of READ COMMITTED that takes its locks one *)
(* by one, in the order of its statements, reads the balances, computes and *)
(* writes the new ones and commits, or throws and is rolled back.           *)
(***************************************************************************)
EXTENDS Locks, Tally

CONSTANTS Accounts,   \* ids, ordered
          Amounts,
          MaxBalance, \* bound on a balance
          Workers

ASSUME FinanceAssumption ==
  /\ Accounts \subseteq Nat /\ IsFiniteSet(Accounts) /\ IsFiniteSet(Workers)
  /\ MaxBalance \in Nat /\ Amounts \subseteq 1 .. MaxBalance

VARIABLES account,  \* account[a]: its row
          posted,   \* posted[a]: opening balance and movements, as the ledger has them
          journal,  \* journal[t]: balance of chart account 1101 or 1102
          tx        \* tx[w]: what worker w is doing

financeVars == <<account, posted, journal, tx>>

Types == {"CASH", "BANK"}

\* seen: the balances that the transaction read.
Unseen == [a \in Accounts |-> 0]
Idle   == [op |-> "none", held |-> {}, seen |-> Unseen]

Busy(w) == tx[w].op # "none"
Held    == [w \in Workers |-> tx[w].held]

Lower(a, b)    == IF a < b THEN a ELSE b
Higher(a, b) == IF a < b THEN b ELSE a

Exists(a)   == account[a].type \in Types
Defaults(t) == {a \in Accounts : account[a].type = t /\ account[a].default}

\* updateMany locks the rows it changes: the default of the type, if another.
OldDefault(t, a) ==
  LET others == Defaults(t) \ {a}
  IN  IF others = {} THEN <<>> ELSE <<Row(CHOOSE d \in others : TRUE)>>

LockOrder_SourceOnly(a, b)  == <<Row(a)>>

\* transfer locks its accounts in the order of their ids.
LockOrder(a, b) == <<Row(Lower(a, b)), Row(Higher(a, b))>>

MakesDefault(r) == r.default \/ \A d \in Defaults(r.type) : ~account[d].active

\* The locks of an operation in the order of its statements.
Needs(r) ==
  CASE r.op = "none"     -> <<>>
    [] r.op = "transfer" -> LockOrder(r.from, r.to)
    [] r.op \in {"manual", "status"} -> <<Row(r.of)>>
    [] r.op = "default"  -> <<Advisory(r.type), Row(r.of)>> \o OldDefault(r.type, r.of)
    [] r.op = "create"   -> <<Advisory(r.type)>>
                            \o IF MakesDefault(r) THEN OldDefault(r.type, r.of) ELSE <<>>

AllNeeds == [w \in Workers |-> Needs(tx[w])]

\* A request r, which holds no lock yet.
Begin(w, r) ==
  /\ ~Busy(w)
  /\ tx' = [tx EXCEPT ![w] = r]
  /\ UNCHANGED <<account, posted, journal>>

BeginCreate(w, a, t, opening, default) ==
  /\ ~Exists(a) /\ \A v \in Workers : tx[v].op = "create" => tx[v].of # a
  /\ Begin(w, [op |-> "create", held |-> {}, seen |-> Unseen, of |-> a, type |-> t, n |-> opening, default |-> default])

\* setDefaultAccount reads the account once without a lock, to refuse early.
BeginDefault(w, a) ==
  /\ Exists(a) /\ account[a].active
  /\ Begin(w, [op |-> "default", held |-> {}, seen |-> Unseen, of |-> a, type |-> account[a].type])

BeginStatus(w, a, active) ==
  /\ Exists(a)
  /\ Begin(w, [op |-> "status", held |-> {}, seen |-> Unseen, of |-> a, active |-> active])

\* createManual, and every payment that other components post.
BeginManual(w, a, direction, n) ==
  /\ Exists(a)
  /\ Begin(w, [op |-> "manual", held |-> {}, seen |-> Unseen, of |-> a, direction |-> direction, n |-> n])

BeginTransfer(w, a, b, n) ==
  /\ a # b /\ Exists(a) /\ Exists(b)
  /\ Begin(w, [op |-> "transfer", held |-> {}, seen |-> Unseen, from |-> a, to |-> b, n |-> n])

Touches(r) ==
  CASE r.op = "transfer" -> {r.from, r.to}
    [] r.op = "manual"   -> {r.of}
    [] OTHER             -> {}

\* The next lock that worker w needs; with the last one it reads the balances.
Lock(w) ==
  LET needs == Needs(tx[w])
      held  == tx[w].held \cup {NextLock(needs, tx[w].held)}
      seen  == [a \in Accounts |-> IF a \in Touches(tx[w]) THEN account[a].balance ELSE 0]
  IN  /\ Missing(needs, tx[w].held) # {}
      /\ ~Waits(Held, AllNeeds, w)
      /\ tx' = [tx EXCEPT ![w].held = held,
                          ![w].seen = IF Missing(needs, held) = {} THEN seen ELSE Unseen]
      /\ UNCHANGED <<account, posted, journal>>

HoldsAll(w) == Busy(w) /\ Missing(Needs(tx[w]), tx[w].held) = {}

-----------------------------------------------------------------------------

\* postFinancialMovement on an account of which it read the balance; d is IN or OUT.
CanPostMovement(a, d, n, balance) ==
  /\ account[a].active
  /\ IF d = "IN" THEN balance + n <= MaxBalance ELSE n <= balance

CanDisable(r) == account[r.of].balance = 0 /\ ~account[r.of].default

\* The second read, under the lock.
CanDefault(r) == account[r.of].active

CanCommit(r) ==
  CASE r.op = "transfer" -> CanPostMovement(r.from, "OUT", r.n, r.seen[r.from]) /\ CanPostMovement(r.to, "IN", r.n, r.seen[r.to])
    [] r.op = "manual"   -> CanPostMovement(r.of, r.direction, r.n, r.seen[r.of])
    [] r.op = "status"   -> account[r.of].active = r.active \/ r.active \/ CanDisable(r)
    [] r.op = "default"  -> CanDefault(r)
    [] OTHER             -> TRUE

Signed(d, n) == IF d = "IN" THEN n ELSE -n

MakeDefault(rows, t, a) ==
  [x \in Accounts |-> IF rows[x].type = t THEN [rows[x] EXCEPT !.default = x = a] ELSE rows[x]]

Transfer(r) ==
  /\ account' = [account EXCEPT ![r.from].balance = r.seen[r.from] - r.n,
                                ![r.to].balance   = r.seen[r.to] + r.n]
  /\ posted'  = [posted EXCEPT ![r.from] = @ - r.n, ![r.to] = @ + r.n]
  /\ journal' = [[journal EXCEPT ![account[r.from].type] = @ - r.n]
                          EXCEPT ![account[r.to].type] = @ + r.n]

Manual(r) ==
  LET n == Signed(r.direction, r.n)
  IN  /\ account' = [account EXCEPT ![r.of].balance = r.seen[r.of] + n]
      /\ posted'  = [posted EXCEPT ![r.of] = @ + n]
      /\ journal' = [journal EXCEPT ![account[r.of].type] = @ + n]

ChangeStatus(r) ==
  /\ account' = [account EXCEPT ![r.of].active = r.active]
  /\ UNCHANGED <<posted, journal>>

SetDefault(r) ==
  /\ account' = MakeDefault(account, r.type, r.of)
  /\ UNCHANGED <<posted, journal>>

Create(r) ==
  LET row   == [type |-> r.type, active |-> TRUE, default |-> MakesDefault(r), balance |-> r.n]
      added == [account EXCEPT ![r.of] = row]
  IN  /\ account' = IF MakesDefault(r) THEN MakeDefault(added, r.type, r.of) ELSE added
      /\ posted'  = [posted EXCEPT ![r.of] = r.n]
      /\ journal' = [journal EXCEPT ![r.type] = @ + r.n]

CommitTx(w) ==
  LET r == tx[w]
  IN  /\ HoldsAll(w) /\ CanCommit(r)
      /\ \/ r.op = "transfer" /\ Transfer(r)
         \/ r.op = "manual"   /\ Manual(r)
         \/ r.op = "status"   /\ ChangeStatus(r)
         \/ r.op = "default"  /\ SetDefault(r)
         \/ r.op = "create"   /\ Create(r)
      /\ tx' = [tx EXCEPT ![w] = Idle]

Rollback(w) ==
  /\ tx' = [tx EXCEPT ![w] = Idle]
  /\ UNCHANGED <<account, posted, journal>>

Throws_OverdraftOnly(r) == ~CanCommit(r) /\ r.op \notin {"status", "default"}

\* An exception under the locks ends the transaction.
Throws(r) == ~CanCommit(r)
Refuse(w) == HoldsAll(w) /\ Throws(tx[w]) /\ Rollback(w)

\* PostgreSQL ends one of the transactions that wait in a circle.
BreakDeadlock(w) == Deadlocked(Held, AllNeeds, w) /\ Rollback(w)

-----------------------------------------------------------------------------

FinanceInit ==
  /\ account = [a \in Accounts |-> [type |-> "NONE", active |-> FALSE, default |-> FALSE, balance |-> 0]]
  /\ posted  = [a \in Accounts |-> 0]
  /\ journal = [t \in Types |-> 0]
  /\ tx      = [w \in Workers |-> Idle]

Request(w) ==
  \/ \E a \in Accounts, t \in Types, n \in {0} \cup Amounts, d \in BOOLEAN : BeginCreate(w, a, t, n, d)
  \/ \E a \in Accounts : BeginDefault(w, a)
  \/ \E a \in Accounts, active \in BOOLEAN : BeginStatus(w, a, active)
  \/ \E a \in Accounts, d \in {"IN", "OUT"}, n \in Amounts : BeginManual(w, a, d, n)
  \/ \E a, b \in Accounts, n \in Amounts : BeginTransfer(w, a, b, n)

Progress(w) == Lock(w) \/ CommitTx(w) \/ Refuse(w) \/ BreakDeadlock(w)

FinanceNext == \E w \in Workers : Request(w) \/ Progress(w)

\* The server goes on with a transaction until it ends.  PostgreSQL queues those
\* that wait for a lock, so that none is passed over for ever: strong fairness.
FinanceFairness == \A w \in Workers : SF_financeVars(Progress(w))

FinanceSpec == FinanceInit /\ [][FinanceNext]_financeVars /\ FinanceFairness

-----------------------------------------------------------------------------
(***************************************************************************)
(* Properties                                                              *)
(***************************************************************************)

FinanceTypeOK ==
  /\ account \in [Accounts -> [type : Types \cup {"NONE"}, active : BOOLEAN, default : BOOLEAN,
                               balance : 0 .. MaxBalance]]
  /\ posted \in [Accounts -> Int] /\ journal \in [Types -> Int]

\* health(): the balance of an account is what its ledger posted, and the chart
\* accounts of cash and bank hold the balances of their accounts, whatever the
\* transfers and payments that overlapped; and no account is overdrawn.
BalancesReconcile ==
  /\ FinanceTypeOK
  /\ \A a \in Accounts : account[a].balance = posted[a]
  /\ \A t \in Types :
       journal[t] = Total([a \in Accounts |-> IF account[a].type = t THEN account[a].balance ELSE 0])

\* Every request is answered, also when a change of default and a transfer wait
\* for each other.
RequestsAnswered == \A w \in Workers : Busy(w) ~> ~Busy(w)
=============================================================================
