------------------------------- MODULE Locks -------------------------------
(***************************************************************************)
(* Row locks and advisory locks of PostgreSQL transactions.  A transaction  *)
(* keeps what it locked until it ends, and waits for a lock that another    *)
(* holds; PostgreSQL finds transactions that wait in a circle and aborts    *)
(* one of them.                                                             *)
(***************************************************************************)
EXTENDS Integers, Sequences, SequencesExt

Row(x)      == <<"row", x>>       \* SELECT ... FOR UPDATE, UPDATE
Advisory(x) == <<"advisory", x>>  \* pg_advisory_xact_lock

\* The places in needs, a sequence, of the locks that a transaction with held has
\* still to take, and the one it takes next: it goes by the order of needs.
Missing(needs, held) == {k \in DOMAIN needs : needs[k] \notin held}

NextLock(needs, held) ==
  needs[CHOOSE k \in Missing(needs, held) : \A j \in Missing(needs, held) : k <= j]

\* held[w]: the locks of worker w; needs[w]: the sequence of those it needs.
WaitsFor(held, needs, w, v) ==
  /\ v # w
  /\ Missing(needs[w], held[w]) # {}
  /\ NextLock(needs[w], held[w]) \in held[v]

Waits(held, needs, w) == \E v \in DOMAIN held : WaitsFor(held, needs, w, v)

\* w waits for a worker of S, which waits for one of S, and so on.
Circular(held, needs, S) ==
  S # {} /\ \A w \in S : \E v \in S : WaitsFor(held, needs, w, v)

Deadlocked(held, needs, w) ==
  \E S \in SUBSET DOMAIN held : w \in S /\ Circular(held, needs, S)
=============================================================================
