----------------------------- MODULE DataAccess -----------------------------
(***************************************************************************)
(* Clients of pkg/database: SQL queries, cached queries, page queries,     *)
(* statements and transactions over one row, and the cache that keeps a    *)
(* copy of it.  A write gives the row a version of its own, so that a      *)
(* result, or a cached copy, says which write it saw.                      *)
(***************************************************************************)
EXTENDS Naturals, FiniteSets

CONSTANTS
    Clients,    \* goroutines of the application
    Conns,      \* SQL_DB_MAX_OPEN_CONNS
    MaxWrites,  \* bound: how many times the row is written
    Nothing     \* no version, no result

ASSUME DataAccessAssumption ==
    /\ Conns \in Nat \ {0} /\ MaxWrites \in Nat
    /\ Nothing \notin Nat /\ Nothing \notin [of : Nat, inTx : BOOLEAN, late : BOOLEAN]

VARIABLES
    rows,       \* the version last committed; 0 is the empty table
    committed,  \* every version ever committed
    written,    \* the number of versions given out
    promised,   \* the versions whose Execute returned nil
    busy,       \* the clients that hold a connection of the pool
    tx,         \* per client, its transaction
    at,         \* per client, where its call is
    kind,       \* whether the cache holds a list (Many) or a row (One)
    caching,    \* per client, whether its query has a cache
    held,       \* per client, the result it read and has not stored yet
    entry,      \* what the cache holds
    owed,       \* the clients that committed a write and have not deleted the entry since
    page        \* per client, the total of a page query that has not read its items

dataVars == <<rows, committed, written, promised, busy, tx, at, kind, caching, held, entry,
              owed, page>>
callVars == <<at, caching, held, page>>
cacheVars == <<kind, entry>>
rowVars == <<rows, committed, written, promised, owed>>

Versions == 0..MaxWrites
Results == [of : Versions, inTx : BOOLEAN, late : BOOLEAN]
Transactions == [open : BOOLEAN, repeatable : BOOLEAN, view : Versions \cup {Nothing},
                 pending : Versions \cup {Nothing}, failed : BOOLEAN]
NoTx == [open |-> FALSE, repeatable |-> FALSE, view |-> Nothing, pending |-> Nothing,
         failed |-> FALSE]

DataInit ==
    /\ rows = 0 /\ committed = {0} /\ written = 0 /\ promised = {}
    /\ busy = {} /\ tx = [c \in Clients |-> NoTx]
    /\ at = [c \in Clients |-> "idle"] /\ kind \in {"one", "many"}
    /\ caching = [c \in Clients |-> FALSE] /\ held = [c \in Clients |-> Nothing]
    /\ entry = Nothing /\ owed = {} /\ page = [c \in Clients |-> Nothing]

InTx(c) == tx[c].open
Idle(c) == at[c] = "idle"

\* Defect: the transaction is kept in the instance, so that every client is in it.
SeesShared(c) ==
    IF \E d \in Clients : tx[d].pending # Nothing
    THEN tx[CHOOSE d \in Clients : tx[d].pending # Nothing].pending ELSE rows

\* The version a query of c sees: its transaction when the context carries one, the
\* instance otherwise.  A repeatable-read transaction keeps the view it first took.
Sees(c) ==
    IF InTx(c) /\ tx[c].pending # Nothing THEN tx[c].pending
    ELSE IF InTx(c) /\ tx[c].view # Nothing THEN tx[c].view
    ELSE rows

\* The first read of a repeatable-read transaction fixes its view.
TakeView(c) == IF tx[c].repeatable THEN [tx EXCEPT ![c].view = Sees(c)] ELSE tx

\* Outside a transaction a statement or a query borrows a connection; inside, it uses
\* the transaction's.  The pool makes it wait for one.
CanConnect(c) == InTx(c) \/ Cardinality(busy) < Conns

\* Defect: a failure outside a transaction marks the client too.
BreaksAlways(c) == [tx EXCEPT ![c].failed = TRUE]

\* Postgres refuses the statements that follow a failed one in the same transaction.
Breaks(c) == [tx EXCEPT ![c].failed = InTx(c)]

-----------------------------------------------------------------------------
(* Transactions. *)

\* beginTransaction.  A failed BeginTx returns before anything changes.
BeginTransaction(c) ==
    /\ Idle(c) /\ ~InTx(c) /\ Cardinality(busy) < Conns
    /\ \E level \in BOOLEAN : tx' = [tx EXCEPT ![c].open = TRUE, ![c].repeatable = level]
    /\ busy' = busy \cup {c}
    /\ UNCHANGED <<rowVars, cacheVars, callVars>>

\* Defect: the error path returns without ending the transaction.
FnFailsLeaks(c) ==
    /\ Idle(c) /\ InTx(c)
    /\ tx' = [tx EXCEPT ![c] = NoTx]
    /\ UNCHANGED <<busy, rowVars, cacheVars, callVars>>

\* The function returns an error or panics: the deferred Rollback ends the transaction.
FnFails(c) ==
    /\ Idle(c) /\ InTx(c)
    /\ tx' = [tx EXCEPT ![c] = NoTx] /\ busy' = busy \ {c}
    /\ UNCHANGED <<rowVars, cacheVars, callVars>>

\* The pending write takes effect.
Apply(c) ==
    IF tx[c].pending = Nothing THEN UNCHANGED <<rows, committed, owed>>
    ELSE /\ rows' = tx[c].pending /\ committed' = committed \cup {tx[c].pending}
         /\ owed' = owed \cup {c}

\* The function returns nil.  A commit that fails may still have reached the database,
\* unless a statement failed before it; the error is returned either way.
CommitOutcome(c, ok) ==
    \/ ok /\ ~tx[c].failed /\ Apply(c)
       /\ promised' = promised \cup ({tx[c].pending} \ {Nothing})
    \/ ~ok /\ ~tx[c].failed /\ Apply(c) /\ UNCHANGED promised
    \/ ~ok /\ UNCHANGED <<rows, committed, owed, promised>>

Commit(c) ==
    /\ Idle(c) /\ InTx(c)
    /\ \E ok \in BOOLEAN : CommitOutcome(c, ok)
    /\ tx' = [tx EXCEPT ![c] = NoTx] /\ busy' = busy \ {c}
    /\ UNCHANGED <<written, cacheVars, callVars>>

\* Statement.Execute.  A writer waits for the row lock of another transaction, and a
\* repeatable-read transaction cannot write a row that changed under it.
Write(c) ==
    /\ Idle(c) /\ CanConnect(c) /\ written < MaxWrites
    /\ \A d \in Clients \ {c} : tx[d].pending = Nothing
    /\ ~tx[c].failed /\ tx[c].view \in {Nothing, rows, tx[c].pending}
    /\ written' = written + 1
    /\ IF InTx(c)
       THEN tx' = [tx EXCEPT ![c].pending = written + 1] /\ UNCHANGED <<rows, committed, owed, promised>>
       ELSE /\ rows' = written + 1 /\ committed' = committed \cup {written + 1}
            /\ owed' = owed \cup {c} /\ promised' = promised \cup {written + 1} /\ UNCHANGED tx
    /\ UNCHANGED <<busy, cacheVars, callVars>>

\* A statement that fails; the application may ignore the error and go on.
WriteFails(c) ==
    /\ Idle(c) /\ InTx(c) /\ tx' = Breaks(c)
    /\ UNCHANGED <<busy, rowVars, cacheVars, callVars>>

-----------------------------------------------------------------------------
(* Queries. *)

\* The query returns.
Returns(c) ==
    /\ at' = [at EXCEPT ![c] = "idle"] /\ held' = [held EXCEPT ![c] = Nothing]
    /\ caching' = [caching EXCEPT ![c] = FALSE]

\* Many and One: a query with a cache looks there first.
StartQuery(c) ==
    /\ Idle(c) /\ \E cached \in BOOLEAN :
          /\ caching' = [caching EXCEPT ![c] = cached]
          /\ at' = [at EXCEPT ![c] = IF cached THEN "lookup" ELSE "fetch"]
    /\ UNCHANGED <<rowVars, cacheVars, busy, tx, held, page>>

\* Cache.Many and Cache.One.  A hit ends the query; a miss, or any error of the cache,
\* goes to the database.
Lookup(c) ==
    /\ at[c] = "lookup"
    /\ \/ entry # Nothing /\ Returns(c)
       \/ at' = [at EXCEPT ![c] = "fetch"] /\ UNCHANGED <<caching, held>>
    /\ UNCHANGED <<rowVars, cacheVars, busy, tx, page>>

\* queryContext, queryRowContext: the rows are open and keep the connection.
OpenRows(c) ==
    /\ at[c] = "fetch" /\ CanConnect(c) /\ ~tx[c].failed
    /\ at' = [at EXCEPT ![c] = "rows"] /\ busy' = busy \cup {c} /\ tx' = TakeView(c)
    /\ held' = [held EXCEPT ![c] =
                  [of |-> Sees(c), inTx |-> InTx(c), late |-> FALSE]]
    /\ UNCHANGED <<rowVars, cacheVars, caching, page>>

\* The connection goes back unless the transaction owns it.
GiveBack(c) == IF InTx(c) THEN busy ELSE busy \ {c}

\* The query or the scan fails, or the items of a page do: nothing is stored, and the
\* rows are closed.
QueryFails(c) ==
    /\ at[c] \in {"fetch", "rows", "page"}
    /\ Returns(c) /\ busy' = GiveBack(c) /\ tx' = Breaks(c)
    /\ page' = [page EXCEPT ![c] = Nothing]
    /\ UNCHANGED <<rowVars, cacheVars>>

\* getDataList or Scan: the rows are read to their end and closed, before the cache is
\* filled.  A list cut short by an error of the driver looks like one that ended, since
\* getDataList does not ask rows.Err.  A missing row is an answer of One, and not cached.
ReadRows(c) ==
    /\ at[c] = "rows"
    /\ IF caching[c] /\ ~(kind = "one" /\ held[c].of = 0)
       THEN at' = [at EXCEPT ![c] = "fill"] /\ UNCHANGED <<held, caching>>
       ELSE Returns(c)
    /\ busy' = GiveBack(c)
    /\ UNCHANGED <<rowVars, cacheVars, tx, page>>

\* Cache.Set: its error is ignored, and the query returns what it read.
Fill(c) ==
    /\ at[c] = "fill"
    /\ entry' \in {entry, held[c]} /\ Returns(c)
    /\ UNCHANGED <<rowVars, kind, busy, tx, page>>

\* A result held by a query in flight predates the deletion.
MarkLate == [c \in Clients |->
               IF held[c] = Nothing THEN Nothing ELSE [held[c] EXCEPT !.late = TRUE]]

\* Defect: the redirection is taken for success.
DeleteRedirected(c) ==
    /\ Idle(c) /\ ~InTx(c)
    /\ owed' = owed \ {c} /\ held' = MarkLate
    /\ UNCHANGED <<rows, committed, written, promised, cacheVars, busy, tx, at, caching, page>>

\* Cache.Del by the application, once its writes are committed.
Delete(c) ==
    /\ Idle(c) /\ ~InTx(c)
    /\ entry' = Nothing /\ owed' = owed \ {c} /\ held' = MarkLate
    /\ UNCHANGED <<rows, committed, written, promised, kind, busy, tx, at, caching, page>>

\* The time to live of the entry is over.
Expire ==
    /\ entry # Nothing /\ entry' = Nothing
    /\ UNCHANGED <<rowVars, kind, busy, tx, callVars>>

\* PageQuery: the total is one query and the items are another.
PageTotal(c) ==
    /\ Idle(c) /\ CanConnect(c) /\ ~tx[c].failed /\ tx' = TakeView(c)
    /\ at' = [at EXCEPT ![c] = "page"]
    /\ page' = [page EXCEPT ![c] = Sees(c)]
    /\ UNCHANGED <<rowVars, cacheVars, busy, caching, held>>

PageItems(c) == Sees(c)

PageData(c) ==
    /\ at[c] = "page" /\ CanConnect(c) /\ PageItems(c) \in Versions
    /\ at' = [at EXCEPT ![c] = "idle"] /\ page' = [page EXCEPT ![c] = Nothing]
    /\ UNCHANGED <<rowVars, cacheVars, busy, tx, caching, held>>

DataNext ==
    \/ \E c \in Clients :
          \/ BeginTransaction(c) \/ FnFails(c) \/ Commit(c) \/ Write(c) \/ WriteFails(c)
          \/ StartQuery(c) \/ Lookup(c) \/ OpenRows(c) \/ QueryFails(c) \/ ReadRows(c)
          \/ Fill(c) \/ Delete(c) \/ PageTotal(c) \/ PageData(c)
    \/ Expire

DataSpec == DataInit /\ [][DataNext]_dataVars

-----------------------------------------------------------------------------
(* Properties. *)

DataTypeOK ==
    /\ rows \in Versions /\ committed \subseteq Versions /\ written \in Versions
    /\ promised \subseteq Versions /\ busy \subseteq Clients /\ owed \subseteq Clients
    /\ tx \in [Clients -> Transactions]
    /\ \A c \in Clients : ~tx[c].open => tx[c] = NoTx
    /\ at \in [Clients -> {"idle", "lookup", "fetch", "rows", "fill", "page"}]
    /\ kind \in {"one", "many"} /\ caching \in [Clients -> BOOLEAN]
    /\ page \in [Clients -> Versions \cup {Nothing}]
    /\ held \in [Clients -> Results \cup {Nothing}] /\ entry \in Results \cup {Nothing}

\* A connection of the pool is held by an open transaction or by the rows of a query being
\* read, and by nobody else: no path out of Execute or of a query keeps one
\* (sql_transaction.go:62-86, query.go:71-88).
ConnectionsReturned == busy = {c \in Clients : InTx(c) \/ at[c] = "rows"}

\* Execute returns nil only for writes that the database committed, also when the
\* function swallowed the error of a statement (sql_transaction.go:78-83).
NilMeansCommitted == promised \subseteq committed

\* Execute, however it ends, keeps neither a connection nor the truth from its caller.
ExecuteSettles == ConnectionsReturned /\ NilMeansCommitted

\* A version the database never committed is served by the cache only when a query cached
\* it from inside a transaction (query.go:83, 130, 158).
UncommittedOnlyFromTx ==
    entry # Nothing => entry.of \in committed \/ entry.inTx

\* The cache serves an old version only while a writer still has to delete the entry, or
\* when the query that stored it had read before a deletion, or had read inside a
\* transaction: a deletion after the commit is not undone by queries that start later
\* (query.go:60-88, cache.go:107-113).
StaleOnlyThroughRace ==
    entry # Nothing /\ entry.of # rows => owed # {} \/ entry.late \/ entry.inTx

\* A page query that has its total finds the items of the same table inside a
\* repeatable-read transaction (page_query.go:49-63, 115-141).
PageAgrees ==
    \A c \in Clients : at[c] = "page" /\ tx[c].repeatable => PageItems(c) = page[c]

\* What a query reads, and what it leaves in the cache, belongs to its transaction.
ReadsIsolated == UncommittedOnlyFromTx /\ PageAgrees

=============================================================================
