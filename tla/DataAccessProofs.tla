-------------------------- MODULE DataAccessProofs --------------------------
(***************************************************************************)
(* Proofs about data access: the types, the connections of the pool, what  *)
(* Execute promises, the isolation of reads and the staleness of the       *)
(* cache, for any clients, any size of the pool and any number of writes.  *)
(***************************************************************************)
EXTENDS DataAccess, TLAPS

\* The result r is a version the database knows, or comes from inside a transaction.
Known(r) == r # Nothing => r.of \in committed \/ r.inTx

\* The result r is the row, or is excused for not being it.
Fresh(r) == r # Nothing /\ r.of # rows => owed # {} \/ r.late \/ r.inTx

\* The row is a committed version.
RowCommitted == rows \in committed

\* What a query holds and what the cache has: UncommittedOnlyFromTx and
\* StaleOnlyThroughRace hold of results on their way to the cache already.
KnownResults == Known(entry) /\ \A c \in Clients : Known(held[c])
FreshResults == Fresh(entry) /\ \A c \in Clients : Fresh(held[c])

\* Between the two queries of a page, a repeatable-read transaction has a view or a write
\* of its own, and it is what the total was of.
PageFixed ==
    \A c \in Clients : at[c] = "page" /\ tx[c].repeatable =>
        /\ PageItems(c) = page[c]
        /\ tx[c].view # Nothing \/ tx[c].pending # Nothing

DataInv ==
    /\ DataTypeOK /\ RowCommitted
    /\ ConnectionsReturned /\ NilMeansCommitted
    /\ KnownResults /\ FreshResults /\ PageFixed

\* A version is not Nothing, and neither is a result.
LEMMA NothingIsNoValue == Nothing \notin Versions /\ Nothing \notin Results /\ Versions \subseteq Nat
  BY DataAccessAssumption DEF Versions, Results

\* What a client sees is a version: the row itself outside a transaction.
LEMMA SeesVersion ==
    ASSUME DataTypeOK, NEW c \in Clients
    PROVE  Sees(c) \in Versions /\ (~InTx(c) => Sees(c) = rows)
  BY NothingIsNoValue DEF DataTypeOK, Sees, InTx, Transactions

\* A transaction with a flag or a version changed is a transaction.
LEMMA FlagUpdates ==
    ASSUME NEW t \in Transactions, NEW b \in BOOLEAN
    PROVE  /\ [t EXCEPT !.open = TRUE, !.repeatable = b] \in Transactions
           /\ [t EXCEPT !.open = TRUE, !.repeatable = b].open
           /\ [t EXCEPT !.failed = b] \in Transactions
           /\ [t EXCEPT !.failed = b].open = t.open
           /\ b = t.failed => [t EXCEPT !.failed = b] = t
  BY DEF Transactions

LEMMA VersionUpdates ==
    ASSUME NEW t \in Transactions, NEW v \in Versions
    PROVE  /\ [t EXCEPT !.view = v] \in Transactions
           /\ [t EXCEPT !.view = v].open = t.open
           /\ [t EXCEPT !.pending = v] \in Transactions
           /\ [t EXCEPT !.pending = v].open = t.open
  BY DEF Transactions

LEMMA NoTransaction == NoTx \in Transactions /\ ~NoTx.open
  BY DEF Transactions, NoTx

\* A failed statement or query marks an open transaction only.
LEMMA BreaksTypes ==
    ASSUME DataTypeOK, NEW c \in Clients
    PROVE  /\ Breaks(c) \in [Clients -> Transactions]
           /\ \A d \in Clients : ~Breaks(c)[d].open => Breaks(c)[d] = NoTx
<1> DEFINE r == [tx[c] EXCEPT !.failed = InTx(c)]
<1>1. Breaks(c) = [tx EXCEPT ![c] = r]
  BY DEF Breaks
<1>2. InTx(c) \in BOOLEAN /\ tx[c] \in Transactions /\ tx \in [Clients -> Transactions]
  BY DEF DataTypeOK, InTx, Transactions
<1>3. /\ r \in Transactions /\ r.open = tx[c].open
      /\ InTx(c) = tx[c].failed => r = tx[c]
  BY <1>2, FlagUpdates
<1>4. ASSUME ~InTx(c) PROVE tx[c] = NoTx /\ InTx(c) = tx[c].failed
  <2>1. tx[c] = NoTx
    BY <1>4 DEF DataTypeOK, InTx
  <2>2. InTx(c) = FALSE /\ NoTx.failed = FALSE
    BY <1>2, <1>4 DEF NoTx
  <2> QED
    BY <2>1, <2>2
<1> HIDE DEF r
<1> QED
  BY <1>1, <1>2, <1>3, <1>4 DEF DataTypeOK, InTx

\* A read leaves a transaction open or closed as it was.
LEMMA TakeViewTypes ==
    ASSUME DataTypeOK, NEW c \in Clients
    PROVE  /\ TakeView(c) \in [Clients -> Transactions]
           /\ \A d \in Clients : ~TakeView(c)[d].open => TakeView(c)[d] = NoTx
           /\ \A d \in Clients : TakeView(c)[d].open = tx[d].open
<1>1. CASE tx[c].repeatable
  <2> DEFINE r == [tx[c] EXCEPT !.view = Sees(c)]
  <2>1. TakeView(c) = [tx EXCEPT ![c] = r]
    BY <1>1 DEF TakeView
  <2>2. tx[c] \in Transactions /\ Sees(c) \in Versions
    BY SeesVersion DEF DataTypeOK
  <2>3. r \in Transactions /\ r.open = tx[c].open
    BY <2>2, VersionUpdates
  <2>4. tx[c].open
    BY <1>1 DEF DataTypeOK, NoTx
  <2> HIDE DEF r
  <2> QED
    BY <2>1, <2>3, <2>4 DEF DataTypeOK
<1>2. CASE ~tx[c].repeatable
  BY <1>2 DEF TakeView, DataTypeOK
<1> QED
  BY <1>1, <1>2

\* A write, a failure and a read neither open nor end a transaction.
LEMMA SameOpen ==
    ASSUME DataTypeOK, NEW c \in Clients, NEW d \in Clients
    PROVE  /\ Breaks(c)[d].open = tx[d].open
           /\ \A v \in Versions : [tx EXCEPT ![c].pending = v][d].open = tx[d].open
  BY DEF DataTypeOK, Breaks, Transactions

LEMMA DataInvInit == DataInit => DataInv
<1> SUFFICES ASSUME DataInit PROVE DataInv
  OBVIOUS
<1> USE DEF DataInit
<1>1. DataTypeOK
  BY DataAccessAssumption, NoTransaction DEF DataTypeOK, Versions
<1>2. RowCommitted /\ NilMeansCommitted /\ KnownResults /\ FreshResults /\ PageFixed
  BY DEF RowCommitted, NilMeansCommitted, KnownResults, FreshResults, Known, Fresh, PageFixed
<1>3. ConnectionsReturned
  BY DEF ConnectionsReturned, InTx, NoTx
<1> QED
  BY <1>1, <1>2, <1>3 DEF DataInv

-----------------------------------------------------------------------------
(* Every action keeps the types. *)

LEMMA TransactionTypes ==
    ASSUME DataTypeOK, NEW c \in Clients,
           BeginTransaction(c) \/ FnFails(c) \/ Commit(c) \/ Write(c) \/ WriteFails(c)
    PROVE  DataTypeOK'
<1> USE NothingIsNoValue DEF DataTypeOK, rowVars, cacheVars, callVars
<1>1. CASE BeginTransaction(c)
  <2> PICK level \in BOOLEAN :
        tx' = [tx EXCEPT ![c].open = TRUE, ![c].repeatable = level]
    BY <1>1 DEF BeginTransaction
  <2> DEFINE r == [tx[c] EXCEPT !.open = TRUE, !.repeatable = level]
  <2>1. tx' = [tx EXCEPT ![c] = r]
    OBVIOUS
  <2>2. r \in Transactions /\ r.open
    BY FlagUpdates
  <2> HIDE DEF r
  <2>3. tx' \in [Clients -> Transactions] /\ \A d \in Clients : ~tx'[d].open => tx'[d] = NoTx
    BY <2>1, <2>2
  <2> QED
    BY <1>1, <2>3 DEF BeginTransaction
<1>2. CASE FnFails(c)
  BY <1>2, NoTransaction DEF FnFails
<1>3. CASE Commit(c)
  <2> PICK ok \in BOOLEAN : CommitOutcome(c, ok)
    BY <1>3 DEF Commit
  <2>1. tx[c].pending \in Versions \cup {Nothing}
    BY DEF Transactions
  <2>2. Apply(c) => rows' \in Versions /\ committed' \subseteq Versions /\ owed' \subseteq Clients
    BY <2>1 DEF Apply
  <2>3. /\ rows' \in Versions /\ committed' \subseteq Versions /\ owed' \subseteq Clients
        /\ promised' \subseteq Versions
    BY <2>1, <2>2 DEF CommitOutcome
  <2> QED
    BY <1>3, <2>3, NoTransaction DEF Commit
<1>4. CASE Write(c)
  <2>1. written + 1 \in Versions
    BY <1>4, DataAccessAssumption DEF Write, Versions
  <2>2. CASE InTx(c)
    <3> DEFINE r == [tx[c] EXCEPT !.pending = written + 1]
    <3>1. tx' = [tx EXCEPT ![c] = r]
      BY <1>4, <2>2 DEF Write
    <3>2. r \in Transactions /\ r.open
      BY <2>1, <2>2, VersionUpdates DEF InTx
    <3> HIDE DEF r
    <3>3. tx' \in [Clients -> Transactions] /\ \A d \in Clients : ~tx'[d].open => tx'[d] = NoTx
      BY <3>1, <3>2
    <3> QED
      BY <1>4, <2>1, <2>2, <3>3 DEF Write
  <2>3. CASE ~InTx(c)
    BY <1>4, <2>1, <2>3 DEF Write
  <2> QED
    BY <2>2, <2>3
<1>5. CASE WriteFails(c)
  BY <1>5, BreaksTypes DEF WriteFails
<1> QED
  BY <1>1, <1>2, <1>3, <1>4, <1>5

LEMMA QueryTypes ==
    ASSUME DataTypeOK, NEW c \in Clients,
           StartQuery(c) \/ Lookup(c) \/ OpenRows(c) \/ QueryFails(c) \/ ReadRows(c)
    PROVE  DataTypeOK'
<1> USE NothingIsNoValue DEF DataTypeOK, rowVars, cacheVars, callVars, Returns
<1>1. CASE StartQuery(c)
  BY <1>1 DEF StartQuery
<1>2. CASE Lookup(c)
  BY <1>2 DEF Lookup
<1>3. CASE OpenRows(c)
  <2>1. Sees(c) \in Versions /\ InTx(c) \in BOOLEAN
    BY SeesVersion DEF InTx, Transactions
  <2>2. [of |-> Sees(c), inTx |-> InTx(c), late |-> FALSE] \in Results
    BY <2>1 DEF Results
  <2>3. tx' \in [Clients -> Transactions] /\ \A d \in Clients : ~tx'[d].open => tx'[d] = NoTx
    BY <1>3, TakeViewTypes DEF OpenRows
  <2> QED
    BY <1>3, <2>2, <2>3 DEF OpenRows
<1>4. CASE QueryFails(c)
  BY <1>4, BreaksTypes DEF QueryFails, GiveBack
<1>5. CASE ReadRows(c)
  BY <1>5 DEF ReadRows, GiveBack
<1> QED
  BY <1>1, <1>2, <1>3, <1>4, <1>5

LEMMA CacheTypes ==
    ASSUME DataTypeOK, NEW c \in Clients,
           Fill(c) \/ Delete(c) \/ PageTotal(c) \/ PageData(c) \/ Expire
    PROVE  DataTypeOK'
<1> USE NothingIsNoValue DEF DataTypeOK, rowVars, cacheVars, callVars, Returns
<1>1. CASE Fill(c)
  BY <1>1 DEF Fill
<1>2. CASE Delete(c)
  <2>1. MarkLate \in [Clients -> Results \cup {Nothing}]
    BY DEF MarkLate, Results
  <2> QED
    BY <1>2, <2>1 DEF Delete
<1>3. CASE PageTotal(c)
  <2>1. Sees(c) \in Versions
    BY SeesVersion
  <2> QED
    BY <1>3, <2>1, TakeViewTypes DEF PageTotal
<1>4. CASE PageData(c)
  BY <1>4 DEF PageData
<1>5. CASE Expire
  BY <1>5 DEF Expire
<1> QED
  BY <1>1, <1>2, <1>3, <1>4, <1>5

LEMMA DataTypeStep == DataTypeOK /\ [DataNext]_dataVars => DataTypeOK'
<1> SUFFICES ASSUME DataTypeOK, [DataNext]_dataVars PROVE DataTypeOK'
  OBVIOUS
<1>1. CASE UNCHANGED dataVars
  BY <1>1 DEF DataTypeOK, dataVars
<1>2. CASE Expire
  BY <1>2, NothingIsNoValue DEF Expire, DataTypeOK, rowVars, callVars
<1>3. ASSUME NEW c \in Clients,
             BeginTransaction(c) \/ FnFails(c) \/ Commit(c) \/ Write(c) \/ WriteFails(c)
      PROVE  DataTypeOK'
  BY <1>3, TransactionTypes
<1>4. ASSUME NEW c \in Clients,
             StartQuery(c) \/ Lookup(c) \/ OpenRows(c) \/ QueryFails(c) \/ ReadRows(c)
      PROVE  DataTypeOK'
  BY <1>4, QueryTypes
<1>5. ASSUME NEW c \in Clients, Fill(c) \/ Delete(c) \/ PageTotal(c) \/ PageData(c)
      PROVE  DataTypeOK'
  BY <1>5, CacheTypes
<1> QED
  BY <1>1, <1>2, <1>3, <1>4, <1>5 DEF DataNext

-----------------------------------------------------------------------------
(* The connections of the pool and what Execute promises. *)

LEMMA ConnectionsStep ==
    DataTypeOK /\ DataTypeOK' /\ ConnectionsReturned /\ [DataNext]_dataVars => ConnectionsReturned'
<1> SUFFICES ASSUME DataTypeOK, DataTypeOK', ConnectionsReturned, [DataNext]_dataVars
             PROVE  ConnectionsReturned'
  OBVIOUS
<1> USE DEF ConnectionsReturned, InTx, rowVars, cacheVars, callVars
<1>1. CASE UNCHANGED dataVars
  BY <1>1 DEF dataVars
<1>2. CASE Expire
  BY <1>2 DEF Expire
<1>3. ASSUME NEW c \in Clients, BeginTransaction(c)
      PROVE  ConnectionsReturned'
  <2>1. tx'[c].open /\ \A d \in Clients \ {c} : tx'[d] = tx[d]
    BY <1>3 DEF BeginTransaction, DataTypeOK, Transactions
  <2> QED
    BY <1>3, <2>1 DEF BeginTransaction
<1>4. ASSUME NEW c \in Clients, FnFails(c) \/ Commit(c)
      PROVE  ConnectionsReturned'
  <2>1. ~tx'[c].open /\ \A d \in Clients \ {c} : tx'[d] = tx[d]
    BY <1>4, NoTransaction DEF FnFails, Commit, DataTypeOK
  <2>2. at' = at /\ at[c] = "idle" /\ busy' = busy \ {c}
    BY <1>4 DEF FnFails, Commit, Idle
  <2> QED
    BY <2>1, <2>2
<1>5. ASSUME NEW c \in Clients, Write(c) \/ WriteFails(c)
      PROVE  ConnectionsReturned'
  <2>1. \A d \in Clients : tx'[d].open = tx[d].open
    <3>1. CASE WriteFails(c)
      BY <3>1, SameOpen DEF WriteFails
    <3>2. CASE Write(c)
      <4>1. tx' = tx \/ tx' = [tx EXCEPT ![c].pending = written + 1]
        BY <3>2 DEF Write
      <4>2. written + 1 \in Versions
        BY <3>2, DataAccessAssumption DEF Write, Versions, DataTypeOK
      <4>3. ASSUME tx' = [tx EXCEPT ![c].pending = written + 1]
            PROVE  \A d \in Clients : tx'[d].open = tx[d].open
        BY <4>2, <4>3, SameOpen
      <4> QED
        BY <4>1, <4>3
    <3> QED
      BY <1>5, <3>1, <3>2
  <2>2. at' = at /\ busy' = busy
    BY <1>5 DEF Write, WriteFails
  <2> QED
    BY <2>1, <2>2
<1>6. ASSUME NEW c \in Clients, StartQuery(c) \/ Lookup(c)
      PROVE  ConnectionsReturned'
  BY <1>6 DEF StartQuery, Lookup, Returns, Idle, DataTypeOK
<1>7. ASSUME NEW c \in Clients, OpenRows(c)
      PROVE  ConnectionsReturned'
  <2>1. \A d \in Clients : tx'[d].open = tx[d].open
    BY <1>7, TakeViewTypes DEF OpenRows
  <2> QED
    BY <1>7, <2>1 DEF OpenRows, DataTypeOK
<1>8. ASSUME NEW c \in Clients, QueryFails(c) \/ ReadRows(c)
      PROVE  ConnectionsReturned'
  <2>1. \A d \in Clients : tx'[d].open = tx[d].open
    BY <1>8, SameOpen DEF QueryFails, ReadRows, DataTypeOK
  <2>2. /\ busy' = GiveBack(c)
        /\ at'[c] # "rows" /\ \A d \in Clients \ {c} : at'[d] = at[d]
    BY <1>8 DEF QueryFails, ReadRows, Returns, DataTypeOK
  <2> QED
    BY <2>1, <2>2 DEF GiveBack
<1>9. ASSUME NEW c \in Clients, Fill(c) \/ Delete(c) \/ PageTotal(c) \/ PageData(c)
      PROVE  ConnectionsReturned'
  <2>1. \A d \in Clients : tx'[d].open = tx[d].open
    BY <1>9, TakeViewTypes DEF Fill, Delete, PageTotal, PageData
  <2> QED
    BY <1>9, <2>1 DEF Fill, Delete, PageTotal, PageData, Returns, Idle, DataTypeOK
<1> QED
  BY <1>1, <1>2, <1>3, <1>4, <1>5, <1>6, <1>7, <1>8, <1>9 DEF DataNext

LEMMA PromisesStep == DataTypeOK /\ NilMeansCommitted /\ [DataNext]_dataVars => NilMeansCommitted'
<1> SUFFICES ASSUME DataTypeOK, NilMeansCommitted, [DataNext]_dataVars
             PROVE  NilMeansCommitted'
  OBVIOUS
<1>1. ASSUME NEW c \in Clients, Commit(c)
      PROVE  NilMeansCommitted'
  BY <1>1 DEF Commit, CommitOutcome, Apply, NilMeansCommitted
<1>2. ASSUME NEW c \in Clients, Write(c)
      PROVE  NilMeansCommitted'
  BY <1>2 DEF Write, NilMeansCommitted
<1>3. CASE UNCHANGED <<promised, committed>>
  BY <1>3 DEF NilMeansCommitted
<1> QED
  BY <1>1, <1>2, <1>3 DEF DataNext, dataVars, rowVars, BeginTransaction, FnFails, WriteFails,
     StartQuery, Lookup, OpenRows, QueryFails, ReadRows, Fill, Delete, PageTotal, PageData, Expire

-----------------------------------------------------------------------------
(* What the reads see and what the cache keeps. *)

LEMMA RowStep == DataTypeOK /\ RowCommitted /\ [DataNext]_dataVars => RowCommitted'
<1> SUFFICES ASSUME DataTypeOK, RowCommitted, [DataNext]_dataVars
             PROVE  RowCommitted'
  OBVIOUS
<1>1. ASSUME NEW c \in Clients, Commit(c)
      PROVE  RowCommitted'
  BY <1>1 DEF Commit, CommitOutcome, Apply, RowCommitted
<1>2. ASSUME NEW c \in Clients, Write(c)
      PROVE  RowCommitted'
  BY <1>2 DEF Write, RowCommitted
<1>3. CASE UNCHANGED <<rows, committed>>
  BY <1>3 DEF RowCommitted
<1> QED
  BY <1>1, <1>2, <1>3 DEF DataNext, dataVars, rowVars, BeginTransaction, FnFails, WriteFails,
     StartQuery, Lookup, OpenRows, QueryFails, ReadRows, Fill, Delete, PageTotal, PageData, Expire

\* A result stays known as the database commits more, and stays excused as a writer comes
\* to owe a deletion.
LEMMA ResultsKept ==
    ASSUME DataTypeOK, DataNext, \A c \in Clients : ~Delete(c)
    PROVE  \A r \in Results : /\ Known(r) => Known(r)'
                              /\ Fresh(r) => Fresh(r)'
<1>1. ASSUME NEW c \in Clients, Commit(c)
      PROVE  /\ committed \subseteq committed'
             /\ rows' # rows => owed' # {}
             /\ owed \subseteq owed'
  BY <1>1 DEF Commit, CommitOutcome, Apply
<1>2. ASSUME NEW c \in Clients, Write(c)
      PROVE  /\ committed \subseteq committed'
             /\ rows' # rows => owed' # {}
             /\ owed \subseteq owed'
  BY <1>2 DEF Write
<1>3. /\ committed \subseteq committed'
      /\ rows' # rows => owed' # {}
      /\ owed \subseteq owed'
  BY <1>1, <1>2 DEF DataNext, rowVars, BeginTransaction, FnFails, WriteFails,
     StartQuery, Lookup, OpenRows, QueryFails, ReadRows, Fill, PageTotal, PageData, Expire
<1> QED
  BY <1>3 DEF Known, Fresh

\* Apart from a deletion and from the rows just opened, what a query holds and what the
\* cache has after a step is something one of them had before.
LEMMA ResultsMove ==
    ASSUME DataTypeOK, DataNext, \A c \in Clients : ~Delete(c) /\ ~OpenRows(c)
    PROVE  /\ entry' = Nothing \/ entry' = entry \/ \E d \in Clients : entry' = held[d]
           /\ \A c \in Clients : held'[c] = Nothing \/ held'[c] = held[c]
<1>1. ASSUME NEW c \in Clients,
             BeginTransaction(c) \/ FnFails(c) \/ Commit(c) \/ Write(c) \/ WriteFails(c)
             \/ StartQuery(c) \/ PageTotal(c) \/ PageData(c)
      PROVE  held' = held /\ entry' = entry
  BY <1>1 DEF BeginTransaction, FnFails, Commit, Write, WriteFails, StartQuery, PageTotal,
     PageData, cacheVars, callVars
<1>2. ASSUME NEW c \in Clients, Lookup(c) \/ QueryFails(c) \/ ReadRows(c)
      PROVE  /\ entry' = entry
             /\ held' = held \/ held' = [held EXCEPT ![c] = Nothing]
  BY <1>2 DEF Lookup, QueryFails, ReadRows, Returns, cacheVars
<1>3. ASSUME NEW c \in Clients, Fill(c)
      PROVE  entry' \in {entry, held[c]} /\ held' = [held EXCEPT ![c] = Nothing]
  BY <1>3 DEF Fill, Returns
<1>4. CASE Expire
  BY <1>4 DEF Expire, callVars
<1> QED
  BY <1>1, <1>2, <1>3, <1>4 DEF DataNext, DataTypeOK

LEMMA ResultsStep ==
    DataTypeOK /\ RowCommitted /\ KnownResults /\ FreshResults /\ [DataNext]_dataVars
        => KnownResults' /\ FreshResults'
<1> SUFFICES ASSUME DataTypeOK, RowCommitted, KnownResults, FreshResults, [DataNext]_dataVars
             PROVE  KnownResults' /\ FreshResults'
  OBVIOUS
<1> USE DEF KnownResults, FreshResults
<1>1. CASE UNCHANGED dataVars
  BY <1>1 DEF dataVars, Known, Fresh
<1>2. ASSUME NEW c \in Clients, Delete(c)
      PROVE  KnownResults' /\ FreshResults'
  <2>1. entry' = Nothing /\ committed' = committed /\ rows' = rows
    BY <1>2 DEF Delete
  <2>2. ASSUME NEW d \in Clients, held'[d] # Nothing
        PROVE  held[d] # Nothing /\ held'[d] = [held[d] EXCEPT !.late = TRUE]
    BY <1>2, <2>2 DEF Delete, MarkLate
  <2>3. ASSUME NEW d \in Clients, held'[d] # Nothing
        PROVE  /\ held'[d].of = held[d].of /\ held'[d].inTx = held[d].inTx
               /\ held'[d].late
    <3>1. held[d] \in Results
      BY <2>2, <2>3 DEF DataTypeOK
    <3> QED
      BY <2>2, <2>3, <3>1 DEF Results
  <2> QED
    BY <2>1, <2>2, <2>3 DEF Known, Fresh
<1>3. ASSUME NEW c \in Clients, OpenRows(c)
      PROVE  KnownResults' /\ FreshResults'
  <2>1. UNCHANGED <<rows, committed, owed, entry>>
    BY <1>3 DEF OpenRows, rowVars, cacheVars
  <2>2. \A d \in Clients \ {c} : held'[d] = held[d]
    BY <1>3 DEF OpenRows, DataTypeOK
  <2>3. held'[c].of = Sees(c) /\ held'[c].inTx = InTx(c)
    BY <1>3 DEF OpenRows, DataTypeOK
  <2>4. InTx(c) \/ Sees(c) = rows
    BY SeesVersion
  <2>5. Known(held[c])' /\ Fresh(held[c])'
    BY <2>1, <2>3, <2>4 DEF RowCommitted, Known, Fresh
  <2> QED
    BY <2>1, <2>2, <2>5 DEF Known, Fresh
<1>4. ASSUME DataNext, \A c \in Clients : ~Delete(c) /\ ~OpenRows(c)
      PROVE  KnownResults' /\ FreshResults'
  <2>1. \A r \in Results : (Known(r) => Known(r)') /\ (Fresh(r) => Fresh(r)')
    BY <1>4, ResultsKept
  <2>2. /\ entry' = Nothing \/ entry' = entry \/ \E d \in Clients : entry' = held[d]
        /\ \A c \in Clients : held'[c] = Nothing \/ held'[c] = held[c]
    BY <1>4, ResultsMove
  <2>3. entry \in Results \cup {Nothing} /\ \A c \in Clients : held[c] \in Results \cup {Nothing}
    BY DEF DataTypeOK
  <2> QED
    BY <2>1, <2>2, <2>3 DEF Known, Fresh
<1> QED
  BY <1>1, <1>2, <1>3, <1>4

-----------------------------------------------------------------------------
(* The two queries of a page. *)

LEMMA PageStep ==
    DataTypeOK /\ PageFixed /\ [DataNext]_dataVars => PageFixed'
<1> SUFFICES ASSUME DataTypeOK, PageFixed, [DataNext]_dataVars,
                    NEW d \in Clients, at'[d] = "page", tx'[d].repeatable
             PROVE  /\ PageItems(d)' = page'[d]
                    /\ tx'[d].view # Nothing \/ tx'[d].pending # Nothing
  BY DEF PageFixed
<1> USE DEF PageItems, Sees, InTx
\* Nobody else touches the page query, the transaction or the place of d.
<1>1. CASE at[d] = "page" /\ tx'[d] = tx[d] /\ page'[d] = page[d]
  <2>1. tx[d].open
    BY <1>1 DEF DataTypeOK, NoTx
  <2> QED
    BY <1>1, <2>1 DEF PageFixed
<1>2. CASE PageTotal(d)
  <2> DEFINE r == [tx[d] EXCEPT !.view = Sees(d)]
  <2>1. tx'[d] = IF tx[d].repeatable THEN r ELSE tx[d]
    BY <1>2 DEF PageTotal, TakeView, DataTypeOK
  <2>2. tx[d] \in Transactions /\ Sees(d) \in Versions
    BY SeesVersion DEF DataTypeOK
  <2>3. r.view = Sees(d) /\ r.pending = tx[d].pending /\ r.open = tx[d].open
    BY <2>2 DEF Transactions
  <2>4. page'[d] = Sees(d)
    BY <1>2 DEF PageTotal, DataTypeOK
  <2> HIDE DEF r
  <2>5. tx[d].repeatable /\ tx[d].open
    BY <1>2, <2>1 DEF DataTypeOK, NoTx
  <2> QED
    BY <2>1, <2>2, <2>3, <2>4, <2>5, NothingIsNoValue
<1>3. ASSUME DataNext, ~PageTotal(d)
      PROVE  at[d] = "page" /\ tx'[d] = tx[d] /\ page'[d] = page[d]
  <2>1. ASSUME NEW c \in Clients,
               BeginTransaction(c) \/ FnFails(c) \/ Commit(c) \/ Write(c) \/ WriteFails(c)
        PROVE  at[d] = "page" /\ tx'[d] = tx[d] /\ page'[d] = page[d]
    <3>1. at' = at /\ page' = page /\ at[c] = "idle"
      BY <2>1 DEF BeginTransaction, FnFails, Commit, Write, WriteFails, Idle, callVars
    <3>2. c # d
      BY <3>1
    <3>3. \A e \in Clients \ {c} : tx'[e] = tx[e]
      BY <2>1 DEF BeginTransaction, FnFails, Commit, Write, WriteFails, Breaks, DataTypeOK
    <3> QED
      BY <3>1, <3>2, <3>3
  <2>2. ASSUME NEW c \in Clients,
               StartQuery(c) \/ Lookup(c) \/ OpenRows(c) \/ QueryFails(c) \/ ReadRows(c)
               \/ Fill(c) \/ PageData(c)
        PROVE  at[d] = "page" /\ tx'[d] = tx[d] /\ page'[d] = page[d]
    <3>1. c # d
      BY <2>2 DEF StartQuery, Lookup, OpenRows, QueryFails, ReadRows, Fill, PageData, Returns,
         DataTypeOK
    <3>2. \A e \in Clients \ {c} : at'[e] = at[e] /\ tx'[e] = tx[e] /\ page'[e] = page[e]
      BY <2>2 DEF StartQuery, Lookup, OpenRows, QueryFails, ReadRows, Fill, PageData, Returns,
         TakeView, Breaks, DataTypeOK
    <3> QED
      BY <3>1, <3>2
  <2>3. ASSUME NEW c \in Clients, PageTotal(c)
        PROVE  at[d] = "page" /\ tx'[d] = tx[d] /\ page'[d] = page[d]
    BY <1>3, <2>3 DEF PageTotal, TakeView, DataTypeOK
  <2>4. ASSUME NEW c \in Clients, Delete(c) \/ Expire
        PROVE  at[d] = "page" /\ tx'[d] = tx[d] /\ page'[d] = page[d]
    BY <2>4 DEF Delete, Expire, callVars
  <2> QED
    BY <1>3, <2>1, <2>2, <2>3, <2>4 DEF DataNext
<1>4. CASE UNCHANGED dataVars
  BY <1>1, <1>4 DEF dataVars
<1> QED
  BY <1>1, <1>2, <1>3, <1>4

-----------------------------------------------------------------------------
(* The theorems. *)

LEMMA DataInvStep == DataInv /\ [DataNext]_dataVars => DataInv'
  BY DataTypeStep, ConnectionsStep, PromisesStep, RowStep, ResultsStep, PageStep DEF DataInv

LEMMA DataInvAlways == DataSpec => []DataInv
  BY DataInvInit, DataInvStep, PTL DEF DataSpec

\* The types, whatever the clients, the pool and the number of writes.
THEOREM DataTypes == DataSpec => []DataTypeOK
<1>1. DataInv => DataTypeOK
  BY DEF DataInv
<1> QED
  BY <1>1, DataInvAlways, PTL

\* Execute ends without a connection of the pool left behind, and its nil means that the
\* database committed what was written (sql_transaction.go:62-86).
THEOREM ExecuteSettlesAlways == DataSpec => []ExecuteSettles
<1>1. DataInv => ExecuteSettles
  BY DEF DataInv, ExecuteSettles
<1> QED
  BY <1>1, DataInvAlways, PTL

\* An uncommitted version reaches the cache from inside a transaction only, and a page
\* read in a repeatable-read transaction counts and lists the same table
\* (query.go:60-88, page_query.go:49-141).
THEOREM ReadsIsolatedAlways == DataSpec => []ReadsIsolated
<1>1. DataInv => UncommittedOnlyFromTx
  BY NothingIsNoValue DEF DataInv, KnownResults, Known, UncommittedOnlyFromTx
<1>2. DataInv => PageAgrees
  BY DEF DataInv, PageFixed, PageAgrees
<1> QED
  BY <1>1, <1>2, DataInvAlways, PTL DEF ReadsIsolated

\* A deletion after the commit is undone only by a query that had read before it or reads
\* inside a transaction (query.go:60-88, cache.go:107-113).
THEOREM StaleOnlyThroughRaceAlways == DataSpec => []StaleOnlyThroughRace
<1>1. DataInv => StaleOnlyThroughRace
  BY DEF DataInv, FreshResults, Fresh, StaleOnlyThroughRace
<1> QED
  BY <1>1, DataInvAlways, PTL

=============================================================================
