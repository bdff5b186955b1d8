------------------------------- MODULE DBBase -------------------------------
(***************************************************************************)
(* CDBBase of omnicore/dbbase.cpp: the LevelDB handle the Omni databases   *)
(* are built on, with its read and write counters.                         *)
(*                                                                         *)
(* The database is a function from the keys present to their values.  It   *)
(* lives on disk: it outlives Close() and is what the next Open() finds,   *)
(* unless that Open() wipes it.  Put and Erase stand for the Write and     *)
(* Delete calls of the classes derived from CDBBase.                       *)
(***************************************************************************)
EXTENDS Naturals, FiniteSets

CONSTANT MaxCount  \* bound on the counters nRead and nWritten

VARIABLES
    pdb,       \* TRUE when the handle is not NULL: the database is open
    store,     \* the entries of the database on disk, key -> value
    nRead,     \* number of entries read
    nWritten   \* number of entries written

dbVars == <<pdb, store, nRead, nWritten>>

NoEntries == <<>>

DBTypeOK ==
    /\ pdb \in BOOLEAN
    /\ nRead \in 0..MaxCount
    /\ nWritten \in 0..MaxCount

\* A CDBBase before Open(): no handle, counters at zero; nothing on disk.
DBInit ==
    /\ pdb = FALSE
    /\ store = NoEntries
    /\ nRead = 0
    /\ nWritten = 0

-----------------------------------------------------------------------------

\* pdb->Put / Write(key, value)
Put(entries, key, value) ==
    [k \in DOMAIN entries \cup {key} |-> IF k = key THEN value ELSE entries[k]]

\* pdb->Delete of every key of a set
Erase(entries, keys) ==
    [k \in DOMAIN entries \ keys |-> entries[k]]

\* The members of S in the order of Less, a total order on S: what an
\* iterator over the database, or over a std::map, visits.
InOrder(S, Less(_, _)) ==
    [i \in 1..Cardinality(S) |->
        CHOOSE x \in S : Cardinality({y \in S : Less(y, x)}) = i - 1]

\* leveldb::Status Open(path, fWipe): DestroyDB if asked, then DB::Open.
\* The counters are those of the object that opens the database.
Open(fWipe) ==
    /\ pdb' = TRUE
    /\ store' = IF fWipe THEN NoEntries ELSE store

\* void Clear(): one batch that deletes every key the iterator finds.
Clear ==
    /\ pdb
    /\ store' = Erase(store, DOMAIN store)
    /\ nRead' = 0
    /\ nWritten' = 0
    /\ UNCHANGED pdb

\* void Close(): if (pdb) { delete pdb; pdb = NULL; }
Close ==
    /\ pdb
    /\ pdb' = FALSE
    /\ UNCHANGED <<store, nRead, nWritten>>

=============================================================================
