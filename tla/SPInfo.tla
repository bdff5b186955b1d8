------------------------------- MODULE SPInfo -------------------------------
(***************************************************************************)
(* CMPSPInfo of omnicore/dbspinfo.cpp: the database of the smart           *)
(* properties, with the rollback of a block.                               *)
(*                                                                         *)
(* The keys are tuples that begin with the prefix of the key: <<"s", id>>  *)
(* the entry of a property, <<"t", txid>> the property a transaction       *)
(* created, <<"b", block, id>> the entry as it was before the update in    *)
(* block, <<"UE", id>> and <<"DE", id>> the unique flag and the delegates  *)
(* of a property, <<"B">> the watermark.  An entry is a record; the value  *)
(* under "s" holds the fields of Serialized, the flag and the delegates    *)
(* are only under their own keys.  A block is known by its hash, a         *)
(* number that is never used twice; the histories of an entry are kept by  *)
(* height and position in the block.                                       *)
(*                                                                         *)
(* The database follows the chain: the properties created and changed by   *)
(* the transactions of a block are written while the block is processed,   *)
(* the watermark is set at its end, and a block that is disconnected is    *)
(* popped.  What the transactions said is kept beside the database in      *)
(* ledger, and for every connected block in chain.                         *)
(***************************************************************************)
EXTENDS DBBase, Integers, Sequences

LOCAL SeqExt == INSTANCE SequencesExt
LOCAL SetExt == INSTANCE FiniteSetsExt

CONSTANTS
    Txid,             \* transactions that create a property
    Tx,               \* txid -> [issuer, ecosystem, unique, prop_type], what it creates
    Address,          \* issuers and delegates
    FirstSPID,        \* first identifier of the main ecosystem
    FirstTestSPID,    \* first identifier of the test ecosystem
    MaxProperties,    \* bound on the properties created in one ecosystem
    MaxBlocks,        \* bound on the blocks ever processed
    TxPerBlock,       \* bound on the transactions of a block
    UpdatesPerBlock   \* bound on the updates of one property in one block

VARIABLES
    next_spid,        \* next identifier of the main ecosystem
    next_test_spid,   \* next identifier of the test ecosystem
    phase,            \* "stopped", "loading", "idle" or "block"
    chain,            \* the blocks processed, each with the state at its end
    nBlocks,          \* hash of the last block begun
    idx,              \* position of the next transaction in the block
    nUpdates,         \* property -> updates in the block being processed
    ledger            \* property -> entry, as the transactions left it

spVars == <<next_spid, next_test_spid>>
envVars == <<phase, chain, nBlocks, idx, nUpdates, ledger>>
vars == <<dbVars, spVars, envVars>>

OMNI_PROPERTY_MSC == 1
OMNI_PROPERTY_TMSC == 2
Implied == {OMNI_PROPERTY_MSC, OMNI_PROPERTY_TMSC}
Ecosystem == {OMNI_PROPERTY_MSC, OMNI_PROPERTY_TMSC}

NullHash == 0
NoAddress == ""
Exodus == "exodus"

\* The types of a property: indivisible and divisible, new, replacing and
\* appending.
MSC_PROPERTY_TYPE_INDIVISIBLE == 1
MSC_PROPERTY_TYPE_DIVISIBLE == 2
MSC_PROPERTY_TYPE_INDIVISIBLE_REPLACING == 65
MSC_PROPERTY_TYPE_DIVISIBLE_REPLACING == 66
MSC_PROPERTY_TYPE_INDIVISIBLE_APPENDING == 129
MSC_PROPERTY_TYPE_DIVISIBLE_APPENDING == 130

\* uint32_t identifiers: those the bounds let putSP hand out.
PropertyId ==
    FirstSPID..(FirstSPID + MaxProperties - 1)
        \cup FirstTestSPID..(FirstTestSPID + MaxProperties - 1)

-----------------------------------------------------------------------------
(* The keys                                                                *)

SpKey(propertyId)            == <<"s", propertyId>>
TxIndexKey(txid)             == <<"t", txid>>
SpPrevKey(block, propertyId) == <<"b", block, propertyId>>
UniqueKey(propertyId)        == <<"UE", propertyId>>
DelegateKey(propertyId)      == <<"DE", propertyId>>
WatermarkKey                 == <<"B">>

\* iter->Seek(prefix); iter->key().starts_with(prefix)
WithPrefix(entries, prefix) == {key \in DOMAIN entries : key[1] = prefix}

-----------------------------------------------------------------------------
(* CMPSPInfo::Entry                                                        *)

\* Entry::Entry()
Entry ==
    [txid |-> NullHash, creation_block |-> NullHash, update_block |-> NullHash,
     prop_type |-> 0, issuer |-> NoAddress, historicalIssuers |-> NoEntries,
     unique |-> FALSE, delegate |-> NoAddress, historicalDelegates |-> NoEntries]

\* What ssSpValue << info writes.
Serialized ==
    {"txid", "creation_block", "update_block", "prop_type", "issuer", "historicalIssuers"}

\* Mutation: an entry serialized with every field.
SerializeAll(info) == info

Serialize(info) == [field \in Serialized |-> info[field]]

\* ssSpValue >> info, into an entry that was just constructed
Unserialize(value) ==
    [field \in DOMAIN Entry |-> IF field \in Serialized THEN value[field] ELSE Entry[field]]

\* bool Entry::isDivisible()
isDivisible(info) ==
    info.prop_type \in {MSC_PROPERTY_TYPE_DIVISIBLE,
                       MSC_PROPERTY_TYPE_DIVISIBLE_REPLACING,
                       MSC_PROPERTY_TYPE_DIVISIBLE_APPENDING}

\* The order of std::map<std::pair<int, int>, std::string>
PairLess(a, b) == a[1] < b[1] \/ (a[1] = b[1] /\ a[2] < b[2])

\* Mutation: the loop leaves at the block itself.
SeenBefore(history, block) == {key \in DOMAIN history : key[1] < block}

\* The keys the loop of getIssuer and getDelegate assigns from before it
\* leaves at the first currentBlock > block.
SeenUpTo(history, block) == {key \in DOMAIN history : key[1] <= block}

\* for (entry : history) { if (currentBlock > block) break; value = entry.second; }
LatestUpTo(history, initial, block) ==
    LET seen == InOrder(SeenUpTo(history, block), PairLess)
    IN IF seen = <<>> THEN initial ELSE history[seen[Len(seen)]]

\* void Entry::updateIssuer(block, idx, newIssuer)
updateIssuer(info, block, position, newIssuer) ==
    [info EXCEPT !.historicalIssuers = Put(@, <<block, position>>, newIssuer)]

\* std::string Entry::getIssuer(block)
getIssuer(info, block) == LatestUpTo(info.historicalIssuers, info.issuer, block)

\* void Entry::addDelegate(block, idx, newIssuer)
addDelegate(info, block, position, newIssuer) ==
    [info EXCEPT !.historicalDelegates = Put(@, <<block, position>>, newIssuer)]

\* void Entry::removeDelegate(block, idx)
removeDelegate(info, block, position) ==
    [info EXCEPT !.historicalDelegates = Put(@, <<block, position>>, NoAddress)]

\* std::string Entry::getDelegate(block)
getDelegate(info, block) == LatestUpTo(info.historicalDelegates, info.delegate, block)

\* implied_omni and implied_tomni, as the constructor fills them
implied_omni ==
    updateIssuer([Entry EXCEPT !.issuer = Exodus,
                               !.prop_type = MSC_PROPERTY_TYPE_DIVISIBLE], 0, 0, Exodus)

implied_tomni == implied_omni

-----------------------------------------------------------------------------
(* Reading                                                                 *)

NotFound == [found |-> FALSE, info |-> Entry]

\* bool getSP(propertyId, info): the entry under "s", the flag under "UE"
\* and the delegates under "DE" where these keys exist.
getSP(entries, propertyId) ==
    LET stored == Unserialize(entries[SpKey(propertyId)])
        unique == IF UniqueKey(propertyId) \in DOMAIN entries
                  THEN entries[UniqueKey(propertyId)] = 1
                  ELSE stored.unique
        delegates == IF DelegateKey(propertyId) \in DOMAIN entries
                     THEN entries[DelegateKey(propertyId)]
                     ELSE [delegate |-> stored.delegate,
                           historicalDelegates |-> stored.historicalDelegates]
    IN CASE propertyId = OMNI_PROPERTY_MSC -> [found |-> TRUE, info |-> implied_omni]
         [] propertyId = OMNI_PROPERTY_TMSC -> [found |-> TRUE, info |-> implied_tomni]
         [] SpKey(propertyId) \notin DOMAIN entries -> NotFound
         [] OTHER -> [found |-> TRUE,
                      info |-> [stored EXCEPT !.unique = unique,
                                              !.delegate = delegates.delegate,
                                              !.historicalDelegates = delegates.historicalDelegates]]

\* bool hasSP(propertyId)
hasSP(entries, propertyId) ==
    propertyId \in Implied \/ SpKey(propertyId) \in DOMAIN entries

\* uint32_t findSPByTX(txid): 0 when the transaction created nothing
findSPByTX(entries, txid) ==
    IF TxIndexKey(txid) \in DOMAIN entries THEN entries[TxIndexKey(txid)] ELSE 0

\* bool getWatermark(watermark)
getWatermark(entries) ==
    IF WatermarkKey \in DOMAIN entries
    THEN [found |-> TRUE, watermark |-> entries[WatermarkKey]]
    ELSE [found |-> FALSE, watermark |-> NullHash]

\* uint32_t peekNextSPID(ecosystem)
peekNextSPID(ecosystem) ==
    CASE ecosystem = OMNI_PROPERTY_MSC -> next_spid
      [] ecosystem = OMNI_PROPERTY_TMSC -> next_test_spid
      [] OTHER -> 0

-----------------------------------------------------------------------------
(* Mutations                                                               *)

\* putSP that hands out the identifier without advancing it.
IssuedWithoutAdvance(ecosystem) ==
    UNCHANGED <<next_spid, next_test_spid>>

\* A rollback that looks for the block in creation_block.
UpdatedInCreation(entries, block_hash) ==
    {key \in WithPrefix(entries, "s") : entries[key].creation_block = block_hash}

\* A rollback that leaves the transaction index of a deleted property.
TxIndexKept(entries, created) == {}

-----------------------------------------------------------------------------
(* Writing                                                                 *)

\* void init(nextSPID = 0x3, nextTestSPID = TEST_ECO_PROPERTY_1)
init(nextSPID, nextTestSPID) ==
    /\ next_spid' = nextSPID
    /\ next_test_spid' = nextTestSPID

\* CMPSPInfo(path, fWipe): a new object opens the database; the next
\* identifiers are the first ones.
CMPSPInfo(fWipe) ==
    /\ Open(fWipe)
    /\ nRead' = 0
    /\ nWritten' = 0
    /\ init(FirstSPID, FirstTestSPID)

\* void CMPSPInfo::Clear()
ClearSP ==
    /\ Clear
    /\ init(FirstSPID, FirstTestSPID)

\* propertyId = next_spid++, next_test_spid++
Issued(ecosystem) ==
    /\ next_spid' = IF ecosystem = OMNI_PROPERTY_MSC THEN next_spid + 1 ELSE next_spid
    /\ next_test_spid' = IF ecosystem = OMNI_PROPERTY_TMSC THEN next_test_spid + 1
                         ELSE next_test_spid

\* uint32_t putSP(ecosystem, info): one batch with the entry, the
\* transaction index and, for a unique property, the flag.  The sanity
\* checks before it only log.
putSP(ecosystem, info) ==
    LET propertyId == peekNextSPID(ecosystem)
        batch == Put(Put(store, SpKey(propertyId), Serialize(info)),
                     TxIndexKey(info.txid), propertyId)
    IN /\ pdb
       /\ Issued(ecosystem)
       /\ store' = IF info.unique THEN Put(batch, UniqueKey(propertyId), 1) ELSE batch
       /\ UNCHANGED <<pdb, nRead, nWritten>>

\* bool updateSP(propertyId, info): one batch that moves the entry there is
\* to the key of info.update_block, writes the new one, and the delegates
\* if the entry has any.
updateSP(propertyId, info) ==
    LET moved == IF SpKey(propertyId) \in DOMAIN store
                 THEN Put(store, SpPrevKey(info.update_block, propertyId),
                          store[SpKey(propertyId)])
                 ELSE store
        batch == Put(moved, SpKey(propertyId), Serialize(info))
        delegates == [delegate |-> info.delegate,
                      historicalDelegates |-> info.historicalDelegates]
    IN /\ pdb
       /\ store' = CASE propertyId \in Implied -> store
                     [] info.historicalDelegates # NoEntries ->
                            Put(batch, DelegateKey(propertyId), delegates)
                     [] OTHER -> batch
       /\ UNCHANGED <<pdb, nRead, nWritten, spVars>>

\* The entries popBlock(block_hash) rolls back: info.update_block == block_hash
UpdatedIn(entries, block_hash) ==
    {key \in WithPrefix(entries, "s") : entries[key].update_block = block_hash}

\* commitBatch.Delete(slTxIndexKey) of the properties deleted
TxIndexOf(entries, created) == {TxIndexKey(entries[key].txid) : key \in created}

\* int64_t popBlock(block_hash): the properties the block created are
\* deleted with their transaction index, those it updated get the entry
\* back that updateSP moved away; -3, and nothing written, if one of them
\* has none.
popBlock(entries, block_hash) ==
    LET updated == UpdatedIn(entries, block_hash)
        created == {key \in updated : entries[key].creation_block = block_hash}
        PrevKey(key) == SpPrevKey(block_hash, key[2])
        restored == updated \ created
        kept == Erase(entries, created \cup TxIndexOf(entries, created)
                                   \cup {PrevKey(key) : key \in restored})
    IN IF \E key \in restored : PrevKey(key) \notin DOMAIN entries
       THEN [remainingSPs |-> -3, entries |-> entries]
       ELSE [remainingSPs |-> Cardinality(WithPrefix(entries, "s") \ created),
             entries |-> [key \in DOMAIN kept |->
                             IF key \in restored THEN entries[PrevKey(key)] ELSE kept[key]]]

\* void setWatermark(watermark): batch.Delete(key); batch.Put(key, value)
setWatermark(entries, watermark) ==
    Put(Erase(entries, {WatermarkKey}), WatermarkKey, watermark)

-----------------------------------------------------------------------------
(* The database following the chain                                        *)

Height == Len(chain) + 1

\* The state at the end of the last block of a chain.
Tip(blocks) ==
    IF blocks = <<>>
    THEN [hash |-> NullHash, next_spid |-> FirstSPID, next_test_spid |-> FirstTestSPID,
          ledger |-> NoEntries]
    ELSE blocks[Len(blocks)]

SPInfoInit ==
    /\ DBInit
    /\ next_spid = FirstSPID
    /\ next_test_spid = FirstTestSPID
    /\ phase = "stopped"
    /\ chain = <<>>
    /\ nBlocks = 0
    /\ idx = 0
    /\ nUpdates = NoEntries
    /\ ledger = NoEntries

\* The node starts.  A wiped database is filled again from the first block.
Start(fWipe) ==
    /\ phase = "stopped"
    /\ CMPSPInfo(fWipe)
    /\ phase' = IF fWipe THEN "idle" ELSE "loading"
    /\ chain' = IF fWipe THEN <<>> ELSE chain
    /\ ledger' = IF fWipe THEN NoEntries ELSE ledger
    /\ UNCHANGED <<nBlocks, idx, nUpdates>>

\* The state saved with the last block is loaded: the next identifiers.
LoadState ==
    /\ phase = "loading"
    /\ init(Tip(chain).next_spid, Tip(chain).next_test_spid)
    /\ phase' = "idle"
    /\ UNCHANGED <<dbVars, chain, nBlocks, idx, nUpdates, ledger>>

\* The node stops between two blocks.
Stop ==
    /\ phase = "idle"
    /\ Close
    /\ phase' = "stopped"
    /\ UNCHANGED <<spVars, chain, nBlocks, idx, nUpdates, ledger>>

\* A new block is connected and its transactions are processed.
BeginBlock ==
    /\ phase = "idle"
    /\ nBlocks < MaxBlocks
    /\ phase' = "block"
    /\ nBlocks' = nBlocks + 1
    /\ idx' = 1
    /\ nUpdates' = NoEntries
    /\ UNCHANGED <<dbVars, spVars, chain, ledger>>

\* The transaction txid of the block creates a property.
CreateProperty(txid) ==
    LET ecosystem == Tx[txid].ecosystem
        created == updateIssuer(Entry, Height, idx, Tx[txid].issuer)
        info == [created EXCEPT !.txid = txid, !.issuer = Tx[txid].issuer,
                                !.unique = Tx[txid].unique,
                                !.prop_type = Tx[txid].prop_type,
                                !.creation_block = nBlocks, !.update_block = nBlocks]
    IN /\ phase = "block"
       /\ idx <= TxPerBlock
       /\ \A propertyId \in DOMAIN ledger : ledger[propertyId].txid # txid
       /\ peekNextSPID(ecosystem) \in PropertyId
       /\ putSP(ecosystem, info)
       /\ ledger' = Put(ledger, peekNextSPID(ecosystem), info)
       /\ idx' = idx + 1
       /\ UNCHANGED <<phase, chain, nBlocks, nUpdates>>

\* A transaction of the block changes a property it has read with getSP.
Update(propertyId, changed) ==
    LET info == [changed EXCEPT !.update_block = nBlocks]
        count == IF propertyId \in DOMAIN nUpdates THEN nUpdates[propertyId] ELSE 0
    IN /\ phase = "block"
       /\ idx <= TxPerBlock
       /\ count < UpdatesPerBlock
       /\ updateSP(propertyId, info)
       /\ ledger' = IF propertyId \in Implied THEN ledger ELSE Put(ledger, propertyId, info)
       /\ nUpdates' = Put(nUpdates, propertyId, count + 1)
       /\ idx' = idx + 1
       /\ UNCHANGED <<phase, chain, nBlocks>>

\* The property gets a new issuer.
ChangeIssuer(propertyId, newIssuer) ==
    LET sp == getSP(store, propertyId)
    IN /\ sp.found
       /\ Update(propertyId, [updateIssuer(sp.info, Height, idx, newIssuer)
                                 EXCEPT !.issuer = newIssuer])

\* The property gets a delegate, or loses the one it has.
ChangeDelegate(propertyId, delegate) ==
    LET sp == getSP(store, propertyId)
    IN /\ sp.found
       /\ Update(propertyId, IF delegate = NoAddress
                             THEN removeDelegate(sp.info, Height, idx)
                             ELSE addDelegate(sp.info, Height, idx, delegate))

\* The block is done: the watermark moves to it.
EndBlock ==
    /\ phase = "block"
    /\ store' = setWatermark(store, nBlocks)
    /\ chain' = Append(chain, [hash |-> nBlocks, next_spid |-> next_spid,
                               next_test_spid |-> next_test_spid, ledger |-> ledger])
    /\ phase' = "idle"
    /\ idx' = 0
    /\ nUpdates' = NoEntries
    /\ UNCHANGED <<pdb, nRead, nWritten, spVars, nBlocks, ledger>>

\* Everything is cleared and the chain is processed again from its start.
Reparse ==
    /\ ClearSP
    /\ chain' = <<>>
    /\ ledger' = NoEntries
    /\ UNCHANGED <<phase, nBlocks, idx, nUpdates>>

\* The last block is disconnected: it is popped, the watermark moves to the
\* block below and the state saved with that block is loaded.  A database
\* that cannot be rolled back is built again.
DisconnectTip ==
    LET popped == popBlock(store, Tip(chain).hash)
        below == SeqExt!Front(chain)
    IN /\ phase = "idle"
       /\ chain # <<>>
       /\ IF popped.remainingSPs < 0
          THEN Reparse
          ELSE /\ store' = setWatermark(popped.entries, Tip(below).hash)
               /\ init(Tip(below).next_spid, Tip(below).next_test_spid)
               /\ chain' = below
               /\ ledger' = Tip(below).ledger
               /\ UNCHANGED <<pdb, nRead, nWritten, phase, nBlocks, idx, nUpdates>>

\* The user asks for a rescan.
Rescan ==
    /\ phase = "idle"
    /\ Reparse

SPInfoNext ==
    \/ \E fWipe \in BOOLEAN : Start(fWipe)
    \/ LoadState
    \/ Stop
    \/ BeginBlock
    \/ \E txid \in Txid : CreateProperty(txid)
    \/ \E propertyId \in PropertyId \cup Implied :
          \/ \E newIssuer \in Address : ChangeIssuer(propertyId, newIssuer)
          \/ \E delegate \in Address \cup {NoAddress} : ChangeDelegate(propertyId, delegate)
    \/ EndBlock
    \/ DisconnectTip
    \/ Rescan

SPInfoSpec == SPInfoInit /\ [][SPInfoNext]_vars

-----------------------------------------------------------------------------
(* Properties                                                              *)

Prefix == {"s", "t", "b", "UE", "DE", "B"}

SPInfoTypeOK ==
    /\ DBTypeOK
    /\ next_spid \in FirstSPID..(FirstSPID + MaxProperties)
    /\ next_test_spid \in FirstTestSPID..(FirstTestSPID + MaxProperties)
    /\ phase \in {"stopped", "loading", "idle", "block"}
    /\ pdb = (phase # "stopped")
    /\ Len(chain) <= nBlocks /\ nBlocks \in 0..MaxBlocks
    /\ idx \in 0..(TxPerBlock + 1)
    /\ DOMAIN ledger \subseteq PropertyId
    /\ \A key \in DOMAIN store : key[1] \in Prefix
    /\ \A key \in WithPrefix(store, "s") \cup WithPrefix(store, "b") :
           DOMAIN store[key] = Serialized
    /\ \A key \in WithPrefix(store, "t") : store[key] \in PropertyId

\* The ecosystem an identifier belongs to.
EcosystemOf(propertyId) ==
    IF propertyId >= FirstTestSPID THEN OMNI_PROPERTY_TMSC ELSE OMNI_PROPERTY_MSC

\* The two indexes putSP writes in one batch and popBlock deletes in one
\* batch agree, whatever was created, updated and rolled back since:
\* findSPByTX of the transaction of a stored property gives that property,
\* and a transaction that findSPByTX knows created the property it names.
TxIndexAgrees ==
    /\ \A propertyId \in PropertyId :
           hasSP(store, propertyId) =>
               findSPByTX(store, getSP(store, propertyId).info.txid) = propertyId
    /\ \A txid \in Txid :
           LET propertyId == findSPByTX(store, txid)
           IN propertyId # 0 => /\ hasSP(store, propertyId)
                                /\ getSP(store, propertyId).info.txid = txid

\* putSP never meets an entry under the identifier it hands out: the
\* properties stored are those below the next identifier of their
\* ecosystem, also after popBlock has deleted properties and init has set
\* the identifiers back.
IdsAreFresh ==
    phase \in {"idle", "block"} =>
        \A propertyId \in PropertyId :
            hasSP(store, propertyId) <=> propertyId < peekNextSPID(EcosystemOf(propertyId))

\* The entries in the database are what the transactions of the connected
\* blocks made them: updateSP keeps the entry it replaces under the key of
\* the block, and popBlock puts it back or deletes what the block created.
RollbackRestoresEntries ==
    \A propertyId \in PropertyId :
        /\ hasSP(store, propertyId) <=> propertyId \in DOMAIN ledger
        /\ propertyId \in DOMAIN ledger =>
               Serialize(getSP(store, propertyId).info) = Serialize(ledger[propertyId])

\* The same of everything getSP returns, with the unique flag and the
\* delegates: popBlock "needs to roll this SP back", and these are kept
\* under keys of their own that popBlock does not touch.
RollbackRestoresProperties ==
    \A propertyId \in DOMAIN ledger :
        getSP(store, propertyId).info = ledger[propertyId]

\* getIssuer(block) answers for every connected block who the issuer was at
\* the end of that block, from the history the entry carries, also after
\* blocks at that height were disconnected and replaced.
IssuerHistoryMatchesChain ==
    \A height \in DOMAIN chain :
        \A propertyId \in DOMAIN chain[height].ledger :
            getIssuer(getSP(store, propertyId).info, height)
                = chain[height].ledger[propertyId].issuer

=============================================================================
