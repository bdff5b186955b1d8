------------------------------ MODULE TradeList ------------------------------
(***************************************************************************)
(* CMPTradeList of omnicore/dbtradelist.cpp: the database of the trades    *)
(* and matches of the distributed token exchange.                          *)
(*                                                                         *)
(* A key is <<txid>> for a trade and <<txid1, txid2>> for a match (the     *)
(* strings txid and txid1 + "+" + txid2: 64 and 129 characters); the       *)
(* iterator visits the keys in the order of these tuples.  A value is the  *)
(* sequence of the tokens strprintf joins with ":" and boost::split takes  *)
(* apart again: five for a trade, eight for a match.                       *)
(*                                                                         *)
(* The database follows the chain: the blocks FirstBlock .. LastBlock are  *)
(* processed in order, the trades and matches of a block are recorded with *)
(* its height, and a block that is disconnected is rolled back with        *)
(* deleteAboveBlock.  A transaction id determines the transaction: its     *)
(* sender, its properties and its position in the block (Tx).              *)
(***************************************************************************)
EXTENDS DBBase, Integers, Sequences, FiniteSets, TLC

LOCAL SeqExt == INSTANCE SequencesExt

CONSTANTS
    Txid,        \* transaction ids, ordered as their hex strings are
    Tx,          \* txid -> [address, propertyIdForSale, propertyIdDesired, blockIndex]
    Amount,      \* <<amount1, amount2>>: what the two sides of a match get
    Fee,         \* fees a match pays
    FirstBlock,  \* height of the first block with exchange transactions
    LastBlock    \* bound on the height of the chain

VARIABLE nBlockTop  \* height of the last block processed

vars == <<pdb, store, nRead, nWritten, nBlockTop>>

TradeKey == {<<txid>> : txid \in Txid}
MatchKey == Txid \X Txid

TradeListTypeOK ==
    /\ DBTypeOK
    /\ DOMAIN store \subseteq TradeKey \cup MatchKey
    /\ \A key \in DOMAIN store : Len(store[key]) = IF key \in TradeKey THEN 5 ELSE 8
    /\ nBlockTop \in (FirstBlock - 1)..LastBlock

TradeListInit ==
    /\ DBInit
    /\ nBlockTop = FirstBlock - 1

-----------------------------------------------------------------------------
(* The order of the iterator                                               *)

\* Keys compare as strings: by the first txid, then the shorter key first,
\* then by the second txid.
KeyLess(a, b) ==
    \/ a[1] < b[1]
    \/ a[1] = b[1] /\ Len(a) < Len(b)
    \/ a[1] = b[1] /\ Len(a) = 2 /\ Len(b) = 2 /\ a[2] < b[2]

\* it->SeekToFirst(); it->Valid(); it->Next()
Iterate(entries) == InOrder(DOMAIN entries, KeyLess)

-----------------------------------------------------------------------------
(* Mutations                                                               *)

\* A comparison that spares the block itself.
IsStrictlyAbove(block, blockNum) == block > blockNum

\* A comparison that also takes the block below.
IsAboveOrJustBelow(block, blockNum) == block >= blockNum - 1

\* The response of getTradesForPair without the final reversal.
LatestFirst(responses, count) ==
    SubSeq(SortSeq(responses, LAMBDA lhs, rhs : lhs.block > rhs.block), 1,
           IF Len(responses) > count THEN count ELSE Len(responses))

\* The match record of seven tokens, without the fee.
recordMatchedTradeWithoutFee(txid1, txid2, address1, address2, prop1, prop2, amount1, amount2, blockNum, fee) ==
    /\ pdb
    /\ nWritten < MaxCount
    /\ store' = Put(store, <<txid1, txid2>>,
                    <<address1, address2, prop1, prop2, amount1, amount2, blockNum>>)
    /\ nWritten' = nWritten + 1
    /\ UNCHANGED <<pdb, nRead>>

-----------------------------------------------------------------------------
(* Recording                                                               *)

\* CMPTradeList(path, fWipe): a new object, its counters at zero, opens the
\* database.
CMPTradeList(fWipe) ==
    /\ Open(fWipe)
    /\ nRead' = 0
    /\ nWritten' = 0

\* void recordNewTrade(txid, address, propertyIdForSale, propertyIdDesired, blockNum, blockIndex)
recordNewTrade(txid, address, propertyIdForSale, propertyIdDesired, blockNum, blockIndex) ==
    /\ pdb
    /\ nWritten < MaxCount
    /\ store' = Put(store, <<txid>>,
                    <<address, propertyIdForSale, propertyIdDesired, blockNum, blockIndex>>)
    /\ nWritten' = nWritten + 1
    /\ UNCHANGED <<pdb, nRead>>

\* void recordMatchedTrade(txid1, txid2, address1, address2, prop1, prop2, amount1, amount2, blockNum, fee)
recordMatchedTrade(txid1, txid2, address1, address2, prop1, prop2, amount1, amount2, blockNum, fee) ==
    /\ pdb
    /\ nWritten < MaxCount
    /\ store' = Put(store, <<txid1, txid2>>,
                    <<address1, address2, prop1, prop2, amount1, amount2, blockNum, fee>>)
    /\ nWritten' = nWritten + 1
    /\ UNCHANGED <<pdb, nRead>>

-----------------------------------------------------------------------------
(* Rolling back                                                            *)

\* The block deleteAboveBlock takes a record to be of: its seventh token of
\* seven, its fourth of five, and for any other record what the variable
\* `block` holds from the records before it.
BlockRead(vstr, block) ==
    IF Len(vstr) = 5 THEN vstr[4]
    ELSE IF Len(vstr) = 7 THEN vstr[7]
    ELSE block

\* if (block >= blockNum)
IsAbove(block, blockNum) == block >= blockNum

\* The keys the loop of deleteAboveBlock deletes, with `block` starting at 0.
FoundAbove(entries, blockNum) ==
    LET Visit(scan, key) ==
            LET block == BlockRead(entries[key], scan.block)
            IN [block |-> block,
                found |-> scan.found \cup (IF IsAbove(block, blockNum) THEN {key} ELSE {})]
    IN SeqExt!FoldLeft(Visit, [block |-> 0, found |-> {}], Iterate(entries)).found

\* int deleteAboveBlock(blockNum); returns n_found
deleteAboveBlock(blockNum) ==
    /\ pdb
    /\ store' = Erase(store, FoundAbove(store, blockNum))
    /\ UNCHANGED <<pdb, nRead, nWritten>>

n_found(entries, blockNum) == Cardinality(FoundAbove(entries, blockNum))

-----------------------------------------------------------------------------
(* Queries                                                                 *)

\* The decimal digits of n, as %d prints them.
RECURSIVE Decimal(_)
Decimal(n) == IF n < 10 THEN <<n>> ELSE Append(Decimal(n \div 10), n % 10)

\* Mutation: a number printed without its zero padding.
Unpadded(n, width) == Decimal(n)

\* %0<width>d: at least width digits
ZeroPadded(n, width) ==
    LET digits == Decimal(n)
    IN [i \in 1..(width - Len(digits)) |-> 0] \o digits

\* strprintf("%06d%010d", blockNum, txIndex)
SortKey(blockNum, txIndex) == ZeroPadded(blockNum, 6) \o ZeroPadded(txIndex, 10)

\* The order of std::map<std::string, ...>: strings compare character by
\* character, a proper prefix before the longer string.
StringLess(a, b) ==
    \/ SeqExt!IsStrictPrefix(a, b)
    \/ \E i \in DOMAIN a \cap DOMAIN b :
          a[i] < b[i] /\ SubSeq(a, 1, i - 1) = SubSeq(b, 1, i - 1)

\* The trades getTradesForAddress keeps: keys of 64 characters whose value
\* holds the address and five tokens, of the property asked for if any.
IsTradeOf(entries, key, address, propertyIdFilter) ==
    LET vecValues == entries[key]
    IN /\ Len(key) = 1
       /\ \E i \in DOMAIN vecValues : vecValues[i] = address
       /\ Len(vecValues) = 5
       /\ propertyIdFilter # 0 => propertyIdFilter \in {vecValues[2], vecValues[3]}

\* void getTradesForAddress(address, vecTransactions, propertyIdFilter):
\* mapTrades takes the first trade of each sort key, vecTransactions is
\* mapTrades in the order of its keys.
getTradesForAddress(entries, address, propertyIdFilter) ==
    LET trades == SelectSeq(Iterate(entries),
                            LAMBDA key : IsTradeOf(entries, key, address, propertyIdFilter))
        Insert(mapTrades, key) ==
            LET sortKey == SortKey(entries[key][4], entries[key][5])
            IN IF sortKey \in DOMAIN mapTrades THEN mapTrades
               ELSE Put(mapTrades, sortKey, key[1])
        mapTrades == SeqExt!FoldLeft(Insert, NoEntries, trades)
        order == InOrder(DOMAIN mapTrades, StringLess)
    IN [i \in DOMAIN order |-> mapTrades[order[i]]]

\* One entry of the response of getTradesForPair: the seller is the side
\* that sold propertyIdSideA.
PairResponse(key, vecValues, propertyIdSideA) ==
    LET first == vecValues[3] = propertyIdSideA
    IN [block           |-> vecValues[7],
        sellertxid      |-> IF first THEN key[2] ELSE key[1],
        selleraddress   |-> IF first THEN vecValues[2] ELSE vecValues[1],
        amountsold      |-> IF first THEN vecValues[5] ELSE vecValues[6],
        matchingtxid    |-> IF first THEN key[1] ELSE key[2],
        matchingaddress |-> IF first THEN vecValues[1] ELSE vecValues[2],
        amountreceived  |-> IF first THEN vecValues[6] ELSE vecValues[5]]

\* The matches getTradesForPair keeps: keys of 129 characters with eight
\* tokens, of the two properties in either order.
IsMatchOfPair(entries, key, propertyIdSideA, propertyIdSideB) ==
    /\ Len(key) = 2
    /\ Len(entries[key]) = 8
    /\ <<entries[key][3], entries[key][4]>> \in
           {<<propertyIdSideA, propertyIdSideB>>, <<propertyIdSideB, propertyIdSideA>>}

\* std::sort by block, latest first; resize(count); reverse_iterate
LatestLast(responses, count) == SeqExt!Reverse(LatestFirst(responses, count))

\* void getTradesForPair(propertyIdSideA, propertyIdSideB, responseArray, count)
getTradesForPair(entries, propertyIdSideA, propertyIdSideB, count) ==
    LET matches == SelectSeq(Iterate(entries),
                             LAMBDA key : IsMatchOfPair(entries, key, propertyIdSideA, propertyIdSideB))
        vecResponse == [i \in DOMAIN matches |->
                           PairResponse(matches[i], entries[matches[i]], propertyIdSideA)]
    IN IF count = 0 THEN <<>> ELSE LatestLast(vecResponse, count)

\* The trade object of a match, for the side that sold the property of
\* amount1 (first) or of amount2: the address is the other side's, and the
\* side that sold the property of amount2 paid no fee and sold the fee too.
TradeObject(first, matchTxid, vstr) ==
    [txid           |-> matchTxid,
     block          |-> vstr[7],
     address        |-> IF first THEN vstr[1] ELSE vstr[2],
     amountsold     |-> IF first THEN vstr[5] ELSE vstr[6] + vstr[8],
     amountreceived |-> IF first THEN vstr[6] ELSE vstr[5],
     tradingfee     |-> IF first THEN vstr[8] ELSE 0,
     sold           |-> IF first THEN vstr[5] ELSE vstr[6],
     received       |-> IF first THEN vstr[6] ELSE vstr[5]]

\* Mutation: the orientation taken from the second property of the record.
MatchResponseBySecondProperty(matchTxid, vstr, propertyId) ==
    TradeObject(vstr[4] = propertyId, matchTxid, vstr)

\* One entry of the response of getMatchingTrades, "correcting for
\* orientation of trade": if (prop1 == propertyId)
MatchResponse(matchTxid, vstr, propertyId) ==
    TradeObject(vstr[3] = propertyId, matchTxid, vstr)

\* bool getMatchingTrades(txid, propertyId, tradeArray, totalSold, totalReceived)
getMatchingTrades(entries, txid, propertyId) ==
    LET matches == SelectSeq(Iterate(entries),
                             LAMBDA key : /\ txid \in {key[i] : i \in DOMAIN key}
                                          /\ Len(key) = 2
                                          /\ Len(entries[key]) = 8)
        tradeArray == [i \in DOMAIN matches |->
                          MatchResponse(IF matches[i][1] = txid THEN matches[i][2] ELSE matches[i][1],
                                        entries[matches[i]], propertyId)]
        Total(field) == SeqExt!FoldLeft(LAMBDA sum, trade : sum + trade[field], 0, tradeArray)
    IN [tradeArray |-> tradeArray, totalSold |-> Total("sold"),
        totalReceived |-> Total("received"), found |-> tradeArray # <<>>]

\* int getMPTradeCountTotal()
getMPTradeCountTotal(entries) == Len(Iterate(entries))

-----------------------------------------------------------------------------
(* The database following the chain                                        *)

\* The next block is processed.
ConnectBlock ==
    /\ pdb
    /\ nBlockTop < LastBlock
    /\ nBlockTop' = nBlockTop + 1
    /\ UNCHANGED dbVars

\* The trade txid is in the block being processed.
NewTrade(txid) ==
    /\ nBlockTop >= FirstBlock
    /\ <<txid>> \notin DOMAIN store
    /\ recordNewTrade(txid, Tx[txid].address, Tx[txid].propertyIdForSale,
                      Tx[txid].propertyIdDesired, nBlockTop, Tx[txid].blockIndex)
    /\ UNCHANGED nBlockTop

\* The new trade pnew of the block being processed is matched with the
\* trade pold of the order book: each of them gets the property it desires.
MatchedTrade(pold, pnew, amount1, amount2, fee) ==
    /\ {<<pold>>, <<pnew>>} \subseteq DOMAIN store
    /\ <<pold, pnew>> \notin DOMAIN store
    /\ store[<<pnew>>][4] = nBlockTop
    /\ Tx[pold].propertyIdDesired = Tx[pnew].propertyIdForSale
    /\ Tx[pnew].propertyIdDesired = Tx[pold].propertyIdForSale
    /\ recordMatchedTrade(pold, pnew, Tx[pold].address, Tx[pnew].address,
                          Tx[pold].propertyIdDesired, Tx[pnew].propertyIdDesired,
                          amount1, amount2, nBlockTop, fee)
    /\ UNCHANGED nBlockTop

\* The blocks from blockNum on are disconnected.
DisconnectBlock(blockNum) ==
    /\ blockNum \in FirstBlock..nBlockTop
    /\ deleteAboveBlock(blockNum)
    /\ nBlockTop' = blockNum - 1

\* The database is cleared and the chain is scanned again.
Rescan ==
    /\ Clear
    /\ nBlockTop' = FirstBlock - 1

\* The node starts: a wiped database is filled again from the first block.
Start(fWipe) ==
    /\ ~pdb
    /\ CMPTradeList(fWipe)
    /\ nBlockTop' = IF fWipe THEN FirstBlock - 1 ELSE nBlockTop

\* The node stops.
Stop ==
    /\ Close
    /\ UNCHANGED nBlockTop

TradeListNext ==
    \/ \E fWipe \in BOOLEAN : Start(fWipe)
    \/ ConnectBlock
    \/ \E txid \in Txid : NewTrade(txid)
    \/ \E pold, pnew \in Txid, amounts \in Amount, fee \in Fee :
          MatchedTrade(pold, pnew, amounts[1], amounts[2], fee)
    \/ \E blockNum \in FirstBlock..LastBlock : DisconnectBlock(blockNum)
    \/ Rescan
    \/ Stop

TradeListSpec == TradeListInit /\ [][TradeListNext]_vars

-----------------------------------------------------------------------------
(* Properties                                                              *)

Trades(entries)  == {key \in DOMAIN entries : Len(entries[key]) = 5}
Matches(entries) == {key \in DOMAIN entries : Len(entries[key]) = 8}

\* The block a record was written for.
BlockOf(vstr) == IF Len(vstr) = 5 THEN vstr[4] ELSE vstr[7]

\* The database holds no trade of a block that was disconnected: rolling
\* back with deleteAboveBlock(blockNum) removes every trade recorded for
\* blockNum or a later block.
NoTradeAboveTip ==
    \A key \in Trades(store) : BlockOf(store[key]) <= nBlockTop

\* The same of every record, which is what the comment on deleteAboveBlock
\* promises ("deletes records of trades above/equal to a specific block").
\* Matches have eight tokens and deleteAboveBlock reads the block of seven:
\* a match is deleted or kept by the block of the record before it.
NoRecordAboveTip ==
    \A key \in DOMAIN store : BlockOf(store[key]) <= nBlockTop

\* No step deletes a record of a block that is still connected.
\* deleteAboveBlock decides on a match by the block of the last trade the
\* iterator visited before it, the trade of the maker txid1, which is never
\* of a later block than the match: so deleteAboveBlock(blockNum) spares
\* every record below blockNum.
RollbackKeepsEarlierRecords ==
    [][\A key \in DOMAIN store \ DOMAIN store' : BlockOf(store[key]) > nBlockTop']_vars

\* The order of two trades by block, then by position in the block.
Earlier(a, b) == a[4] < b[4] \/ (a[4] = b[4] /\ a[5] <= b[5])

\* getTradesForAddress returns every trade of the address with the property
\* asked for, once, "sorted by block then index": the text order of the
\* sort keys is the order of the numbers.
TradesForAddressSorted ==
    \A address \in {Tx[txid].address : txid \in Txid},
       propertyIdFilter \in {0} \cup {Tx[txid].propertyIdForSale : txid \in Txid} :
        LET vecTransactions == getTradesForAddress(store, address, propertyIdFilter)
        IN /\ {<<txid>> : txid \in SeqExt!ToSet(vecTransactions)} =
                  {key \in DOMAIN store : IsTradeOf(store, key, address, propertyIdFilter)}
           /\ \A i, j \in DOMAIN vecTransactions :
                  i < j => /\ vecTransactions[i] # vecTransactions[j]
                           /\ Earlier(store[<<vecTransactions[i]>>], store[<<vecTransactions[j]>>])

\* getTradesForPair returns the count latest matches of the pair, the latest
\* last: as many as asked for if there are that many, in ascending order of
\* block, and no match left out is of a later block than one returned.
TradesForPairAreLatest ==
    \A propertyIdSideA, propertyIdSideB \in {Tx[txid].propertyIdForSale : txid \in Txid},
       count \in 0..3 :
        LET responseArray == getTradesForPair(store, propertyIdSideA, propertyIdSideB, count)
            ofPair == {key \in DOMAIN store :
                          IsMatchOfPair(store, key, propertyIdSideA, propertyIdSideB)}
            returned == {<<r.matchingtxid, r.sellertxid>> : r \in SeqExt!ToSet(responseArray)}
                            \cup {<<r.sellertxid, r.matchingtxid>> : r \in SeqExt!ToSet(responseArray)}
        IN /\ Len(responseArray) = IF Cardinality(ofPair) < count THEN Cardinality(ofPair) ELSE count
           /\ \A i, j \in DOMAIN responseArray :
                  i < j => responseArray[i].block <= responseArray[j].block
           /\ \A key \in ofPair \ returned, r \in SeqExt!ToSet(responseArray) :
                  BlockOf(store[key]) <= r.block

\* The trades getMatchingTrades reports for txid and its property that are
\* matches with matchTxid.
TradesWith(txid, propertyId, matchTxid) ==
    {trade \in SeqExt!ToSet(getMatchingTrades(store, txid, propertyId).tradeArray) :
        trade.txid = matchTxid}

\* getTradesForPair and getMatchingTrades read a match record each in its
\* own way, and turn it to the side that asks: they agree on every match in
\* the database.  A match getTradesForPair reports for a pair is reported by
\* getMatchingTrades to its seller and to the other side, with the same
\* block, each with the address of the other; the seller received what
\* getTradesForPair says, and what one side sold is what the other received
\* and paid as fee.  getTradesForPair leaves the fee out of the amount
\* sold, and so do the totals of getMatchingTrades, which are the sums of
\* what getTradesForPair reports for the trade.
QueriesAgreeOnMatches ==
    \A seller \in Txid :
        LET sideA == Tx[seller].propertyIdForSale
            sideB == Tx[seller].propertyIdDesired
            matching == getMatchingTrades(store, seller, sideA)
            ofSeller == SelectSeq(getTradesForPair(store, sideA, sideB, getMPTradeCountTotal(store)),
                                  LAMBDA r : r.sellertxid = seller)
            Total(field) == SeqExt!FoldLeft(LAMBDA sum, r : sum + r[field], 0, ofSeller)
        IN /\ Len(matching.tradeArray) = Len(ofSeller)
           /\ matching.totalSold = Total("amountsold")
           /\ matching.totalReceived = Total("amountreceived")
           /\ \A r \in SeqExt!ToSet(ofSeller) :
                  \E sold \in TradesWith(seller, sideA, r.matchingtxid),
                     bought \in TradesWith(r.matchingtxid, sideB, seller) :
                      /\ sold.block = r.block /\ bought.block = r.block
                      /\ sold.address = r.matchingaddress
                      /\ bought.address = r.selleraddress
                      /\ sold.amountreceived = r.amountreceived
                      /\ sold.amountsold = r.amountsold + bought.tradingfee
                      /\ bought.amountsold = sold.amountreceived + sold.tradingfee
                      /\ bought.amountreceived + bought.tradingfee = sold.amountsold

=============================================================================
