----------------------------- MODULE MCTradeList -----------------------------
(***************************************************************************)
(* The trade database over three blocks, 9 to 11, whose heights print with *)
(* one and with two digits, and three transactions: 1 sells property 1 for *)
(* property 2, 2 and 3 sell property 2 for property 1.  The positions in   *)
(* the block run against the order of the ids.  The two amounts of a match *)
(* differ, so that an amount read for the wrong side is seen.              *)
(***************************************************************************)
EXTENDS TradeList

CONSTANTS a1, a2

MCTxid == 1..3
MCTx ==
    [txid \in MCTxid |->
        [address           |-> IF txid \in {1, 3} THEN a1 ELSE a2,
         propertyIdForSale |-> IF txid = 1 THEN 1 ELSE 2,
         propertyIdDesired |-> IF txid = 1 THEN 2 ELSE 1,
         blockIndex        |-> 4 - txid]]

\* A match gives its maker 5 and its taker 7 after a fee of 1.
MCAmount == {<<5, 7>>}

Spec == TradeListSpec
TypeOK == TradeListTypeOK
=============================================================================
