------------------------------ MODULE MCSPInfo ------------------------------
(***************************************************************************)
(* The smart property database over three blocks of two transactions,     *)
(* with two addresses and one identifier in each ecosystem.  Transaction   *)
(* 11 creates a unique, indivisible property of the main ecosystem, 12 a   *)
(* divisible one that replaces an earlier property, 13 a divisible         *)
(* property of the test ecosystem, whose identifiers begin at 13, which    *)
(* stands for 0x80000003.                                                  *)
(*                                                                         *)
(* While the first two blocks are processed, the calls of MCRequest create *)
(* payloads in every state in which the node answers: each method with     *)
(* the properties 0 (XEP), 1, 3 and 13 and a value its parser rejects, and *)
(* with the amounts "1.5" and "0.5", which are 1 and 0 tokens of an        *)
(* indivisible property.                                                   *)
(***************************************************************************)
EXTENDS RpcPayload

LOCAL SetExt == INSTANCE FiniteSetsExt

MCTxid == {11, 12, 13}

MCTx ==
    [txid \in MCTxid |->
        [issuer |-> IF txid = 12 THEN "a2" ELSE "a1",
         ecosystem |-> IF txid = 13 THEN OMNI_PROPERTY_TMSC ELSE OMNI_PROPERTY_MSC,
         unique |-> txid = 11,
         prop_type |-> CASE txid = 11 -> MSC_PROPERTY_TYPE_INDIVISIBLE
                         [] txid = 12 -> MSC_PROPERTY_TYPE_DIVISIBLE_REPLACING
                         [] OTHER -> MSC_PROPERTY_TYPE_DIVISIBLE]]
MCAddress == {"a1", "a2"}

Text(whole) == [number |-> TRUE, minus |-> FALSE, whole |-> whole, decimals |-> 50000000]

MCAmount == {Text(1), Text(0)}
MCPropertyId == {XEP_PROPERTY_ID, OMNI_PROPERTY_MSC, FirstSPID, FirstTestSPID}
MCPair == {<<1, 3>>, <<3, 1>>, <<3, 13>>, <<13, 2>>, <<3, 3>>, <<3, Bad>>}
MCEcosystem == {OMNI_PROPERTY_MSC, OMNI_PROPERTY_TMSC}
MCType == {MSC_PROPERTY_TYPE_INDIVISIBLE, MSC_PROPERTY_TYPE_DIVISIBLE}

\* The calls of a method with each of a set of parameter lists
Calls(method, params) ==
    SetExt!FoldSet(LAMBDA p, calls :
                       Append(calls, [method |-> "omni_createpayload_" \o method, params |-> p]),
                   <<>>, params)

Issuance(ecosystem, type, name) == <<ecosystem, type, 0, "category", "", name, "", "">>

MCRequest ==
    Calls("simplesend", (MCPropertyId \cup {Bad}) \X MCAmount)
    \o Calls("simplesend", {<<FirstSPID>>})
    \o Calls("simplesend", {<<FirstSPID, [Text(1) EXCEPT !.minus = TRUE]>>,
                            <<FirstSPID, [Text(1) EXCEPT !.number = FALSE]>>})
    \o Calls("sendall", {<<1>>, <<Bad>>})
    \o Calls("sendnonfungible", {<<3, 1, 2>>, <<3, 2, 1>>, <<3, 0, 1>>, <<3, Bad, 1>>})
    \o Calls("setnonfungibledata",
             {<<3, 1, 1, [isNum |-> TRUE, value |-> 1], "data">>,
              <<3, 1, 1, [isNum |-> TRUE, value |-> 0], "data">>})
    \o Calls("setnonfungibledata", {<<3, 1, 1, [isNum |-> FALSE, value |-> Bad], "data">>})
    \o Calls("sendtomany",
             {<<FirstSPID, <<[output |-> 1, amount |-> a], [output |-> 2, amount |-> b]>>>> :
                  a, b \in MCAmount})
    \o Calls("sendtomany", {<<FirstSPID, <<[output |-> Bad, amount |-> Text(1)]>>>>})
    \o Calls("dexsell", {<<FirstSPID, a, b, 10, 1, action>> :
                             a, b \in MCAmount, action \in {1, 3}})
    \o Calls("dexsell", {<<FirstSPID, Text(1), Text(1), 10, 1, Bad>>,
                         <<FirstSPID, Text(1), Text(1), Bad, 1, 2>>})
    \o Calls("dexaccept", {FirstSPID} \X MCAmount)
    \o Calls("sto", {FirstSPID} \X MCAmount)
    \o Calls("sto", {FirstSPID} \X MCAmount \X {FirstTestSPID, Bad})
    \o Calls("issuancefixed",
             {Issuance(1, type, name) \o <<a>> :
                  type \in MCType \cup {Bad}, name \in {"", "name"}, a \in MCAmount})
    \o Calls("issuancecrowdsale",
             {Issuance(ecosystem, type, "") \o <<desired, a, 100, 10, 10>> :
                  ecosystem \in MCEcosystem, type \in MCType,
                  desired \in MCPropertyId, a \in MCAmount})
    \o Calls("issuancecrowdsale", {Issuance(1, 2, "") \o <<Bad, Text(1), 100, 10, 10>>})
    \o Calls("issuancemanaged", {Issuance(1, 2, name) : name \in {"", "name"}})
    \o Calls("closecrowdsale", {<<3>>, <<Bad>>})
    \o Calls("grant", {FirstSPID} \X MCAmount)
    \o Calls("grant", {FirstSPID} \X MCAmount \X {"memo"})
    \o Calls("revoke", {FirstSPID} \X MCAmount)
    \o Calls("revoke", {FirstSPID} \X MCAmount \X {"memo"})
    \o Calls("changeissuer", {<<3>>, <<Bad>>})
    \o Calls("trade", {<<pair[1], a, pair[2], b>> : pair \in MCPair, a, b \in MCAmount})
    \o Calls("canceltradesbyprice", {<<pair[1], Text(1), pair[2], Text(1)>> : pair \in MCPair})
    \o Calls("canceltradesbypair", MCPair)
    \o Calls("cancelalltrades", {<<1>>, <<Bad>>})
    \o Calls("enablefreezing", {<<3>>, <<Bad>>})
    \o Calls("disablefreezing", {<<3>>, <<Bad>>})
    \o Calls("freeze", {"a1", Bad} \X {FirstSPID} \X MCAmount)
    \o Calls("unfreeze", {"a1", Bad} \X {FirstSPID} \X MCAmount)
    \o Calls("adddelegate", {<<3>>, <<Bad>>})
    \o Calls("removedelegate", {<<3>>, <<Bad>>})
    \o Calls("anydata", {<<"00">>, <<Bad>>})

\* The payloads of the calls of MCRequest fit the connected blocks: the
\* amounts are in the units the transactions of the connected blocks gave
\* the properties, and the properties that omni_createpayload_trade,
\* ..._canceltradesbyprice, ..._canceltradesbypair and ..._issuancecrowdsale
\* put together are of one ecosystem of the connected blocks.
PayloadsFitConnectedBlocks == PayloadsFitChain(MCRequest)

Spec == SPInfoSpec
TypeOK == SPInfoTypeOK
=============================================================================
