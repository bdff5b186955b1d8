----------------------------- MODULE RpcPayload -----------------------------
(***************************************************************************)
(* The RPCs of omnicore/rpcpayload.cpp, which create the payload of an     *)
(* Omni transaction without sending it.                                    *)
(*                                                                         *)
(* A call is a record [method, params]; params is the sequence of JSON     *)
(* values, params[1] being request.params[0].  A number, an address or a   *)
(* hex text is the value itself, or Bad when its parser does not take it;  *)
(* an amount is the text of a number, as StrToInt64 sees it; a name is a   *)
(* string.  A payload is the record of what CreatePayload_... was given,   *)
(* under the names the command table gives the arguments; its bytes and    *)
(* their hex text are not modelled.                                        *)
(*                                                                         *)
(* A handler changes nothing: it reads the database of the smart           *)
(* properties, for the unit of an amount and for the property a crowdsale  *)
(* desires, and answers with the payload or with the error of the first    *)
(* step that throws.  Every read of one call sees the same database here.  *)
(***************************************************************************)
EXTENDS SPInfo

LOCAL SeqExt == INSTANCE SequencesExt

CONSTANTS
    Bad,              \* a JSON value that its parser rejects
    MaxCallBlocks     \* bound on the blocks processed while calls are made

XEP_PROPERTY_ID == 0
TEST_ECO_PROPERTY_1 == FirstTestSPID

\* 1 divisible unit is 100000000 indivisible ones
COIN == 100000000

\* CMPTransaction::UPDATE; NEW is 1 and CANCEL is 3
UPDATE == 2

-----------------------------------------------------------------------------
(* Amounts                                                                 *)

\* The text of an amount: not a number at all, or the digits before the
\* decimal mark and the first eight decimal places, with or without a
\* minus sign.
AmountText == [number : BOOLEAN, minus : BOOLEAN, whole : Nat, decimals : 0..(COIN - 1)]

\* int64_t StrToInt64(str, divisible): 0 for what is not an accepted number
\* and for any minus sign; divisible amounts in units of 0.00000001, cut
\* after 8 decimal places; indivisible amounts without what follows the
\* decimal mark.
StrToInt64(str, divisible) ==
    CASE ~str.number \/ str.minus -> 0
      [] divisible -> str.whole * COIN + str.decimals
      [] OTHER -> str.whole

\* bool isPropertyDivisible(propertyId): "if the server is not
\* synchronized, amounts are considered as divisible"
isPropertyDivisible(entries, propertyId) ==
    LET sp == getSP(entries, propertyId)
    IN sp.found => isDivisible(sp.info)

-----------------------------------------------------------------------------
(* The steps of a call                                                     *)

NoPayload == [type |-> "none"]

Step(name, passes) == [name |-> name, passes |-> passes]

\* Parse...(value) of rpcvalues.h: the value, or an exception
Parse(name, value) == Step(name, value # Bad)

\* ParseAmount(value, divisible): "actions 3 permit zero values, skip check"
ParseAmount(value, divisible) == Step("ParseAmount", StrToInt64(value, divisible) >= 1)

\* ParseAmount(value, propertyType), which the integer types select
ParseAmountOfType(value, type) ==
    ParseAmount(value, type = MSC_PROPERTY_TYPE_DIVISIBLE)

isTestEcosystemProperty(propertyId) ==
    propertyId = OMNI_PROPERTY_TMSC \/ propertyId >= TEST_ECO_PROPERTY_1

\* RequireExistingProperty(propertyId): an identifier that was handed out
RequireExistingProperty(propertyId) ==
    Step("RequireExistingProperty",
         /\ propertyId # XEP_PROPERTY_ID
         /\ propertyId < peekNextSPID(IF propertyId < TEST_ECO_PROPERTY_1
                                      THEN OMNI_PROPERTY_MSC ELSE OMNI_PROPERTY_TMSC))

RequireSameEcosystem(propertyId, otherId) ==
    Step("RequireSameEcosystem",
         isTestEcosystemProperty(propertyId) = isTestEcosystemProperty(otherId))

RequireDifferentIds(propertyId, otherId) ==
    Step("RequireDifferentIds", propertyId # otherId)

RequirePropertyName(name) == Step("RequirePropertyName", name # "")

RequireSaneNonFungibleRange(tokenStart, tokenEnd) ==
    Step("RequireSaneNonFungibleRange", 1 <= tokenStart /\ tokenStart <= tokenEnd)

\* The name of the first step of steps that throws, "" when none does.
FirstThrown(steps) ==
    LET thrown == SelectSeq(steps, LAMBDA step : ~step.passes)
    IN IF thrown = <<>> THEN "" ELSE Head(thrown).name

\* A handler: RPCHelpMan{...}.Check(request) throws the help text for a
\* number of parameters the help does not describe; the values are parsed
\* in the order of the handler, then the requirements are checked, and
\* the payload is returned as text.
Handle(request, arity, parses, requires, payload) ==
    LET Thrown(error) == [error |-> error, payload |-> NoPayload]
        parsing == FirstThrown(parses)
        requiring == FirstThrown(requires)
    IN CASE Len(request.params) \notin arity -> Thrown("Check")
         [] parsing # "" -> Thrown(parsing)
         [] requiring # "" -> Thrown(requiring)
         [] OTHER -> [error |-> "", payload |-> payload]

-----------------------------------------------------------------------------
(* The handlers                                                            *)

omni_createpayload_simplesend(request) ==
    LET p == request.params
        divisible == isPropertyDivisible(store, p[1])
    IN Handle(request, {2},
              <<Parse("ParsePropertyId", p[1]), ParseAmount(p[2], divisible)>>, <<>>,
              [type |-> "SimpleSend", propertyid |-> p[1],
               amount |-> StrToInt64(p[2], divisible)])

omni_createpayload_sendall(request) ==
    LET p == request.params
    IN Handle(request, {1}, <<Parse("ParseEcosystem", p[1])>>, <<>>,
              [type |-> "SendAll", ecosystem |-> p[1]])

omni_createpayload_sendnonfungible(request) ==
    LET p == request.params
    IN Handle(request, {3},
              <<Parse("ParsePropertyId", p[1]), Parse("get_int64", p[2]),
                Parse("get_int64", p[3])>>,
              <<RequireSaneNonFungibleRange(p[2], p[3])>>,
              [type |-> "SendNonFungible", propertyid |-> p[1],
               tokenstart |-> p[2], tokenend |-> p[3]])

\* The issuer is a number that is not 0, or a boolean.
omni_createpayload_setnonfungibledata(request) ==
    LET p == request.params
        issuer == IF p[4].isNum THEN p[4].value # 0 ELSE p[4].value
    IN Handle(request, {5},
              <<Parse("ParsePropertyId", p[1]), Parse("get_int64", p[2]),
                Parse("get_int64", p[3]), Parse("get_bool", p[4].value)>>,
              <<RequireSaneNonFungibleRange(p[2], p[3])>>,
              [type |-> "SetNonFungibleData", propertyid |-> p[1], tokenstart |-> p[2],
               tokenend |-> p[3], issuer |-> issuer, data |-> p[5]])

\* The loop over the mapping asks isPropertyDivisible for every output.
omni_createpayload_sendtomany(request) ==
    LET p == request.params
        divisible == isPropertyDivisible(store, p[1])
        Parses(input) == <<Parse("ParseStmOutputIndex", input.output),
                           ParseAmount(input.amount, divisible)>>
    IN Handle(request, {2},
              <<Parse("ParsePropertyId", p[1])>>
                  \o SeqExt!FlattenSeq([i \in DOMAIN p[2] |-> Parses(p[2][i])]),
              <<>>,
              [type |-> "SendToMany", propertyid |-> p[1],
               mapping |-> [i \in DOMAIN p[2] |->
                               [output |-> p[2][i].output,
                                amount |-> StrToInt64(p[2][i].amount, divisible)]]])

\* What is for sale and what is desired is parsed for the actions up to
\* UPDATE and 0 for a cancel; the amount desired is of XEP, which is
\* divisible.
omni_createpayload_dexsell(request) ==
    LET p == request.params
        divisible == isPropertyDivisible(store, p[1])
        offer == p[6] # Bad /\ p[6] <= UPDATE
    IN Handle(request, {6},
              <<Parse("ParsePropertyId", p[1]), Parse("ParseDExAction", p[6])>>
                  \o IF offer
                     THEN <<ParseAmount(p[2], divisible), ParseAmount(p[3], TRUE),
                            Parse("ParseDExPaymentWindow", p[4]), Parse("ParseDExFee", p[5])>>
                     ELSE <<>>,
              <<>>,
              [type |-> "DExSell", propertyidforsale |-> p[1],
               amountforsale |-> IF offer THEN StrToInt64(p[2], divisible) ELSE 0,
               amountdesired |-> IF offer THEN StrToInt64(p[3], TRUE) ELSE 0,
               paymentwindow |-> IF offer THEN p[4] ELSE 0,
               minacceptfee |-> IF offer THEN p[5] ELSE 0,
               action |-> p[6]])

omni_createpayload_dexaccept(request) ==
    LET p == request.params
        divisible == isPropertyDivisible(store, p[1])
    IN Handle(request, {2},
              <<Parse("ParsePropertyId", p[1]), ParseAmount(p[2], divisible)>>, <<>>,
              [type |-> "DExAccept", propertyid |-> p[1],
               amount |-> StrToInt64(p[2], divisible)])

\* Without a third parameter the owners of the property itself receive.
omni_createpayload_sto(request) ==
    LET p == request.params
        divisible == isPropertyDivisible(store, p[1])
        distribution == IF Len(p) > 2 THEN p[3] ELSE p[1]
    IN Handle(request, 2..3,
              <<Parse("ParsePropertyId", p[1]), ParseAmount(p[2], divisible),
                Parse("ParsePropertyId", distribution)>>, <<>>,
              [type |-> "SendToOwners", propertyid |-> p[1],
               amount |-> StrToInt64(p[2], divisible),
               distributionproperty |-> distribution])

\* The text parameters of an issuance, which ParseText takes as they are.
Texts(p) ==
    [category |-> p[4], subcategory |-> p[5], name |-> p[6], url |-> p[7], data |-> p[8]]

ParseIssuance(p, typeParser) ==
    <<Parse("ParseEcosystem", p[1]), Parse(typeParser, p[2]),
      Parse("ParsePreviousPropertyId", p[3])>>

omni_createpayload_issuancefixed(request) ==
    LET p == request.params
    IN Handle(request, {9},
              ParseIssuance(p, "ParsePropertyType") \o <<ParseAmountOfType(p[9], p[2])>>,
              <<RequirePropertyName(p[6])>>,
              [type |-> "IssuanceFixed", ecosystem |-> p[1], propertytype |-> p[2],
               previousid |-> p[3], texts |-> Texts(p),
               amount |-> StrToInt64(p[9], p[2] = MSC_PROPERTY_TYPE_DIVISIBLE)])

\* The name is not required; a property desired that is not XEP must
\* exist, in the ecosystem of the new property.
omni_createpayload_issuancecrowdsale(request) ==
    LET p == request.params
    IN Handle(request, {13},
              ParseIssuance(p, "ParsePropertyType")
                  \o <<Parse("ParsePropertyId", p[9]), ParseAmountOfType(p[10], p[2]),
                       Parse("ParseDeadline", p[11]), Parse("ParseEarlyBirdBonus", p[12]),
                       Parse("ParseIssuerBonus", p[13])>>,
              IF p[9] # XEP_PROPERTY_ID
              THEN <<RequireExistingProperty(p[9]), RequireSameEcosystem(p[1], p[9])>>
              ELSE <<>>,
              [type |-> "IssuanceVariable", ecosystem |-> p[1], propertytype |-> p[2],
               previousid |-> p[3], texts |-> Texts(p), propertyiddesired |-> p[9],
               tokensperunit |-> StrToInt64(p[10], p[2] = MSC_PROPERTY_TYPE_DIVISIBLE),
               deadline |-> p[11], earlybonus |-> p[12], issuerpercentage |-> p[13]])

omni_createpayload_issuancemanaged(request) ==
    LET p == request.params
    IN Handle(request, {8}, ParseIssuance(p, "ParseManagedPropertyType"),
              <<RequirePropertyName(p[6])>>,
              [type |-> "IssuanceManaged", ecosystem |-> p[1], propertytype |-> p[2],
               previousid |-> p[3], texts |-> Texts(p)])

\* A handler of one property and nothing else.
OfProperty(request, type) ==
    Handle(request, {1}, <<Parse("ParsePropertyId", request.params[1])>>, <<>>,
           [type |-> type, propertyid |-> request.params[1]])

omni_createpayload_closecrowdsale(request) == OfProperty(request, "CloseCrowdsale")

\* A grant or a revocation, with the text that may follow the amount.
OfManaged(request, type) ==
    LET p == request.params
        divisible == isPropertyDivisible(store, p[1])
    IN Handle(request, 2..3,
              <<Parse("ParsePropertyId", p[1]), ParseAmount(p[2], divisible)>>, <<>>,
              [type |-> type, propertyid |-> p[1], amount |-> StrToInt64(p[2], divisible),
               memo |-> IF Len(p) > 2 THEN p[3] ELSE ""])

omni_createpayload_grant(request) == OfManaged(request, "Grant")

omni_createpayload_revoke(request) == OfManaged(request, "Revoke")

omni_createpayload_changeissuer(request) == OfProperty(request, "ChangeIssuer")

\* Mutation: the amount desired is parsed in the unit of what is for sale.
OfPairInOneUnit(request, type) ==
    LET p == request.params
        forSale == isPropertyDivisible(store, p[1])
    IN Handle(request, {4},
              <<Parse("ParsePropertyId", p[1]), ParseAmount(p[2], forSale),
                Parse("ParsePropertyId", p[3]), ParseAmount(p[4], forSale)>>,
              <<RequireSameEcosystem(p[1], p[3]), RequireDifferentIds(p[1], p[3])>>,
              [type |-> type, propertyidforsale |-> p[1],
               amountforsale |-> StrToInt64(p[2], forSale), propertiddesired |-> p[3],
               amountdesired |-> StrToInt64(p[4], forSale)])

\* An offer of the distributed exchange, or the cancellation of the offers
\* at its price: two properties of one ecosystem, each amount in the unit
\* of its property.
OfPair(request, type) ==
    LET p == request.params
        forSale == isPropertyDivisible(store, p[1])
        desired == isPropertyDivisible(store, p[3])
    IN Handle(request, {4},
              <<Parse("ParsePropertyId", p[1]), ParseAmount(p[2], forSale),
                Parse("ParsePropertyId", p[3]), ParseAmount(p[4], desired)>>,
              <<RequireSameEcosystem(p[1], p[3]), RequireDifferentIds(p[1], p[3])>>,
              [type |-> type, propertyidforsale |-> p[1],
               amountforsale |-> StrToInt64(p[2], forSale), propertiddesired |-> p[3],
               amountdesired |-> StrToInt64(p[4], desired)])

\* RequireDifferentIds is called twice.
omni_createpayload_trade(request) == OfPair(request, "MetaDExTrade")

omni_createpayload_canceltradesbyprice(request) == OfPair(request, "MetaDExCancelPrice")

omni_createpayload_canceltradesbypair(request) ==
    LET p == request.params
    IN Handle(request, {2},
              <<Parse("ParsePropertyId", p[1]), Parse("ParsePropertyId", p[2])>>,
              <<RequireSameEcosystem(p[1], p[2]), RequireDifferentIds(p[1], p[2])>>,
              [type |-> "MetaDExCancelPair", propertyidforsale |-> p[1],
               propertiddesired |-> p[2]])

omni_createpayload_cancelalltrades(request) ==
    LET p == request.params
    IN Handle(request, {1}, <<Parse("ParseEcosystem", p[1])>>, <<>>,
              [type |-> "MetaDExCancelEcosystem", ecosystem |-> p[1]])

omni_createpayload_enablefreezing(request) == OfProperty(request, "EnableFreezing")

omni_createpayload_disablefreezing(request) == OfProperty(request, "DisableFreezing")

\* Tokens of an address are frozen, or no longer.
OfAddress(request, type) ==
    LET p == request.params
        divisible == isPropertyDivisible(store, p[2])
    IN Handle(request, {3},
              <<Parse("ParseAddress", p[1]), Parse("ParsePropertyId", p[2]),
                ParseAmount(p[3], divisible)>>, <<>>,
              [type |-> type, toaddress |-> p[1], propertyid |-> p[2],
               amount |-> StrToInt64(p[3], divisible)])

omni_createpayload_freeze(request) == OfAddress(request, "FreezeTokens")

omni_createpayload_unfreeze(request) == OfAddress(request, "UnfreezeTokens")

omni_createpayload_adddelegate(request) == OfProperty(request, "AddDelegate")

omni_createpayload_removedelegate(request) == OfProperty(request, "RemoveDelegate")

omni_createpayload_anydata(request) ==
    LET p == request.params
    IN Handle(request, {1}, <<Parse("ParseHexV", p[1])>>, <<>>,
              [type |-> "AnyData", data |-> p[1]])

-----------------------------------------------------------------------------
(* The command table                                                       *)

\* static const CRPCCommand commands[]: the names of the arguments
commands ==
    [omni_createpayload_simplesend |->
         <<"propertyid", "amount">>,
     omni_createpayload_sendall |->
         <<"ecosystem">>,
     omni_createpayload_sendtomany |->
         <<"propertyid", "mapping">>,
     omni_createpayload_dexsell |->
         <<"propertyidforsale", "amountforsale", "amountdesired", "paymentwindow", "minacceptfee", "action">>,
     omni_createpayload_dexaccept |->
         <<"propertyid", "amount">>,
     omni_createpayload_sto |->
         <<"propertyid", "amount", "distributionproperty">>,
     omni_createpayload_grant |->
         <<"propertyid", "amount", "memo">>,
     omni_createpayload_revoke |->
         <<"propertyid", "amount", "memo">>,
     omni_createpayload_changeissuer |->
         <<"propertyid">>,
     omni_createpayload_trade |->
         <<"propertyidforsale", "amountforsale", "propertiddesired", "amountdesired">>,
     omni_createpayload_issuancefixed |->
         <<"ecosystem", "type", "previousid", "category", "subcategory", "name", "url", "data", "amount">>,
     omni_createpayload_issuancecrowdsale |->
         <<"ecosystem", "type", "previousid", "category", "subcategory", "name", "url", "data", "propertyiddesired", "tokensperunit", "deadline", "earlybonus", "issuerpercentage">>,
     omni_createpayload_issuancemanaged |->
         <<"ecosystem", "type", "previousid", "category", "subcategory", "name", "url", "data">>,
     omni_createpayload_closecrowdsale |->
         <<"propertyid">>,
     omni_createpayload_canceltradesbyprice |->
         <<"propertyidforsale", "amountforsale", "propertiddesired", "amountdesired">>,
     omni_createpayload_canceltradesbypair |->
         <<"propertyidforsale", "propertiddesired">>,
     omni_createpayload_cancelalltrades |->
         <<"ecosystem">>,
     omni_createpayload_enablefreezing |->
         <<"propertyid">>,
     omni_createpayload_disablefreezing |->
         <<"propertyid">>,
     omni_createpayload_freeze |->
         <<"toaddress", "propertyid", "amount">>,
     omni_createpayload_unfreeze |->
         <<"toaddress", "propertyid", "amount">>,
     omni_createpayload_adddelegate |->
         <<"propertyid">>,
     omni_createpayload_removedelegate |->
         <<"propertyid">>,
     omni_createpayload_anydata |->
         <<"data">>,
     omni_createpayload_sendnonfungible |->
         <<"propertyid", "tokenstart", "tokenend">>,
     omni_createpayload_setnonfungibledata |->
         <<"propertyid", "tokenstart", "tokenend", "issuer", "data">>]

\* The column "actor (function)" of the table
actor(request) ==
    CASE request.method = "omni_createpayload_simplesend" ->
             omni_createpayload_simplesend(request)
      [] request.method = "omni_createpayload_sendall" ->
             omni_createpayload_sendall(request)
      [] request.method = "omni_createpayload_sendtomany" ->
             omni_createpayload_sendtomany(request)
      [] request.method = "omni_createpayload_dexsell" ->
             omni_createpayload_dexsell(request)
      [] request.method = "omni_createpayload_dexaccept" ->
             omni_createpayload_dexaccept(request)
      [] request.method = "omni_createpayload_sto" ->
             omni_createpayload_sto(request)
      [] request.method = "omni_createpayload_grant" ->
             omni_createpayload_grant(request)
      [] request.method = "omni_createpayload_revoke" ->
             omni_createpayload_revoke(request)
      [] request.method = "omni_createpayload_changeissuer" ->
             omni_createpayload_changeissuer(request)
      [] request.method = "omni_createpayload_trade" ->
             omni_createpayload_trade(request)
      [] request.method = "omni_createpayload_issuancefixed" ->
             omni_createpayload_issuancefixed(request)
      [] request.method = "omni_createpayload_issuancecrowdsale" ->
             omni_createpayload_issuancecrowdsale(request)
      [] request.method = "omni_createpayload_issuancemanaged" ->
             omni_createpayload_issuancemanaged(request)
      [] request.method = "omni_createpayload_closecrowdsale" ->
             omni_createpayload_closecrowdsale(request)
      [] request.method = "omni_createpayload_canceltradesbyprice" ->
             omni_createpayload_canceltradesbyprice(request)
      [] request.method = "omni_createpayload_canceltradesbypair" ->
             omni_createpayload_canceltradesbypair(request)
      [] request.method = "omni_createpayload_cancelalltrades" ->
             omni_createpayload_cancelalltrades(request)
      [] request.method = "omni_createpayload_enablefreezing" ->
             omni_createpayload_enablefreezing(request)
      [] request.method = "omni_createpayload_disablefreezing" ->
             omni_createpayload_disablefreezing(request)
      [] request.method = "omni_createpayload_freeze" ->
             omni_createpayload_freeze(request)
      [] request.method = "omni_createpayload_unfreeze" ->
             omni_createpayload_unfreeze(request)
      [] request.method = "omni_createpayload_adddelegate" ->
             omni_createpayload_adddelegate(request)
      [] request.method = "omni_createpayload_removedelegate" ->
             omni_createpayload_removedelegate(request)
      [] request.method = "omni_createpayload_anydata" ->
             omni_createpayload_anydata(request)
      [] request.method = "omni_createpayload_sendnonfungible" ->
             omni_createpayload_sendnonfungible(request)
      [] request.method = "omni_createpayload_setnonfungibledata" ->
             omni_createpayload_setnonfungibledata(request)

\* tableRPC.appendCommand(name, &command) for every command of the table
RegisterOmniPayloadCreationRPCCommands(tableRPC) == tableRPC \cup DOMAIN commands

\* A call of a method that was registered runs its actor.
Execute(request) ==
    IF request.method \in RegisterOmniPayloadCreationRPCCommands({})
    THEN actor(request)
    ELSE [error |-> "Method not found", payload |-> NoPayload]

-----------------------------------------------------------------------------
(* What the calls promise                                                  *)

\* Calls are answered once the node has loaded its state, between the
\* blocks and while the transactions of a block are applied.
Serving == phase \in {"idle", "block"} /\ nBlocks <= MaxCallBlocks

\* The position of the argument a name of the command table stands for,
\* 0 when the method has none of the name.
Position(request, name) ==
    SeqExt!SelectInSeq(commands[request.method], LAMBDA argument : argument = name)

\* Whether the transactions of the connected blocks made a property with
\* divisible units.  A property they do not know is taken as divisible,
\* which is the note in the help of the calls.
DivisibleOnChain(propertyId) ==
    propertyId \in DOMAIN ledger =>
        Tx[ledger[propertyId].txid].prop_type \in
            {MSC_PROPERTY_TYPE_DIVISIBLE, MSC_PROPERTY_TYPE_DIVISIBLE_REPLACING,
             MSC_PROPERTY_TYPE_DIVISIBLE_APPENDING}

\* The argument that names the property an amount argument is an amount of.
PropertyOf == [amount |-> "propertyid", amountforsale |-> "propertyidforsale",
               amountdesired |-> "propertiddesired", tokensperunit |-> "propertyid"]

\* Whether an amount argument of a call is in divisible units: those of its
\* property; of the type of the property an issuance creates; of XEP, which
\* a sale on the exchange desires.
InDivisibleUnits(request, amount) ==
    LET property == Position(request, PropertyOf[amount])
        type == Position(request, "type")
    IN CASE property # 0 -> DivisibleOnChain(request.params[property])
         [] type # 0 -> request.params[type] = MSC_PROPERTY_TYPE_DIVISIBLE
         [] OTHER -> TRUE

\* A sale on the exchange that is cancelled carries no amounts.
Cancels(request) ==
    /\ Position(request, "action") # 0
    /\ request.params[Position(request, "action")] > UPDATE

\* The amount of the payload that an amount text of a call stands for.
AmountMeant(request, text, amount) ==
    IF Cancels(request) THEN 0 ELSE StrToInt64(text, InDivisibleUnits(request, amount))

\* The amounts of the payload of a call are those of the call in the units
\* of their properties, and none is less than one unit.
AmountsInUnit(request, payload) ==
    LET InUnit(amount) ==
            LET at == Position(request, amount)
            IN /\ payload[amount] = AmountMeant(request, request.params[at], amount)
               /\ Cancels(request) \/ payload[amount] >= 1
        MappingInUnit ==
            LET mapping == request.params[Position(request, "mapping")]
            IN \A i \in DOMAIN mapping :
                   /\ payload.mapping[i].amount =
                          AmountMeant(request, mapping[i].amount, "amount")
                   /\ payload.mapping[i].amount >= 1
    IN /\ \A amount \in DOMAIN PropertyOf \cap DOMAIN payload : InUnit(amount)
       /\ "mapping" \in DOMAIN payload => MappingInUnit

\* The ecosystem the connected blocks gave a property.
EcosystemOnChain(propertyId) ==
    IF propertyId \in Implied THEN propertyId ELSE Tx[ledger[propertyId].txid].ecosystem

\* A payload that names two properties names two different ones, and when
\* the connected blocks know both, they are of one ecosystem; a crowdsale
\* desires XEP or a property of the connected blocks that is of the
\* ecosystem of the property it issues.
PropertiesCompatible(payload) ==
    LET OnChain(propertyId) == propertyId \in Implied \cup DOMAIN ledger
        Pair ==
            LET forSale == payload.propertyidforsale
                desired == payload.propertiddesired
            IN /\ forSale # desired
               /\ OnChain(forSale) /\ OnChain(desired) =>
                      EcosystemOnChain(forSale) = EcosystemOnChain(desired)
        Crowdsale ==
            \/ payload.propertyiddesired = XEP_PROPERTY_ID
            \/ /\ OnChain(payload.propertyiddesired)
               /\ EcosystemOnChain(payload.propertyiddesired) = payload.ecosystem
    IN /\ "propertiddesired" \in DOMAIN payload => Pair
       /\ "propertyiddesired" \in DOMAIN payload => Crowdsale

\* The payload of every call of a sequence of requests fits the connected
\* blocks.  Every amount is the amount of the call in the unit of its
\* property as the transactions of the connected blocks made it:
\* omni_createpayload_... read the unit with isPropertyDivisible from the
\* database, which CreateProperty, DisconnectTip and Rescan change, and
\* parse "1.5" as 150000000 units of a divisible property and as 1 token of
\* an indivisible one.  The properties of omni_createpayload_trade,
\* ..._canceltradesbyprice and ..._canceltradesbypair are two of one
\* ecosystem, and what ..._issuancecrowdsale desires is on the chain:
\* RequireSameEcosystem and RequireExistingProperty decide this by the
\* range of the identifier and the next identifiers of the database, which
\* a rollback moves back.
PayloadsFitChain(requests) ==
    Serving => \A r \in DOMAIN requests :
        LET request == requests[r]
            payload == Execute(request).payload
        IN AmountsInUnit(request, payload) /\ PropertiesCompatible(payload)

=============================================================================
