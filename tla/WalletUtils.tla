----------------------------- MODULE WalletUtils -----------------------------
(***************************************************************************)
(* The coin selection of omnicore/walletutils.cpp: SelectCoins,            *)
(* SelectAllCoins, CheckFee and the checks they are built from.            *)
(*                                                                         *)
(* The functions read the wallet and the mempool and change neither, so    *)
(* they are operators over the state; the result of a selection is the     *)
(* record of the outpoints given to CCoinControl::Select and the total     *)
(* returned.  The actions are the wallet's and the mempool's: transactions *)
(* enter the wallet, are confirmed or evicted, and outputs are spent,      *)
(* locked and unlocked.                                                    *)
(*                                                                         *)
(* Tx is the sequence of the transactions that can reach the wallet, in    *)
(* the order of their hashes: a txid is an index of it, and the wallet     *)
(* hands its transactions out in that order.  An output is a value and a   *)
(* destination; NoDestination is an output CheckInput turns down.          *)
(***************************************************************************)
EXTENDS Integers, Sequences, FiniteSets

LOCAL SeqExt == INSTANCE SequencesExt
LOCAL SetExt == INSTANCE FiniteSetsExt
LOCAL INSTANCE Bitwise

CONSTANTS
    Tx,               \* the transactions: txid -> sequence of [nValue, dest]
    Address,          \* the destinations outputs pay to
    NoDestination,    \* the destination of an output that is no usable input
    Mine,             \* addresses the wallet knows: isMine, watch-only included
    Spendable,        \* addresses the wallet holds the keys of
    Wallets,          \* GetWallets(): the loaded wallets, each [mine, spendable]
    minRelayTxFee,    \* satoshi per 1000 bytes: the relay fee rate
    payTxFee,         \* satoshi per 1000 bytes: the rate behind getMinimumFee
    nSize,            \* bytes of an output and of the input that spends it
    FeeEstimate,      \* what estimateSmartFee may answer, 0 for no estimate
    AmountRequired,   \* the positive amounts a caller asks SelectCoins for
    MaxLocked         \* bound on the number of locked outputs

VARIABLES
    mapWallet,     \* txids of the transactions in the wallet
    is_trusted,    \* txids the wallet trusts
    confirmed,     \* txids with depth_in_main_chain > 0
    mempool,       \* txids in the memory pool
    spent,         \* outpoints the wallet has spent
    locked         \* outpoints locked by the user

vars == <<mapWallet, is_trusted, confirmed, mempool, spent, locked>>

Txid == DOMAIN Tx

Outpoint == UNION {{<<txid, n>> : n \in DOMAIN Tx[txid]} : txid \in Txid}

TxOut(outpoint) == Tx[outpoint[1]][outpoint[2]]

\* The sum of the values of a set of outpoints.
Value(coins) == SetExt!MapThenSumSet(LAMBDA op : TxOut(op).nValue, coins)

-----------------------------------------------------------------------------
(* The wallet and the mempool                                              *)

WalletInit ==
    /\ mapWallet = {}
    /\ is_trusted = {}
    /\ confirmed = {}
    /\ mempool = {}
    /\ spent = {}
    /\ locked = {}

\* A transaction of the mempool enters the wallet; one that spends only
\* the wallet's own coins is trusted before it confirms.
AddToWallet(txid, fFromMe) ==
    /\ txid \notin mapWallet
    /\ mapWallet' = mapWallet \cup {txid}
    /\ mempool' = mempool \cup {txid}
    /\ is_trusted' = IF fFromMe THEN is_trusted \cup {txid} ELSE is_trusted
    /\ UNCHANGED <<confirmed, spent, locked>>

\* BlockConnected, mutated: the transaction stays in the mempool.
BlockConnectedKeepsMempool(txid) ==
    /\ txid \in mapWallet \ confirmed
    /\ confirmed' = confirmed \cup {txid}
    /\ is_trusted' = is_trusted \cup {txid}
    /\ UNCHANGED <<mapWallet, mempool, spent, locked>>

\* A block with the transaction is connected.
BlockConnected(txid) ==
    /\ txid \in mapWallet \ confirmed
    /\ confirmed' = confirmed \cup {txid}
    /\ mempool' = mempool \ {txid}
    /\ is_trusted' = is_trusted \cup {txid}
    /\ UNCHANGED <<mapWallet, spent, locked>>

\* The mempool drops the transaction; the wallet has not heard of it yet.
RemovedFromMempool(txid) ==
    /\ txid \in mempool
    /\ mempool' = mempool \ {txid}
    /\ UNCHANGED <<mapWallet, is_trusted, confirmed, spent, locked>>

\* The wallet is told: an unconfirmed transaction outside the mempool is
\* not trusted.
TransactionRemovedFromMempool(txid) ==
    /\ txid \in is_trusted \ (confirmed \cup mempool)
    /\ is_trusted' = is_trusted \ {txid}
    /\ UNCHANGED <<mapWallet, confirmed, mempool, spent, locked>>

\* The wallet spends one of its outputs.
Spend(outpoint) ==
    /\ outpoint[1] \in mapWallet
    /\ TxOut(outpoint).dest \in Spendable
    /\ outpoint \notin spent \cup locked
    /\ spent' = spent \cup {outpoint}
    /\ UNCHANGED <<mapWallet, is_trusted, confirmed, mempool, locked>>

LockCoin(outpoint) ==
    /\ outpoint \notin locked
    /\ Cardinality(locked) < MaxLocked
    /\ locked' = locked \cup {outpoint}
    /\ UNCHANGED <<mapWallet, is_trusted, confirmed, mempool, spent>>

UnlockCoin(outpoint) ==
    /\ outpoint \in locked
    /\ locked' = locked \ {outpoint}
    /\ UNCHANGED <<mapWallet, is_trusted, confirmed, mempool, spent>>

\* iWallet.getWalletTxsDetails: the wallet's transactions, in its order.
transactions ==
    SelectSeq([txid \in 1..Len(Tx) |-> txid], LAMBDA txid : txid \in mapWallet)

\* WalletTx::available_credit: the unspent outputs the wallet can spend.
available_credit(txid) ==
    Value({op \in Outpoint :
              op[1] = txid /\ TxOut(op).dest \in Spendable /\ op \notin spent})

\* CFeeRate::GetFee(nBytes) of a rate in satoshi per 1000 bytes.
GetFee(nSatoshisPerK, nBytes) ==
    LET nFee == (nSatoshisPerK * nBytes) \div 1000
    IN IF nFee = 0 /\ nBytes # 0 /\ nSatoshisPerK > 0 THEN 1 ELSE nFee

\* GetDustThreshold(txOut, rate): the fee of creating and spending txOut.
GetDustThreshold(rate) == GetFee(rate, nSize)

-----------------------------------------------------------------------------
(* walletutils.cpp                                                         *)

\* bool CheckInput(txOut, nHeight, dest)
CheckInput(txOut) == txOut.dest # NoDestination

\* CAmount GetEstimatedFeePerKb(iWallet): getMinimumFee(100000, ...)
GetEstimatedFeePerKb == GetFee(payTxFee, 100000)

\* int64_t GetEconomicThreshold(iWallet, txOut)
GetEconomicThreshold ==
    SetExt!Max({GetDustThreshold(minRelayTxFee),
                GetDustThreshold(GetEstimatedFeePerKb) \div 3})

\* Covered, mutated: the loops go on when the total is exactly the amount.
NotYetCovered(amountRequired, nTotal) == amountRequired < nTotal

\* The loops of SelectCoins end when this holds.
Covered(amountRequired, nTotal) == amountRequired <= nTotal

\* The checks of SelectCoins on a wallet transaction: trusted, in the
\* mempool if unconfirmed, with credit.
IsTrustedWithCredit(txid, fNeedsMempool) ==
    /\ txid \in is_trusted
    /\ fNeedsMempool /\ txid \notin confirmed => txid \in mempool
    /\ available_credit(txid) # 0

\* The checks of SelectCoins on an output.
IsEconomicInput(outpoint) ==
    /\ CheckInput(TxOut(outpoint))
    /\ TxOut(outpoint).dest \in Mine
    /\ outpoint \notin spent
    /\ outpoint \notin locked
    /\ TxOut(outpoint).nValue >= GetEconomicThreshold

\* IsSpendableInput, mutated: a spent output is taken again.
IsUnlockedInput(outpoint) ==
    /\ CheckInput(TxOut(outpoint))
    /\ TxOut(outpoint).dest \in Spendable
    /\ outpoint \notin locked

\* The checks of SelectAllCoins on an output.
IsSpendableInput(outpoint) ==
    /\ CheckInput(TxOut(outpoint))
    /\ TxOut(outpoint).dest \in Spendable
    /\ outpoint \notin spent
    /\ outpoint \notin locked

NoCoins == [coinControl |-> {}, nTotal |-> 0, done |-> FALSE]

\* coinControl.Select(outpoint); nTotal += txOut.nValue; break if covered.
Select(selected, outpoint, amountRequired) ==
    LET nTotal == selected.nTotal + TxOut(outpoint).nValue
    IN [coinControl |-> selected.coinControl \cup {outpoint},
        nTotal      |-> nTotal,
        done        |-> Covered(amountRequired, nTotal)]

\* int64_t SelectCoins(iWallet, fromAddress, coinControl, amountRequired):
\* the sender's outputs in the order of the wallet, until they cover the
\* amount; the loop over the transactions tests the amount after every
\* transaction it has looked into.
SelectCoins(fromAddress, amountRequired) ==
    LET Output(selected, outpoint) ==
            IF \/ selected.done
               \/ ~IsEconomicInput(outpoint)
               \/ TxOut(outpoint).dest # fromAddress
            THEN selected
            ELSE Select(selected, outpoint, amountRequired)
        Transaction(selected, txid) ==
            IF selected.done \/ ~IsTrustedWithCredit(txid, TRUE)
            THEN selected
            ELSE LET after == SeqExt!FoldLeft(Output, selected,
                                  [n \in DOMAIN Tx[txid] |-> <<txid, n>>])
                 IN [after EXCEPT !.done = Covered(amountRequired, after.nTotal)]
    IN SeqExt!FoldLeft(Transaction, NoCoins, transactions)

\* int64_t SelectAllCoins(iWallet, fromAddress, coinControl): every output
\* of the sender, whatever its value and whether the mempool holds it.
SelectAllCoins(fromAddress) ==
    LET coins == {op \in Outpoint :
                     /\ op[1] \in mapWallet
                     /\ IsTrustedWithCredit(op[1], FALSE)
                     /\ IsSpendableInput(op)
                     /\ TxOut(op).dest = fromAddress}
    IN [coinControl |-> coins, nTotal |-> Value(coins)]

\* The fee CheckFee asks for: 50000 satoshi per 1000 bytes without an
\* estimate, for 3000 bytes of class B and 2000 of class C.
MinFee(fUseClassC, feeRate) ==
    LET feePerKB == IF feeRate = 0 THEN 50000 ELSE feeRate
    IN IF fUseClassC THEN feePerKB * 2 ELSE feePerKB * 3

\* bool CheckFee(iWallet, fromAddress, nDataSize)
CheckFee(fromAddress, fUseClassC, feeRate) ==
    SelectCoins(fromAddress, 0).nTotal >= MinFee(fUseClassC, feeRate)

-----------------------------------------------------------------------------

\* isminetype: ISMINE_NO, ISMINE_WATCH_ONLY, ISMINE_SPENDABLE, and the filter
\* ISMINE_ALL.
ISMINE_NO == 0
ISMINE_WATCH_ONLY == 1
ISMINE_SPENDABLE == 2
ISMINE_ALL == 3

\* CWallet::IsMine(destination) of one wallet.
IsMine(wallet, address) ==
    CASE address \in wallet.spendable -> ISMINE_SPENDABLE
      [] address \in wallet.mine -> ISMINE_WATCH_ONLY
      [] OTHER -> ISMINE_NO

\* int IsMyAddress(address, iWallet); NoWallet is the null pointer.
IsMyAddress(address, iWallet) ==
    IF iWallet = "NoWallet" THEN 0 ELSE IsMine(iWallet, address)

\* The test of the loop of IsMyAddressAllWallets on one wallet.
Matches(ismine, matchAny, filter) ==
    \/ matchAny /\ ismine # ISMINE_NO
    \/ (ismine & filter) # 0

\* IsMyAddressAllWallets that answers for the first wallet.
IsMyAddressFirstWallet(address, matchAny, filter) ==
    IF Wallets # <<>> /\ Matches(IsMine(Wallets[1], address), matchAny, filter)
    THEN IsMine(Wallets[1], address)
    ELSE 0

\* int IsMyAddressAllWallets(address, matchAny, filter): what the first
\* wallet that matches says, 0 without wallets or without a match.
IsMyAddressAllWallets(address, matchAny, filter) ==
    LET matching == {i \in DOMAIN Wallets :
                        Matches(IsMine(Wallets[i], address), matchAny, filter)}
    IN IF matching = {} THEN 0 ELSE IsMine(Wallets[SetExt!Min(matching)], address)

\* CPubKey::IsFullyValid
IsFullyValid(pubKey) == pubKey = "valid"

\* bool AddressToPubKey(iWallet, key, pubKey), as the answer and the pubKey
\* the caller has afterwards.  key is what the text is ("destination",
\* "hex" or anything else) and what is behind it: whether the destination
\* refers to a key, and the public key the wallet or ParseHex gives for it,
\* "none" when the wallet has none.  A key that is neither leaves pubKey as
\* the caller passed it, and that is what is checked.
AddressToPubKey(key, pubKey) ==
    LET found ==
            CASE key.kind = "destination" /\ key.keyID = "null" -> "none"
              [] key.kind \in {"destination", "hex"} -> key.pubKey
              [] OTHER -> pubKey
    IN IF found = "none"
       THEN [ok |-> FALSE, pubKey |-> pubKey]
       ELSE [ok |-> IsFullyValid(found), pubKey |-> found]

-----------------------------------------------------------------------------

WalletNext ==
    \/ \E txid \in Txid, fFromMe \in BOOLEAN : AddToWallet(txid, fFromMe)
    \/ \E txid \in Txid :
          \/ BlockConnected(txid)
          \/ RemovedFromMempool(txid)
          \/ TransactionRemovedFromMempool(txid)
    \/ \E outpoint \in Outpoint :
          \/ Spend(outpoint)
          \/ LockCoin(outpoint)
          \/ UnlockCoin(outpoint)

WalletSpec == WalletInit /\ [][WalletNext]_vars

-----------------------------------------------------------------------------
(* Properties                                                              *)

WalletTypeOK ==
    /\ mapWallet \subseteq Txid
    /\ is_trusted \subseteq mapWallet
    /\ confirmed \subseteq is_trusted
    /\ mempool \subseteq mapWallet \ confirmed
    /\ spent \subseteq {op \in Outpoint : op[1] \in mapWallet}
    /\ locked \subseteq Outpoint
    /\ Cardinality(locked) <= MaxLocked

\* What the selection takes for a sender, IsMyAddressAllWallets knows the
\* sender for, the wallet the selection works on being one of the loaded
\* wallets: when SelectCoins hands an output to coinControl some loaded
\* wallet is found to know the address, and when SelectAllCoins hands one
\* over a wallet that can spend from the address is found, in whatever
\* place of GetWallets() that wallet is and whatever the wallets before it
\* say about the address.
SelectedCoinsAreOfMyAddress ==
    \A fromAddress \in Address :
        /\ \A amountRequired \in AmountRequired :
              SelectCoins(fromAddress, amountRequired).coinControl # {} =>
                  IsMyAddressAllWallets(fromAddress, TRUE, ISMINE_ALL) # ISMINE_NO
        /\ SelectAllCoins(fromAddress).coinControl # {} =>
              IsMyAddressAllWallets(fromAddress, FALSE, ISMINE_SPENDABLE) = ISMINE_SPENDABLE

\* The outputs SelectCoins may take for a sender, stated without the loop.
Economic(fromAddress) ==
    {op \in Outpoint :
        /\ op[1] \in mapWallet
        /\ IsTrustedWithCredit(op[1], TRUE)
        /\ IsEconomicInput(op)
        /\ TxOut(op).dest = fromAddress}

\* The position of an outpoint in the wallet: by transaction, then output.
Before(op1, op2) ==
    op1[1] < op2[1] \/ (op1[1] = op2[1] /\ op1[2] < op2[2])

\* SelectCoins, asked for a positive amount, selects the sender's usable
\* outputs in the order of the wallet and stops exactly when they cover the
\* amount: the total it returns is the value of what it selected, it is
\* short of the amount only when every usable output was taken, and
\* without the last output taken the amount is not covered.  No output of
\* an unconfirmed transaction the mempool has dropped is taken, although
\* the wallet still trusts it.  This is about the two break statements of
\* SelectCoins and the test they share, and about the mempool being asked
\* after the wallet.
SelectCoinsTakesJustEnough ==
    \A fromAddress \in Address, amountRequired \in AmountRequired :
        LET selected == SelectCoins(fromAddress, amountRequired)
            coins    == selected.coinControl
            usable   == Economic(fromAddress)
        IN /\ selected.nTotal = Value(coins)
           /\ coins \subseteq usable
           /\ \A op \in coins : op[1] \in confirmed \cup mempool
           /\ \A op \in coins, earlier \in usable :
                 Before(earlier, op) => earlier \in coins
           /\ selected.nTotal < amountRequired => coins = usable
           /\ \A op \in coins :
                 (\A other \in coins \ {op} : Before(other, op))
                    => selected.nTotal - TxOut(op).nValue < amountRequired

\* SelectAllCoins is the upper end of SelectCoins: what it selects is
\* unspent and unlocked and adds up to the total it returns, and for a
\* sender whose keys the wallet holds it selects every output SelectCoins
\* selects for any amount, while the wallet and the mempool change
\* underneath.  This is about the two functions testing the same
\* outputs with two lists of conditions.
SelectAllCoinsCoversSelectCoins ==
    \A fromAddress \in Address :
        LET all == SelectAllCoins(fromAddress)
        IN /\ all.coinControl \cap (spent \cup locked) = {}
           /\ all.nTotal = Value(all.coinControl)
           /\ fromAddress \in Spendable =>
                 \A amountRequired \in AmountRequired :
                    SelectCoins(fromAddress, amountRequired).coinControl
                        \subseteq all.coinControl

\* CheckFee "checks, whether enough spendable outputs are available to pay
\* for transaction fees": it accepts a sender whose outputs SelectCoins
\* may use are worth the fee.  This is about CheckFee calling SelectCoins
\* with an amount of 0.
CheckFeeSeesAllOutputs ==
    \A fromAddress \in Address, fUseClassC \in BOOLEAN, feeRate \in FeeEstimate :
        Value(Economic(fromAddress)) >= MinFee(fUseClassC, feeRate)
            => CheckFee(fromAddress, fUseClassC, feeRate)

=============================================================================
