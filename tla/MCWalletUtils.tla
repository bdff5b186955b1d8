---------------------------- MODULE MCWalletUtils ----------------------------
(***************************************************************************)
(* The coin selection for TLC: a wallet that can hold three transactions   *)
(* with six outputs, in satoshi.   With a relay fee of 3000 and a wallet   *)
(* fee of 1000 satoshi per 1000 bytes and outputs of 182 bytes, an output  *)
(* below 6066 satoshi is below the economic threshold.                     *)
(*                                                                         *)
(*     1:  100000 unusable, 5000 to a1   a1's output is uneconomic         *)
(*     2:   90000 to a1,   60000 to a1   together the fee of class B       *)
(*     3:  150000 to a1,   70000 to a3   alone the fee of class B          *)
(*                                                                         *)
(* a1 is the wallet's; a3 is watched, without its keys.  The amounts asked *)
(* for are around the sums of a1's outputs.  Three wallets are loaded: the *)
(* first watches a1, the second is this wallet, the third holds the keys   *)
(* of a3.                                                                  *)
(***************************************************************************)
EXTENDS WalletUtils

Out(nValue, dest) == [nValue |-> nValue, dest |-> dest]

MCTx ==
    << <<Out(100000, "none"), Out(5000, "a1")>>,
       <<Out(90000, "a1"), Out(60000, "a1")>>,
       <<Out(150000, "a1"), Out(70000, "a3")>> >>

MCAddress == {"a1", "a3"}
MCMine == {"a1", "a3"}
MCSpendable == {"a1"}

MCWallets ==
    << [mine |-> {"a1"}, spendable |-> {}],
       [mine |-> MCMine, spendable |-> MCSpendable],
       [mine |-> {"a3"}, spendable |-> {"a3"}] >>

Spec == WalletSpec
TypeOK == WalletTypeOK
=============================================================================
