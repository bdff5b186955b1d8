---------------------------- MODULE MCActiveChain ----------------------------
(***************************************************************************)
(* CChain for TLC.  The hashes are numbers: 0..MainTip are the blocks of   *)
(* one branch, by height; the blocks above MainTip are a second branch     *)
(* that forks off at ForkHeight.  The timestamps of the first branch go    *)
(* back twice, so that nTimeMax and nTime differ.                          *)
(*                                                                         *)
(*     0 - 1 - 2 - 3 - 4 - 5 - 6 - 7 - 8 - 9                               *)
(*                     |                                                   *)
(*                     + - 10 - 11                                         *)
(***************************************************************************)
EXTENDS ActiveChain

MainTip    == 9
ForkHeight == 4
ForkTip    == 11

MCHash == 0..ForkTip
MCNullHash == -1

MainTime == <<5, 6, 7, 3, 4, 8, 9, 2, 10, 11>>

MCBlock ==
    [hash \in MCHash |->
        IF hash <= MainTip
        THEN [hashPrevBlock |-> hash - 1, nTime |-> MainTime[hash + 1], proof |-> 1, nTx |-> 1]
        ELSE [hashPrevBlock |-> IF hash = MainTip + 1 THEN ForkHeight ELSE hash - 1,
              nTime |-> hash - 3, proof |-> 3, nTx |-> 1]]

MCUintModulus == 1024

Spec == ChainSpec
TypeOK == ChainTypeOK
=============================================================================
