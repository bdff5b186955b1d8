----------------------------- MODULE MCBestChain -----------------------------
(***************************************************************************)
(* The node's index and chain for TLC, over a universe of five blocks:     *)
(*                                                                         *)
(*     G - A - B              work 1, 1, 1: a chain of three, for what has *)
(*     |                      to reach grandchildren                       *)
(*     + - D                  work 2: more than A, as much as B            *)
(*     |                                                                   *)
(*     + - F                  work 3, and a timestamp before its parent's: *)
(*                            the most work, and never valid               *)
(***************************************************************************)
EXTENDS BestChain

CONSTANTS G, A, B, D, F, null

MCHash == {G, A, B, D, F}

Blk(prev, time, proof, ntx) ==
    [hashPrevBlock |-> prev, nTime |-> time, proof |-> proof, nTx |-> ntx]

MCBlock ==
    (G :> Blk(null, 2, 1, 1)) @@ (A :> Blk(G, 3, 1, 2)) @@ (B :> Blk(A, 4, 1, 1)) @@
    (D :> Blk(G, 3, 2, 2)) @@ (F :> Blk(G, 1, 3, 1))

\* Stands for 2^32: no sum of transaction counts of the universe reaches it.
MCUintModulus == 1024

Spec == NodeSpec
TypeOK == NodeTypeOK
=============================================================================
