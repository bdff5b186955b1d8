--------------------------- MODULE MCDiskBlockIndex ---------------------------
(***************************************************************************)
(* One index entry between memory and disk.  Every value a field can take  *)
(* besides its default 0 is a number of its own, so that a value read into *)
(* the wrong field is seen.                                                *)
(***************************************************************************)
EXTENDS DiskBlockIndex

MCModifier  == {5}
MCPayment   == {7}
MCStakeHash == {3}
MCPosition  == {8, 9}

Spec == DiskSpec
TypeOK == DiskTypeOK
=============================================================================
