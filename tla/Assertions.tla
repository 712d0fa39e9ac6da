----------------------------- MODULE Assertions -----------------------------
(***************************************************************************)
(* A HARD_ASSERT that fails aborts the process (util/hard_assert.h).  In   *)
(* these modules it adds its label to a set of failed assertions, which    *)
(* stays empty when every assertion holds.                                 *)
(***************************************************************************)

\* HARD_ASSERT(holds, label): the labels it adds.
HardAssert(holds, label) == IF holds THEN {} ELSE {label}
=============================================================================
