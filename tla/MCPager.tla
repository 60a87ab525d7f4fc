------------------------------ MODULE MCPager ------------------------------
(* Model of the pager for TLC. *)
EXTENDS PagerRefinement
=============================================================================
