------------------------------ MODULE MCChain ------------------------------
(***************************************************************************)
(* Two nodes that are the validators, and the two orders of their list.    *)
(***************************************************************************)
EXTENDS DposChain

MCNode == 1..2
MCGenesisList == <<1, 2>>
MCLists == {<<1, 2>>, <<2, 1>>}

=============================================================================
