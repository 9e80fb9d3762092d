------------------------------ MODULE MCWalAsync ------------------------------
(* The instance checked: callers that ask for another block size in a       *)
(* longer text, or for the default in a shorter one.                        *)
EXTENDS WalAsync

SomeConfigs == {[block |-> 3, bulk |-> 5, digits |-> 1], Default}
===============================================================================
