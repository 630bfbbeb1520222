------------------------------ MODULE MCBankAccount ----------------------------
(***************************************************************************)
(* BankAccount for TLC: transfers in both directions at once, of amounts   *)
(* that the initial balance covers and of amounts it does not, so that some*)
(* transfers succeed, some are retried in reverse and some fail twice.     *)
(***************************************************************************)
EXTENDS BankAccount

MCInitial   == 2
MCAmounts   == {MCInitial - 1, MCInitial + 1}
MCTransfers == 2
ASSUME BothDirections == Forward # {} /\ Backward # {}
================================================================================
