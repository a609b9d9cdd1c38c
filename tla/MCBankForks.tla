---------------------------- MODULE MCBankForks ----------------------------
(* Instance of BankForks for TLC: a message with the genesis blockhash and *)
(* one with the blockhash of slot 1.                                       *)
EXTENDS BankForks, TLC

CONSTANTS m1, m2

MCSlots == 0 .. 4
MCHashOf == [k \in MsgKeys |-> IF k = m1 THEN 0 ELSE 1]
=============================================================================
