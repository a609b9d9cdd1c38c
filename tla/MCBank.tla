------------------------------- MODULE MCBank -------------------------------
(* Instances of Bank for TLC.                                              *)
EXTENDS Bank

CONSTANTS a, b    \* two accounts
CONSTANTS prog    \* a program other than System

MCMinBalance == [n \in Lens |-> IF n = 0 THEN 1 ELSE 2]
BaseDerivesB == {<<a, System, b>>, <<a, prog, b>>}

Balance(n) == [NewAccount EXCEPT !.lamports = n]
LegacyNonce(n, key) ==
  [lamports |-> n, owner |-> System, len |-> NonceLen, state |-> Initialized("Legacy", key, 0)]
ForeignAccount(n) == [lamports |-> n, owner |-> prog, len |-> NonceLen, state |-> Zeroed]

RentPayingAccount == [NewAccount EXCEPT !.lamports = 1, !.len = NonceLen]

(* Genesis: a funded payer, and a second account that does not exist yet,  *)
(* is a legacy nonce, pays rent or belongs to a program.                   *)
MCInit == \E other \in {NewAccount, LegacyNonce(2, a), RentPayingAccount, ForeignAccount(2)} :
            InitWith([k \in Keys |-> IF k = a THEN Balance(4) ELSE other])
MCSpec == MCInit /\ [][Next]_vars
=============================================================================
