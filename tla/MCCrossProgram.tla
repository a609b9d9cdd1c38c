-------------------------- MODULE MCCrossProgram --------------------------
(* A wallet that signed, an account owned by program P at an address that  *)
(* P can sign for, and a read-only account of P.                           *)
EXTENDS CrossProgram

CONSTANTS wallet, vault, config, P, Q

MCDerived == (P :> {vault}) @@ (Q :> {})
MCFlags == {[signer |-> FALSE, writable |-> FALSE], [signer |-> FALSE, writable |-> TRUE],
            [signer |-> TRUE, writable |-> TRUE]}
MCInstructions == {Keys}
Acct(n, o, d) == [lamports |-> n, owner |-> o, data |-> d]
MCLoads == {(wallet :> Acct(1, System, 0)) @@ (vault :> Acct(1, P, 0)) @@ (config :> Acct(0, P, 1))}

=============================================================================
