-------------------------- MODULE MCDuplicateSlots --------------------------
(***************************************************************************)
(* Instances of DuplicateSlots: a few blocks over two slots, the first  *)
(* always in two versions.                                                 *)
(***************************************************************************)
EXTENDS DuplicateSlots

K(s, h) == <<s, h>>

\* A block on one version of slot 1
MCChainBlocks == (K(1, 1) :> Genesis) @@ (K(1, 2) :> Genesis) @@ (K(2, 1) :> K(1, 1))
\* A fork that leaves slot 1 out
MCForkBlocks == (K(1, 1) :> Genesis) @@ (K(1, 2) :> Genesis) @@ (K(2, 1) :> Genesis)

\* The heavier of the two voters changes with the epoch.
MCStake == [v \in {"a", "b"} |-> IF v = "a" THEN <<1, 3>> ELSE <<2, 2>>]

World(blocks, voters, sampledSlots, maxRestarts, maxBatch, repairs) ==
    [blocks |-> blocks, voters |-> voters, sampled |-> sampledSlots,
     restarts |-> maxRestarts, batch |-> maxBatch, repairs |-> repairs]

MCWorlds == {World(MCChainBlocks, {}, {1, 2}, 1, 2, FALSE),
             World(MCForkBlocks, {"a", "b"}, {}, 0, 1, FALSE),
             World(MCChainBlocks, {}, {1, 2}, 0, 1, TRUE)}
=============================================================================
