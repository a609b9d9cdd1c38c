------------------------------- MODULE MCVote -------------------------------
(***************************************************************************)
(* Votes for TLC: the vote program and one validator's voting.  The        *)
(* instructions of VoteProgram and those of VoteAuthority read and write   *)
(* different fields of a vote account, and Tower has vote accounts of its  *)
(* own: the initial state picks which of the three parts is explored.      *)
(*                                                                         *)
(* Vote accounts have a stack of at most three votes, on forks of a few    *)
(* slots with two slot hashes, so that votes outlive their hashes.         *)
(***************************************************************************)
EXTENDS VoteProgram, VoteAuthority, Tower

CONSTANTS k1, k2

MCKeys == {k1, k2}
MCNode == {k1}

\* One or two slots, in any order, and a vote with the hash of another slot
MCVoteInputs ==
  {[slots |-> <<s>>, hash |-> s] : s \in Slots}
    \cup {[slots |-> <<s, t>>, hash |-> Max({s, t})] : s, t \in Slots}
    \cup {[slots |-> <<2>>, hash |-> 1]}

\* Stacks of slots in ascending order: one or two votes with every choice of
\* confirmations, three with descending ones; then a descending pair, and a
\* wrong hash
MCStackInputs ==
  LET V == [slot : 1..(MaxSlot - 1), conf : 1..MaxLockoutHistory]
      stacks == {<<v>> : v \in V}
                  \cup {q \in V \X V : q[1].slot < q[2].slot}
                  \cup {q \in V \X V \X V :
                         \A i \in 1..2 : q[i].slot < q[i + 1].slot /\ q[i].conf > q[i + 1].conf}
  IN  {[votes |-> q, hash |-> Last(q).slot] : q \in stacks}
        \cup {[votes |-> <<[slot |-> 2, conf |-> 2], [slot |-> 1, conf |-> 1]>>, hash |-> 1],
              [votes |-> <<[slot |-> 2, conf |-> 1]>>, hash |-> 1]}

\* With a tower file that is kept, trees of six slots: two forks from genesis,
\* one after the other; two forks that alternate.  With one that may be lost or
\* too old for a slot history of three slots, trees of five slots: two forks
\* after slot 1 that alternate, and two forks from genesis.
MCScenarios ==
  [parent : {<<0, 1, 2, 0, 4, 5>>, <<0, 1, 1, 2, 3, 4>>}, mayLoseTower : {FALSE}, historyLen : {10}]
    \cup [parent : {<<0, 1, 1, 2, 3>>, <<0, 1, 2, 0, 4>>}, mayLoseTower : {TRUE}, historyLen : {3}]

VARIABLE part

MCInit ==
  /\ Init /\ AuthorityInit /\ TowerInit
  /\ part \in {"votes", "authority", "tower"}
  /\ part # "votes" => timely
  /\ part # "tower" => ~mayLoseTower /\ ancestors = AncestorsIn(<<0, 1, 2, 0, 4, 5>>)
MCNext ==
  /\ \/ part = "votes" /\ Next /\ UNCHANGED <<authorityVars, towerVars>>
     \/ part = "authority" /\ AuthorityNext /\ UNCHANGED <<vars, towerVars>>
     \/ part = "tower" /\ TowerNext /\ UNCHANGED <<vars, authorityVars>>
  /\ UNCHANGED part

MCSpec == MCInit /\ [][MCNext]_<<vars, authorityVars, towerVars, part>>
=============================================================================
