------------------------------ MODULE ForkTree ------------------------------
(***************************************************************************)
(* The tree of core/src/consensus/heaviest_subtree_fork_choice.rs as a     *)
(* value: a record of the root, the fork_infos and the latest vote of each *)
(* validator, and one operator per method.  A key is <<slot, hash>>, keys  *)
(* are ordered as the pairs they are.  The children of a node are the      *)
(* nodes it is the parent of; latest_invalid_ancestor 0 is None (slot 0 is *)
(* the first root and never a duplicate).                                  *)
(***************************************************************************)
EXTENDS Integers, FiniteSetsExt, SequencesExt

CONSTANTS Stake,            \* of each vote account in the first and second epoch
          EpochStart        \* first slot of the second epoch

NoKey == <<>>

Slot(k) == k[1]

Less(k, l) == \/ k[1] < l[1]
              \/ k[1] = l[1] /\ k[2] < l[2]

\* Every key from the greatest to the smallest: the order in which
\* process_update_operations walks its map.
Descending(ks) == SetToSortSeq(ks, LAMBDA k, l : Less(l, k))

StakeAt(v, slot) == Stake[v][IF slot < EpochStart THEN 1 ELSE 2]

-----------------------------------------------------------------------------
Keys(t) == DOMAIN t.infos

Children(t, k) == {c \in Keys(t) : t.infos[c].parent = k}

\* AncestorIterator: empty for a key the tree does not hold.
Ancestors(t, k) ==
    LET anc[n \in Keys(t)] ==
            IF t.infos[n].parent = NoKey
            THEN {}
            ELSE {t.infos[n].parent} \cup anc[t.infos[n].parent]
    IN  IF k \in Keys(t) THEN anc[k] ELSE {}

\* subtree_diff with nothing excluded
Subtree(t, k) == {n \in Keys(t) : n = k \/ k \in Ancestors(t, n)}

IsCandidate(t, k) == t.infos[k].invalid = 0
IsConfirmed(t, k) == k \in Keys(t) /\ t.infos[k].confirmed

Leaf(k, parent, invalid, confirmed) ==
    [at |-> 0, subtree |-> 0, height |-> 1, best |-> k, deepest |-> k,
     parent |-> parent, invalid |-> invalid, confirmed |-> confirmed]

\* new: a root is taken to be duplicate confirmed.
NewTree(root) ==
    [root |-> root,
     infos |-> [k \in {root} |-> Leaf(root, NoKey, 0, TRUE)],
     votes |-> [v \in {} |-> NoKey]]

-----------------------------------------------------------------------------
(***************************************************************************)
(* add_new_leaf_slot and propagate_new_leaf.                               *)
(***************************************************************************)
Heavier(t, k, l) ==
    \/ t.infos[k].subtree > t.infos[l].subtree
    \/ t.infos[k].subtree = t.infos[l].subtree /\ Less(k, l)

Deeper(t, k, l) ==
    \/ t.infos[k].height > t.infos[l].height
    \/ t.infos[k].height = t.infos[l].height /\ Heavier(t, k, l)

IsBestChild(t, k) ==
    \A c \in Children(t, t.infos[k].parent) :
        IsCandidate(t, c) => ~Heavier(t, c, k)

IsDeepestChild(t, k) ==
    \A c \in Children(t, t.infos[k].parent) : ~Deeper(t, c, k)

\* The ancestors whose best slot was the parent's take the leaf instead, up to
\* the first that had another one.
PropagateBest(t, leaf) ==
    LET parent == t.infos[leaf].parent
        old == t.infos[parent].best
        takes(n) == /\ t.infos[n].best = old
                    /\ \A m \in Ancestors(t, parent) \cup {parent} :
                           Slot(m) > Slot(n) => t.infos[m].best = old
        taking == {n \in Ancestors(t, parent) \cup {parent} : takes(n)}
    IN  IF IsBestChild(t, leaf)
        THEN [t EXCEPT !.infos = [n \in Keys(t) |->
                 IF n \in taking THEN [t.infos[n] EXCEPT !.best = leaf]
                                 ELSE t.infos[n]]]
        ELSE t

\* The ancestors take the leaf as their deepest slot, up to the first whose
\* child on the path is not the deepest of its siblings.
PropagateDeepest(t, leaf) ==
    LET path == Descending(Ancestors(t, leaf))
        step(st, n) ==
            IF st.on /\ IsDeepestChild(st.t, st.child)
            THEN [on |-> TRUE, child |-> n,
                  t |-> [st.t EXCEPT !.infos[n].deepest = leaf,
                                     !.infos[n].height =
                                         st.t.infos[st.child].height + 1]]
            ELSE [st EXCEPT !.on = FALSE]
    IN  FoldLeft(step, [on |-> TRUE, child |-> leaf, t |-> t], path).t

AddNewLeafSlot(t, k, parent) ==
    IF k \in Keys(t)
    THEN t
    ELSE LET added == [t EXCEPT !.infos =
                          [n \in Keys(t) \cup {k} |->
                              IF n = k
                              THEN Leaf(k, parent, t.infos[parent].invalid, FALSE)
                              ELSE t.infos[n]]]
         IN  PropagateDeepest(PropagateBest(added, k), k)

-----------------------------------------------------------------------------
(***************************************************************************)
(* aggregate_slot, and the aggregation of a set of nodes in descending     *)
(* order.                                                                  *)
(***************************************************************************)
AggregateSlot(t, k) ==
    LET kids == Children(t, k)
        valid == {c \in kids : IsCandidate(t, c)}
        top == CHOOSE c \in valid : \A d \in valid : ~Heavier(t, d, c)
        deep == CHOOSE c \in kids : \A d \in kids : ~Deeper(t, d, c)
        up == \E c \in kids : t.infos[c].confirmed
    IN  [t EXCEPT !.infos[k] =
           [@ EXCEPT
              !.subtree = t.infos[k].at
                          + MapThenSumSet(LAMBDA c : t.infos[c].subtree, kids),
              !.height = IF kids = {} THEN 1 ELSE t.infos[deep].height + 1,
              !.best = IF valid = {} THEN k ELSE t.infos[top].best,
              !.deepest = IF kids = {} THEN k ELSE t.infos[deep].deepest,
              !.confirmed = @ \/ up,
              !.invalid = IF up THEN 0 ELSE @]]

Aggregate(t, ks) == FoldLeft(AggregateSlot, t, Descending(ks))

-----------------------------------------------------------------------------
(***************************************************************************)
(* mark_fork_invalid_candidate and mark_fork_valid_candidate.  Each node   *)
(* of the subtree is updated and aggregated, from the leaves up, then the  *)
(* ancestors are aggregated.                                               *)
(***************************************************************************)
\* The assertion of mark_fork_invalid_candidate and of
\* update_with_newly_invalid_ancestor on every node it visits.
MayMarkInvalid(t, k) ==
    k \in Keys(t) => \A n \in Subtree(t, k) : ~t.infos[n].confirmed

NewlyInvalid(info, slot) == [info EXCEPT !.invalid = Max({@, slot})]

NewlyValid(k, info, slot) ==
    [info EXCEPT !.invalid = IF @ <= slot THEN 0 ELSE @,
                 !.confirmed = @ \/ Slot(k) = slot]

\* mutant: the ancestors keep their best slot
MarkForkBelow(t, k) ==
    IF k \in Keys(t)
    THEN LET sub == Subtree(t, k)
             marked == [t EXCEPT !.infos = [n \in Keys(t) |->
                           IF n \in sub THEN NewlyInvalid(t.infos[n], Slot(k))
                                        ELSE t.infos[n]]]
         IN  Aggregate(marked, sub)
    ELSE t

MarkForkInvalid(t, k) ==
    IF k \in Keys(t)
    THEN LET sub == Subtree(t, k)
             marked == [t EXCEPT !.infos = [n \in Keys(t) |->
                           IF n \in sub THEN NewlyInvalid(t.infos[n], Slot(k))
                                        ELSE t.infos[n]]]
         IN  Aggregate(marked, sub \cup Ancestors(t, k))
    ELSE t

MarkForkValid(t, k) ==
    LET sub == Subtree(t, k)
        marked == [t EXCEPT !.infos = [n \in Keys(t) |->
                      IF n \in sub THEN NewlyValid(n, t.infos[n], Slot(k))
                                   ELSE t.infos[n]]]
    IN  Aggregate(marked, sub \cup Ancestors(t, k))

-----------------------------------------------------------------------------
(***************************************************************************)
(* add_votes: "new" is a partial function from validators to keys.  A vote *)
(* below the root, older than the latest, or for the same slot with a      *)
(* greater or equal hash is dropped.  The stake leaves the old key and     *)
(* joins the new one; both paths are aggregated.                           *)
(***************************************************************************)
Accepts(t, v, k) ==
    /\ Slot(k) >= Slot(t.root)
    /\ v \in DOMAIN t.votes =>
          LET old == t.votes[v]
          IN  Slot(k) > Slot(old) \/ (Slot(k) = Slot(old) /\ k[2] < old[2])

\* Stake that arrives at key k, or leaves it, with the votes "ks".
StakeOf(ks, k) ==
    MapThenSumSet(LAMBDA v : StakeAt(v, Slot(k)),
                  {v \in DOMAIN ks : ks[v] = k})

AddVotes(t, new) ==
    LET taken == {v \in DOMAIN new : Accepts(t, v, new[v])}
        ins == [v \in taken |-> new[v]]
        outs == [v \in taken \cap DOMAIN t.votes |-> t.votes[v]]
        moved == [t EXCEPT
            !.votes = [v \in DOMAIN t.votes \cup taken |->
                          IF v \in taken THEN new[v] ELSE t.votes[v]],
            !.infos = [k \in Keys(t) |->
                LET d == StakeOf(ins, k) - StakeOf(outs, k)
                IN  [t.infos[k] EXCEPT !.at = @ + d, !.subtree = @ + d]]]
    IN  Aggregate(moved, UNION {Ancestors(t, ins[v]) : v \in taken}
                         \cup UNION {Ancestors(t, outs[v]) : v \in DOMAIN outs})

\* set_tree_root: everything outside the new root's subtree goes; the votes
\* stay as they are.
SetTreeRoot(t, k) ==
    LET sub == Subtree(t, k)
    IN  [t EXCEPT !.root = k,
                  !.infos = [n \in sub |->
                      IF n = k THEN [t.infos[n] EXCEPT !.parent = NoKey]
                               ELSE t.infos[n]]]

-----------------------------------------------------------------------------
(***************************************************************************)
(* The reference definitions: what the fields of a node stand for, from    *)
(* the parents, the latest votes and the marks alone.                      *)
(***************************************************************************)
VotedAt(t, k) == StakeOf(t.votes, k)

VotedSubtree(t, k) == MapThenSumSet(LAMBDA n : VotedAt(t, n), Subtree(t, k))

\* The heaviest of a set of siblings
Heaviest(t, ks) ==
    CHOOSE k \in ks : \A l \in ks \ {k} :
        \/ VotedSubtree(t, k) > VotedSubtree(t, l)
        \/ VotedSubtree(t, k) = VotedSubtree(t, l) /\ Less(k, l)

\* From a node down along the heaviest candidate to a node without one
BestFrom(t) ==
    LET best[k \in Keys(t)] ==
            LET valid == {c \in Children(t, k) : IsCandidate(t, c)}
            IN  IF valid = {} THEN k ELSE best[Heaviest(t, valid)]
    IN  best

HeightOf(t, k) == Max({Cardinality(Ancestors(t, n) \cap Subtree(t, k)) + 1 :
                       n \in Subtree(t, k)})

\* From a node down along the highest subtree, ties to the heaviest
DeepestFrom(t) ==
    LET deepest[k \in Keys(t)] ==
            LET kids == Children(t, k)
                high == {c \in kids : \A d \in kids :
                             HeightOf(t, c) >= HeightOf(t, d)}
            IN  IF kids = {} THEN k ELSE deepest[Heaviest(t, high)]
    IN  deepest

FieldsExact(t) ==
    LET best == BestFrom(t)
        deepest == DeepestFrom(t)
    IN  \A k \in Keys(t) : /\ t.infos[k].at = VotedAt(t, k)
                           /\ t.infos[k].subtree = VotedSubtree(t, k)
                           /\ IsCandidate(t, k) => t.infos[k].best = best[k]
                           /\ t.infos[k].height = HeightOf(t, k)
                           /\ t.infos[k].deepest = deepest[k]
=============================================================================
