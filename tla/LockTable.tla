----------------------------- MODULE LockTable -----------------------------
(***************************************************************************)
(* What account locks promise: transactions that hold their accounts at    *)
(* the same time do not conflict.  A transaction gets all its accounts at  *)
(* once or none, and is refused only for a conflict with a holder.         *)
(***************************************************************************)
CONSTANTS Txs, Conflicts(_, _)
VARIABLES held, refused

Init == held = {} /\ refused = {}

Lock(t) ==
  /\ t \notin held /\ \A u \in held : ~Conflicts(t, u)
  /\ held' = held \cup {t}
  /\ UNCHANGED refused

Refuse(t) ==
  /\ \E u \in held : Conflicts(t, u)
  /\ refused' = refused \cup {t}
  /\ UNCHANGED held

Unlock(t) ==
  /\ t \in held
  /\ held' = held \ {t}
  /\ UNCHANGED refused

(* The batches of some transactions end: their refusals are reported.      *)
Report(done) ==
  /\ refused' = refused \ done
  /\ UNCHANGED held

Next ==
  \/ \E t \in Txs : Lock(t) \/ Refuse(t) \/ Unlock(t)
  \/ \E done \in SUBSET Txs : Report(done)

Spec == Init /\ [][Next]_<<held, refused>>
=============================================================================
