---------------------------- MODULE MCAccountsDb ----------------------------
(* Small instances of the accounts database.  Slot 1 is the bank of the    *)
(* snapshot; the writes say what the banks of slots 2, 3 and 4 store next  *)
(* to the sysvar.                                                          *)
EXTENDS AccountsDb

World(writes, branch, loads, scans, snapshots, backlog, floods) ==
  [writes |-> writes, forks |-> branch, loads |-> loads, scans |-> scans,
   snapshots |-> snapshots, backlog |-> backlog, floods |-> floods]

No == <<>>
A(val) == "a" :> val
AllRounds == {"roots", "excess", "frozen"}

(* Snapshots of an account that is deleted, deleted after an update, or    *)
(* updated twice; loads with forks and with early flushes; scans with both.*)
MCWorlds ==
  { World(<<No, A("zero"), No, No>>, FALSE, {}, FALSE, TRUE, TRUE, {}),
    World(<<No, No, A("live"), A("live")>>, FALSE, {}, FALSE, TRUE, FALSE, {"roots"}),
    World(<<No, A("live"), A("zero")>>, FALSE, {}, FALSE, TRUE, FALSE, AllRounds),
    World(<<No, A("zero"), A("live")>>, FALSE, {"a"}, FALSE, FALSE, FALSE, {"roots"}),
    World(<<No, No, A("live")>>, TRUE, {"a"}, FALSE, FALSE, FALSE, {"frozen"}),
    World(<<No, A("live"), No>>, TRUE, {}, TRUE, FALSE, FALSE, {}),
    World(<<No, A("live"), No>>, FALSE, {}, TRUE, FALSE, FALSE, {"roots"}) }

(* Snapshot requests wait in the channel while the write cache is above    *)
(* its limit.                                                              *)
MCBacklog ==
  { World(<<No, No, A("live"), A("live")>>, FALSE, {}, FALSE, TRUE, TRUE, {"roots"}) }
=============================================================================
