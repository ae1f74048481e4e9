---------------------- MODULE MCInventoryReplication ----------------------
(***************************************************************************)
(* Small instances of InventoryReplication for TLC: two hosts, two         *)
(* consumers, partitions of three events.                                  *)
(***************************************************************************)
EXTENDS InventoryReplication

CONSTANTS h1, h2, c1, c2

Up(host, updated) == [type |-> "upsert", host |-> host, updated |-> updated]
Del(host)         == [type |-> "delete", host |-> host, updated |-> 1]
Skip(host)        == [type |-> "skipped", host |-> host, updated |-> 1]

\* Updates out of order; a host that leaves and comes back; two hosts
\* interleaved; events that are dropped.
ReplLogs ==
  { <<Up(h1, 1), Up(h1, 3), Up(h1, 2)>>,
    <<Up(h1, 2), Del(h1), Up(h1, 1)>>,
    <<Up(h1, 1), Up(h2, 1), Del(h1)>>,
    <<Skip(h1), Del(h1), Up(h1, 1)>> }

\* A host that is created and deleted.
DeleteLogs == {<<Up(h1, 1), Del(h1)>>}
===========================================================================
