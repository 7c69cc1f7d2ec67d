--------------------------- MODULE MCMinerWorker ---------------------------
(* A miner whose worker is i1 and whose only controller is i3.  k2 is the key
   address of i2; k9 is a key address with no actor on chain. *)
EXTENDS MinerWorker, TLC

CONSTANTS i1, i2, i3, k2, k9, c1, c2, c3

MCId  == {i1, i2, i3}
MCKey == {k2, k9}
MCIdOf == [a \in MCId \cup MCKey |-> IF a = k2 THEN i2
                                     ELSE IF a = k9 THEN NoAddr ELSE a]
MCCtls0 == <<i3>>

TwoWorkers  == {i2, i3}
WorkersToo  == {i2, i3, k9}
OneList     == {<<k2>>}
ListsToo    == {<<k2>>, <<i3, k2>>, <<k2, k2>>, <<>>, <<i1, k9>>}

Perms == Permutations(Call)
=============================================================================
