---------------------------- MODULE MCMinerOwner ----------------------------
(* A miner that i1 owns, with i2 proposed as its owner.  k2 is the key
   address of i2; k9 is a key address with no actor on chain. *)
EXTENDS MinerOwner, TLC

CONSTANTS i1, i2, k2, k9, c1, c2, c3

MCId  == {i1, i2}
MCKey == {k2, k9}
MCIdOf == [a \in MCId \cup MCKey |-> IF a = k2 THEN i2
                                     ELSE IF a = k9 THEN NoAddr ELSE a]
MCMiner0 == [owner |-> i1, pendingOwner |-> i2, beneficiary |-> i1, quota |-> 0,
             term |-> NoTerm]

R(kind, addr, quota) == [kind |-> kind, addr |-> addr, quota |-> quota]

Some == {R("setOwner", i1, 0), R("confirmOwner", k2, 0),
         R("setBeneficiary", k2, 1), R("setBeneficiary", i1, 1),
         R("setOwner", k2, 0), R("setOwner", k9, 0),
         R("byBeneficiary", i1, 0), R("byNominee", i2, 0)}

Perms == Permutations(Call)
=============================================================================
