----------------------------- MODULE MCWithdraw -----------------------------
(* A miner with 2 available and a beneficiary that may take 2 in all, so that
   a withdrawal can find less than it asks for; and 2 in the market, 1 of them
   reserved.  Zero and a negative amount stand for all of it, but only the negative
   one is less than a small debt. *)
EXTENDS Withdraw, TLC

CONSTANTS c1, c2

SomeAmounts == {-2, 0, 1}
StartFunds  == [avail |-> 2, quota |-> 2, escrow |-> 2, locked |-> 0, reserved |-> 1]

Perms == Permutations(Call)
=============================================================================
