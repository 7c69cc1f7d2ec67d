----------------------------- MODULE MCStartup -----------------------------
(* Three starts, two mandatory services (the four are treated alike) and one
   that wants a token.  A command line without flags, one with everything, one
   with other mandatory addresses and the common token, and one that
   leaves a mandatory service out and gives no token. *)
EXTENDS Startup, TLC

CONSTANTS r1, r2, r3, node, messager, miner, a, b, t, u

Places == [s \in Service |-> IF s = node THEN 1 ELSE IF s = messager THEN 2 ELSE 3]
All(x) == [s \in Service |-> x]
Commands ==
  {NoFlags,
   [NoFlags EXCEPT !.set = Service,
                   !.api = All([addr |-> a, token |-> t])],
   [NoFlags EXCEPT !.set = Mandatory, !.listen = TRUE, !.common = u,
                   !.api = All([addr |-> b, token |-> NoToken])],
   [NoFlags EXCEPT !.set = {node, miner},
                   !.api = All([addr |-> b, token |-> NoToken])]}

Perms == Permutations(Run)
=============================================================================
