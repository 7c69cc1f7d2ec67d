----------------------------- MODULE MCMultisig -----------------------------
(* A multisig of three, two of whom decide: one whose wallet is here, under two
   addresses, one who may use either, and one who has another tool.  There is
   room for four signers, and a creation lists five. *)
EXTENDS Multisig, TLC

CONSTANTS c1, c2, a, b, o, d, e, ka, kx, p

Resolve == (a :> a) @@ (b :> b) @@ (o :> o) @@ (d :> d) @@ (e :> e) @@ (ka :> a) @@ (kx :> NoAddr)

NoTxn == [op |-> NoOp, votes |-> [i \in Id |-> 0], fate |-> "none"]
Three == [signers |-> {a, b, o}, threshold |-> 2, next |-> 0,
          txns |-> [n \in Num |-> NoTxn]]

CreateReq(ss, t, neg) == [kind |-> "create", from |-> a, signers |-> ss,
                          threshold |-> t, negative |-> neg]

SomeAsks ==
  {CreateByDefault(<<ka, b>>), CreateReq(<<a, ka>>, 2, FALSE),
   CreateReq(<<a, b>>, 0, FALSE), CreateReq(<<a>>, 2, FALSE),
   CreateReq(<<a, kx>>, 1, FALSE), CreateReq(<<a, b>>, 1, TRUE),
   CreateReq(<<ka, b, o, d, e>>, 2, FALSE)}
  \cup {[kind |-> "propose", from |-> ka, to |-> p, negative |-> n] : n \in BOOLEAN}
  \cup {[kind |-> "add", from |-> a, signer |-> d, alter |-> TRUE],
        [kind |-> "add", from |-> a, signer |-> kx, alter |-> FALSE],
        [kind |-> "remove", from |-> a, signer |-> b, alter |-> FALSE],
        [kind |-> "swap", from |-> a, old |-> o, new |-> d]}
  \cup {[kind |-> k, from |-> b, tx |-> n] : k \in Voting, n \in {0, 1}}
  \cup {[kind |-> "approve", from |-> kx, tx |-> 0]}

Perms == Permutations(Call)
=============================================================================
