----------------------------- MODULE MCMessager -----------------------------
(* Two addresses, one of which messager has not taken over yet, with a message
   each under the same nonce, and a third message without a nonce. *)
EXTENDS Messager, TLC

CONSTANTS c1, c2, e1, e2, w1, w2

Msg(st, from, to, nonce) ==
  [st |-> st, from |-> from, to |-> to, nonce |-> nonce, price |-> NoCall]

SomeMsgs == [c \in Call |-> Msg("none", w1, "known", NoNonce)]
            @@ (e1 :> Msg("fill", w1, "known", 1))
            @@ (e2 :> Msg("ok", w2, "known", 1))

SomeBook == (w1 :> [state |-> "active", spec |-> NoCall, num |-> NoNum])
            @@ (w2 :> [state |-> "absent", spec |-> NoCall, num |-> NoNum])

\* msg list without flags.
List == [kind |-> "list", id |-> NoId, failed |-> FALSE, from |-> <<>>,
         nonce |-> NoNonce, blocked |-> FALSE, time |-> FALSE,
         state |-> "unfill", paged |-> FALSE]
Replace(id, n, from) == [kind |-> "replace", id |-> id, nonce |-> n, from |-> from]
Set(a, spec, n) == [kind |-> "set", addr |-> a, spec |-> spec, num |-> n]

SomeAsks ==
  {[kind |-> "send", from |-> w1,
    to |-> IF x = "none" THEN "known" ELSE "fresh", params |-> x, command |-> FALSE] :
     x \in {"none", "good", "bad"}}
  \cup {[kind |-> "send", from |-> w2, to |-> "known", params |-> "good", command |-> TRUE]}
  \cup {[List EXCEPT !.id = e2, !.failed = TRUE],
        [List EXCEPT !.failed = TRUE, !.from = <<w1>>],
        [List EXCEPT !.from = <<w2>>, !.nonce = 1], [List EXCEPT !.nonce = 1],
        [List EXCEPT !.blocked = TRUE, !.time = TRUE, !.state = "onchain"],
        [List EXCEPT !.blocked = TRUE],
        [List EXCEPT !.from = <<w1>>],
        [List EXCEPT !.state = "fill", !.paged = TRUE]}
  \cup {Replace(e1, 0, FALSE), Replace(NoId, 1, FALSE), Replace(NoId, 0, FALSE),
        Replace(NoId, 1, TRUE)}
  \cup {[kind |-> "bad", id |-> e1], [kind |-> "addrs"]}
  \cup {[kind |-> k, addr |-> w1] : k \in Operating \ {"set"}}
  \cup {Set(w1, TRUE, 2), Set(w1, FALSE, 0), Set(w1, FALSE, NoNum), Set(w1, TRUE, NoNum),
        Set(w1, FALSE, 1)}

Perms == Permutations(Call)
=============================================================================
