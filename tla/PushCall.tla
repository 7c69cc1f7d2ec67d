------------------------------ MODULE PushCall ------------------------------
(***************************************************************************)
(* What venus-tool promises to whoever calls one of its state-changing     *)
(* endpoints.  A call has at most one message, and the message has a life  *)
(* of its own in sophon-messager and on the chain.  The call has one       *)
(* answer, given once:                                                     *)
(*   - an error met before the push means no message will ever exist;      *)
(*   - a success means the message is on chain with exit code Ok;          *)
(*   - "exec messager failed" means it is on chain with another exit code; *)
(*   - any other answer says nothing about the message.                    *)
(* PushWait and the modules built on it implement this module.             *)
(***************************************************************************)
CONSTANT Call

VARIABLES mst, ans

vars == <<mst, ans>>

MsgState == {"none", "pooled", "ok", "error", "failed"}

Declined == {"refused", "unavailable"}   \* an error met before the push
Vague    == {"panic", "doubt", "lost"}   \* an answer that says nothing
Answer   == {"none", "ok", "failed", "unread"} \cup Declined \cup Vague

TypeOK == mst \in [Call -> MsgState] /\ ans \in [Call -> Answer]

Init == /\ mst = [c \in Call |-> "none"]
        /\ ans = [c \in Call |-> "none"]
-----------------------------------------------------------------------------
Decline(c) == /\ ans[c] = "none" /\ mst[c] = "none"
              /\ \E a \in Declined : ans' = [ans EXCEPT ![c] = a]
              /\ UNCHANGED mst

Submit(c) == /\ ans[c] = "none" /\ mst[c] = "none"
             /\ mst' = [mst EXCEPT ![c] = "pooled"]
             /\ \/ UNCHANGED ans
                \/ \E a \in Vague : ans' = [ans EXCEPT ![c] = a]

Settle(c) == /\ mst[c] = "pooled"
             /\ \E s \in {"ok", "error", "failed"} : mst' = [mst EXCEPT ![c] = s]
             /\ UNCHANGED ans

Report(c) == /\ ans[c] = "none"
             /\ \/ /\ mst[c] = "ok"
                   /\ \E a \in {"ok", "unread"} : ans' = [ans EXCEPT ![c] = a]
                \/ /\ mst[c] = "error"
                   /\ ans' = [ans EXCEPT ![c] = "failed"]
             /\ UNCHANGED mst

\* Calls that get no meaningful answer; a crash of the daemon ends several.
LoseTouch(S) == /\ \A c \in S : ans[c] = "none"
                /\ \E a \in Vague :
                     ans' = [c \in Call |-> IF c \in S THEN a ELSE ans[c]]
                /\ UNCHANGED mst

Next == \/ \E c \in Call : Decline(c) \/ Submit(c) \/ Settle(c) \/ Report(c)
        \/ \E S \in SUBSET Call : LoseTouch(S)

Spec == Init /\ [][Next]_vars

\* What an answer tells its reader.
Truthful ==
  \A c \in Call :
    /\ ans[c] \in {"ok", "unread"} => mst[c] = "ok"
    /\ ans[c] = "failed"           => mst[c] = "error"
    /\ ans[c] \in Declined         => mst[c] = "none"

\* And what it tells him once it tells him always: the answer is not taken back,
\* and neither is what it says of the message.
Lasting ==
  \A c \in Call :
    /\ [](ans[c] \in {"ok", "unread"} => [](mst[c] = "ok"))
    /\ [](ans[c] = "failed"           => [](mst[c] = "error"))
    /\ [](ans[c] \in Declined         => [](mst[c] = "none"))
=============================================================================
