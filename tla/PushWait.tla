------------------------------ MODULE PushWait ------------------------------
(***************************************************************************)
(* The frame of every handler of ServiceImpl that changes chain state: it  *)
(* reads what it needs from the node, refuses the request or pushes ONE    *)
(* message through sophon-messager, and waits until the message is chained *)
(* (PushMessageAndWait, service/impl.go).  Each request runs in its own    *)
(* gin goroutine, so the steps of different calls interleave freely.       *)
(*                                                                         *)
(* This module has the control of the frame only.  What is read, checked   *)
(* and sent, and what the message does, belong to the modules that extend  *)
(* this one: an action of theirs is a conjunct of an action of this one.   *)
(***************************************************************************)
CONSTANT Call            \* the calls made to the daemon

VARIABLES pc,            \* where the goroutine serving the call is
          mst,           \* the message of the call, in messager and on chain
          ans            \* the answer the caller got

pwvars == <<pc, mst, ans>>

PC == INSTANCE PushCall  \* the promise, over the same mst and ans

Prep == {"read", "check"}                       \* before the push
Live == Prep \cup {"push", "wait", "after"}     \* the handler is running
Step == Live \cup {"idle", "done"}

PWTypeOK == /\ pc \in [Call -> Step]
            /\ mst \in [Call -> PC!MsgState]
            /\ ans \in [Call -> PC!Answer]

PWInit == /\ pc = [c \in Call |-> "idle"]
          /\ mst = [c \in Call |-> "none"]
          /\ ans = [c \in Call |-> "none"]
-----------------------------------------------------------------------------
Goto(c, from, to) == pc[c] = from /\ pc' = [pc EXCEPT ![c] = to]

\* The handler returns, and the caller gets answer a.
Return(c, a) == /\ pc' = [pc EXCEPT ![c] = "done"]
                /\ ans' = [ans EXCEPT ![c] = a]

Start(c) == Goto(c, "idle", "read") /\ UNCHANGED <<mst, ans>>

ReadMore(c) == Goto(c, "read", "check") /\ UNCHANGED <<mst, ans>>

\* A check of the handler fails, or a call of its own to a service does.
Decline(c, a) == /\ pc[c] \in Prep /\ a \in PC!Declined
                 /\ Return(c, a)
                 /\ UNCHANGED mst

Ready(c) == /\ pc[c] \in Prep
            /\ pc' = [pc EXCEPT ![c] = "push"]
            /\ UNCHANGED <<mst, ans>>

\* Messager.PushMessage hands back an id: the message is stored.
PushOk(c) == /\ Goto(c, "push", "wait")
             /\ mst' = [mst EXCEPT ![c] = "pooled"]
             /\ UNCHANGED ans

\* What is left to answer when PushMessageAndWait returns (nil, err): the miner
\* handlers format msg.ID, so they panic, and gin's Recovery answers for them;
\* the others return the error, which leaves the message in doubt.
InDoubt == {"panic", "doubt"}

\* Messager.PushMessage returns an error: the message was not stored, or it was
\* and the reply was lost.
PushFails(c, a) == /\ pc[c] = "push" /\ a \in InDoubt
                   /\ Return(c, a)
                   /\ \E s \in {"none", "pooled"} : mst' = [mst EXCEPT ![c] = s]

\* MsgWait returns a receipt with exit code Ok: the handler is done ...
WaitOk(c) == /\ pc[c] = "wait" /\ mst[c] = "ok"
             /\ Return(c, "ok")
             /\ UNCHANGED mst

\* ... or reads the state again for its answer.
WaitOkThen(c) == mst[c] = "ok" /\ Goto(c, "wait", "after") /\ UNCHANGED <<mst, ans>>

\* Mutant: the exit code is not looked at.
WaitAnyExit(c) == /\ pc[c] = "wait" /\ mst[c] = "error"
                  /\ Return(c, "ok")
                  /\ UNCHANGED mst

\* MsgWait returns a receipt with another exit code: ret is not nil.
WaitExit(c) == /\ pc[c] = "wait" /\ mst[c] = "error"
               /\ Return(c, "failed")
               /\ UNCHANGED mst

\* MsgWait returns an error: the message failed, or the call to messager did.
WaitFails(c, a) == /\ pc[c] = "wait" /\ a \in InDoubt
                   /\ Return(c, a)
                   /\ UNCHANGED mst

AnswerAfter(c) == /\ pc[c] = "after"
                  /\ Return(c, "ok")
                  /\ UNCHANGED mst

AfterFails(c) == /\ pc[c] = "after"
                 /\ Return(c, "unread")
                 /\ UNCHANGED mst

\* The message leaves the pool: executed ("ok" or "error"), or given up by
\* messager or by the operator ("failed").  Nobody needs to be waiting for it.
Settle(c, s) == /\ mst[c] = "pooled" /\ s \in {"ok", "error", "failed"}
                /\ mst' = [mst EXCEPT ![c] = s]
                /\ UNCHANGED <<pc, ans>>

\* The daemon stops.  It keeps nothing, so its calls are over and their callers
\* see a broken connection; the messages stay where they are.
Crash == /\ \E c \in Call : pc[c] \in Live
         /\ pc' = [c \in Call |-> IF pc[c] \in Live THEN "done" ELSE pc[c]]
         /\ ans' = [c \in Call |-> IF pc[c] \in Live THEN "lost" ELSE ans[c]]
         /\ UNCHANGED mst

\* A message in flight, or a handler that may still push one.
Busy(c) == pc[c] \in Live \/ mst[c] = "pooled"

\* Which calls have overlapped with no other so far, once c begins: what one
\* operator sees who lets the message of each command settle.
Overlap(c, alone) == [d \in Call |-> IF d = c THEN \A e \in Call : ~Busy(e)
                                     ELSE alone[d] /\ ~Busy(d)]

Reply(c) == \/ \E a \in PC!Declined : Decline(c, a)
            \/ \E a \in InDoubt : PushFails(c, a) \/ WaitFails(c, a)
            \/ PushOk(c) \/ WaitOk(c) \/ WaitOkThen(c) \/ WaitExit(c)
            \/ AnswerAfter(c) \/ AfterFails(c)

PWNext == \/ \E c \in Call : \/ Start(c) \/ ReadMore(c) \/ Ready(c) \/ Reply(c)
                             \/ \E s \in PC!MsgState : Settle(c, s)
          \/ Crash

PWSpec == PWInit /\ [][PWNext]_pwvars
-----------------------------------------------------------------------------
\* Where a call is, its message and its answer agree.  (The inductive invariant
\* of this module.)
Phases ==
  \A c \in Call :
    /\ pc[c] = "done" <=> ans[c] # "none"
    /\ pc[c] \in Prep \cup {"idle", "push"} => mst[c] = "none"
    /\ pc[c] = "wait" => mst[c] # "none"
    /\ pc[c] = "after" => mst[c] = "ok"

\* Every call keeps the promise of PushCall in every interleaving: no error met
\* before the push is followed by a message, and no success is reported for a
\* message that is not on chain with exit code Ok (PushMessageAndWait).
KeepsPromise == PC!Spec

=============================================================================
