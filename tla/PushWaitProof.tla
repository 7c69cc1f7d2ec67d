--------------------------- MODULE PushWaitProof ---------------------------
(***************************************************************************)
(* The frame of the handlers keeps the promise of PushCall, for every set  *)
(* of calls.                                                               *)
(***************************************************************************)
EXTENDS PushWait, TLAPS

PWInv == PWTypeOK /\ Phases

USE DEF Prep, Live, Step, PC!MsgState, PC!Answer, PC!Declined, PC!Vague, InDoubt

LEMMA PWInitInv == PWInit => PWInv
  BY DEF PWInit, PWInv, PWTypeOK, Phases

\* One action of the frame at a time keeps every call's place, message and
\* answer in agreement.
LEMMA PWStepInv == PWInv /\ [PWNext]_pwvars => PWInv'
<1> SUFFICES ASSUME PWInv, [PWNext]_pwvars PROVE PWInv'
  OBVIOUS
<1> USE DEF PWInv, PWTypeOK, Phases
<1>1. ASSUME NEW c \in Call, Start(c) \/ ReadMore(c) \/ Ready(c) PROVE PWInv'
  BY <1>1 DEF Start, ReadMore, Ready, Goto
<1>2. ASSUME NEW c \in Call, NEW a \in PC!Declined, Decline(c, a) PROVE PWInv'
  BY <1>2 DEF Decline, Return
<1>3. ASSUME NEW c \in Call, NEW a \in InDoubt, PushOk(c) \/ PushFails(c, a)
      PROVE  PWInv'
  BY <1>3 DEF PushOk, PushFails, Goto, Return
<1>4. ASSUME NEW c \in Call, WaitOk(c) \/ WaitOkThen(c) PROVE PWInv'
  BY <1>4 DEF WaitOk, WaitOkThen, Goto, Return
<1>5. ASSUME NEW c \in Call, NEW a \in InDoubt, WaitExit(c) \/ WaitFails(c, a)
      PROVE  PWInv'
  BY <1>5 DEF WaitExit, WaitFails, Return
<1>6. ASSUME NEW c \in Call, AnswerAfter(c) \/ AfterFails(c) PROVE PWInv'
  BY <1>6 DEF AnswerAfter, AfterFails, Return
<1>7. ASSUME NEW c \in Call, NEW s \in PC!MsgState, Settle(c, s) PROVE PWInv'
  BY <1>7 DEF Settle
<1>8. CASE Crash
  BY <1>8 DEF Crash
<1>9. CASE UNCHANGED pwvars
  BY <1>9 DEF pwvars
<1> QED
  BY <1>1, <1>2, <1>3, <1>4, <1>5, <1>6, <1>7, <1>8, <1>9 DEF PWNext, Reply

\* PushWait: the phases of PushMessageAndWait, its message and its answer agree
\* at all times.
THEOREM PWInvariance == PWSpec => []PWInv
  BY PWInitInv, PWStepInv, PTL DEF PWSpec

-----------------------------------------------------------------------------
\* Every step of the frame is a step of the promise, or changes nothing in it.
LEMMA PWStepPromise == PWInv /\ [PWNext]_pwvars => [PC!Next]_(PC!vars)
<1> SUFFICES ASSUME PWInv, [PWNext]_pwvars PROVE [PC!Next]_(PC!vars)
  OBVIOUS
<1> USE DEF PWInv, PWTypeOK, Phases
<1>1. ASSUME NEW c \in Call, Start(c) \/ ReadMore(c) \/ Ready(c) \/ WaitOkThen(c)
      PROVE  UNCHANGED PC!vars
  BY <1>1 DEF Start, ReadMore, Ready, WaitOkThen, PC!vars
<1>2. ASSUME NEW c \in Call, NEW a \in PC!Declined, Decline(c, a)
      PROVE  PC!Decline(c)
  BY <1>2 DEF Decline, Return, PC!Decline
<1>3. ASSUME NEW c \in Call, PushOk(c) PROVE PC!Submit(c)
  BY <1>3 DEF PushOk, Goto, PC!Submit
<1>4. ASSUME NEW c \in Call, NEW a \in InDoubt, PushFails(c, a)
      PROVE  PC!Submit(c) \/ PC!LoseTouch({c})
  <2>1. PICK s \in {"none", "pooled"} : mst' = [mst EXCEPT ![c] = s]
    BY <1>4 DEF PushFails
  <2>2. ans[c] = "none" /\ mst[c] = "none" /\ ans' = [ans EXCEPT ![c] = a]
    BY <1>4 DEF PushFails, Return
  <2>3. CASE s = "pooled"
    BY <2>1, <2>2, <2>3 DEF PC!Submit
  <2>4. CASE s = "none"
    BY <2>1, <2>2, <2>4 DEF PC!LoseTouch
  <2> QED
    BY <2>1, <2>3, <2>4
<1>5. ASSUME NEW c \in Call, WaitOk(c) \/ WaitExit(c) \/ AnswerAfter(c) \/ AfterFails(c)
      PROVE  PC!Report(c)
  BY <1>5 DEF WaitOk, WaitExit, AnswerAfter, AfterFails, Return, PC!Report
<1>6. ASSUME NEW c \in Call, NEW a \in InDoubt, WaitFails(c, a) PROVE PC!LoseTouch({c})
  BY <1>6 DEF WaitFails, Return, PC!LoseTouch
<1>7. ASSUME NEW c \in Call, NEW s \in PC!MsgState, Settle(c, s)
      PROVE  PC!Settle(c)
  BY <1>7 DEF Settle, PC!Settle
<1>8. ASSUME Crash PROVE PC!LoseTouch({c \in Call : pc[c] \in Live})
  BY <1>8 DEF Crash, PC!LoseTouch
<1> HIDE DEF PWInv, PWTypeOK, Phases
<1>9. CASE UNCHANGED pwvars
  BY <1>9 DEF pwvars, PC!vars
<1> QED
  BY <1>1, <1>2, <1>3, <1>4, <1>5, <1>6, <1>7, <1>8, <1>9
     DEF PWNext, Reply, PC!Next

\* Every handler built on PushMessageAndWait keeps the promise of PushCall.
THEOREM PWKeepsPromise == PWSpec => KeepsPromise
<1>1. PWInit => PC!Init
  BY DEF PWInit, PC!Init
<1> QED
  BY <1>1, PWInvariance, PWStepPromise, PTL DEF PWSpec, KeepsPromise, PC!Spec

-----------------------------------------------------------------------------
LEMMA PCStepTruthful ==
  PC!TypeOK /\ PC!Truthful /\ [PC!Next]_(PC!vars) => PC!TypeOK' /\ PC!Truthful'
<1> SUFFICES ASSUME PC!TypeOK, PC!Truthful, [PC!Next]_(PC!vars)
             PROVE  PC!TypeOK' /\ PC!Truthful'
  OBVIOUS
<1> USE DEF PC!TypeOK, PC!Truthful
<1>1. ASSUME NEW c \in Call, PC!Decline(c) \/ PC!Report(c)
      PROVE  PC!TypeOK' /\ PC!Truthful'
  BY <1>1 DEF PC!Decline, PC!Report
<1>2. ASSUME NEW c \in Call, PC!Submit(c) \/ PC!Settle(c)
      PROVE  PC!TypeOK' /\ PC!Truthful'
  BY <1>2 DEF PC!Submit, PC!Settle
<1>3. ASSUME NEW S \in SUBSET Call, PC!LoseTouch(S)
      PROVE  PC!TypeOK' /\ PC!Truthful'
  BY <1>3 DEF PC!LoseTouch
<1>4. CASE UNCHANGED PC!vars
  BY <1>4 DEF PC!vars
<1> QED
  BY <1>1, <1>2, <1>3, <1>4 DEF PC!Next

LEMMA PCInvariance == PC!Spec => [](PC!TypeOK /\ PC!Truthful)
<1>1. PC!Init => PC!TypeOK /\ PC!Truthful
  BY DEF PC!Init, PC!TypeOK, PC!Truthful
<1> QED
  BY <1>1, PCStepTruthful, PTL DEF PC!Spec

\* What the promise is worth: whatever happens to the message, an answer is true
\* of it.
THEOREM PromiseIsTruthful == PC!Spec => []PC!Truthful
  BY PCInvariance, PTL

\* An answer is given once: a call that has one keeps it.
LEMMA PCAnswersOnce ==
  ASSUME NEW c \in Call, PC!TypeOK, [PC!Next]_(PC!vars), ans[c] # "none"
  PROVE  ans'[c] = ans[c]
<1> USE DEF PC!TypeOK
<1>1. ASSUME NEW d \in Call, PC!Decline(d) \/ PC!Submit(d) \/ PC!Settle(d) \/ PC!Report(d)
      PROVE  ans'[c] = ans[c]
  BY <1>1 DEF PC!Decline, PC!Submit, PC!Settle, PC!Report
<1>2. ASSUME NEW S \in SUBSET Call, PC!LoseTouch(S) PROVE ans'[c] = ans[c]
  BY <1>2 DEF PC!LoseTouch
<1> QED
  BY <1>1, <1>2 DEF PC!Next, PC!vars

\* So an answer stays true: after a success the message of the call is on chain
\* with exit code Ok for ever, after "exec messager failed" with another one, and
\* after an error met before the push there will never be a message.
THEOREM PromiseLasts == PC!Spec => PC!Lasting
<1>1. ASSUME NEW c \in Call
      PROVE  PC!Spec => /\ [](ans[c] \in {"ok", "unread"} => [](mst[c] = "ok"))
                        /\ [](ans[c] = "failed"           => [](mst[c] = "error"))
                        /\ [](ans[c] \in PC!Declined      => [](mst[c] = "none"))
  <2>1. PC!Truthful => /\ ans[c] \in {"ok", "unread"} => mst[c] = "ok"
                       /\ ans[c] = "failed"           => mst[c] = "error"
                       /\ ans[c] \in PC!Declined      => mst[c] = "none"
    BY DEF PC!Truthful
  <2>2. PC!TypeOK /\ [PC!Next]_(PC!vars) =>
          /\ ans[c] \in {"ok", "unread"} => (ans[c] \in {"ok", "unread"})'
          /\ ans[c] = "failed"           => (ans[c] = "failed")'
          /\ ans[c] \in PC!Declined      => (ans[c] \in PC!Declined)'
    BY PCAnswersOnce DEF PC!Declined
  <2> QED
    BY <2>1, <2>2, PCInvariance, PTL DEF PC!Spec
<1> QED
  BY <1>1 DEF PC!Lasting

\* Every call of the frame gets an answer that stays true.
THEOREM PWAnswersLast == PWSpec => PC!Lasting
  BY PWKeepsPromise, PromiseLasts DEF KeepsPromise
=============================================================================
