-------------------------- MODULE MinerWorkerProof --------------------------
(***************************************************************************)
(* What MinerWorker keeps for every set of calls and addresses, every      *)
(* delay and every height.                                                 *)
(***************************************************************************)
EXTENDS MinerWorker, PushWaitProof

\* The handler of c has built its message.
Committed(c) == pc[c] \in {"push", "wait", "after"} \/ mst[c] # "none"

\* What a call remembers is what its checks and its message were made of.
Prepared ==
  \A c \in Call :
    /\ pc[c] = "check" => req[c].kind = "confirm"
    /\ pc[c] = "check" \/ (Committed(c) /\ req[c].kind = "confirm") =>
         snap[c].newWorker = req[c].worker /\ req[c].worker # NoAddr
    /\ Committed(c) =>
         /\ req[c].kind = "set" =>
              /\ param[c] = [worker |-> IdOf[req[c].worker],
                             controllers |-> snap[c].controllers]
              /\ IdOf[req[c].worker] \notin {snap[c].worker, snap[c].newWorker}
         /\ req[c].kind = "controllers" =>
              param[c] = [worker |-> snap[c].worker,
                          controllers |-> IdsOf(req[c].controllers)]
         /\ req[c].kind = "confirm" => head >= snap[c].changeEpoch

\* A stale snapshot, too, holds only addresses asked for.
SnapsAccounted == \A c \in Call : /\ snap[c].worker \in Workers
                                  /\ snap[c].controllers \in Lists

\* A call that overlaps with no other is the only one in flight, and what it
\* read is still so until its message is settled.
LoneSnaps ==
  \A c \in Call : alone[c] =>
    /\ Busy(c) => \A d \in Call : Busy(d) => d = c
    /\ pc[c] \in {"check", "push"} \/ mst[c] = "pooled" => snap[c] = miner

IInv == TypeOK /\ Phases /\ Prepared /\ Accounted /\ SnapsAccounted /\ LoneSnaps
-----------------------------------------------------------------------------
(* The data. *)

LEMMA IdsOfType ==
  ASSUME NEW l \in Seq(Address), Known(l)
  PROVE  IdsOf(l) \in Seq(Id)
<1>1. \A i \in 1..Len(l) : IdOf[l[i]] \in Id
  BY AddressAssumption DEF Known
<1> QED
  BY <1>1 DEF IdsOf

LEMMA RequestsType == Requests \subseteq Request
  BY ArgsAssumption DEF Requests, Request

LEMMA Miner0Type == Miner0 \in MinerInfo
  BY ArgsAssumption DEF Miner0, MinerInfo

LEMMA ExecutionType ==
  ASSUME miner \in MinerInfo, head \in Nat
  PROVE  /\ ConfirmChangeWorker \in MinerInfo
         /\ \A p \in Param : ChangeWorkerAddress(p) \in MinerInfo
<1>1. ConfirmChangeWorker \in MinerInfo
  <2>1. CASE miner.newWorker # NoAddr
    <3>1. miner.newWorker \in Id
      BY <2>1 DEF MinerInfo
    <3>2. -1 \in Int
      OBVIOUS
    <3>3. [miner EXCEPT !.worker = miner.newWorker, !.newWorker = NoAddr,
                        !.changeEpoch = -1] \in MinerInfo
      BY <3>1, <3>2 DEF MinerInfo
    <3> QED
      BY <3>3 DEF ConfirmChangeWorker
  <2>2. CASE miner.newWorker = NoAddr
    BY <2>2 DEF ConfirmChangeWorker
  <2> QED
    BY <2>1, <2>2
<1>2. ASSUME NEW p \in Param PROVE ChangeWorkerAddress(p) \in MinerInfo
  <2>1. head + Delay \in Int
    BY BoundAssumption
  <2> QED
    BY <2>1 DEF ChangeWorkerAddress, MinerInfo, Param
<1> QED
  BY <1>1, <1>2
-----------------------------------------------------------------------------
(* The frame: every step of MinerWorker is one of PushWait. *)

LEMMA FrameStep == [Next]_vars => [PWNext]_pwvars
<1> SUFFICES ASSUME [Next]_vars PROVE [PWNext]_pwvars
  OBVIOUS
<1>1. ASSUME NEW c \in Call, Begin(c) PROVE PWNext
  BY <1>1 DEF Begin, PWNext
<1>2. ASSUME NEW c \in Call, Handler(c) PROVE PWNext
  <2>1. \/ \E a \in PC!Declined : Decline(c, a)
        \/ ReadMore(c) \/ Ready(c)
        \/ PushOk(c) \/ PushFails(c, "panic")
        \/ WaitOk(c) \/ WaitOkThen(c) \/ WaitExit(c) \/ WaitFails(c, "panic")
        \/ AnswerAfter(c) \/ AfterFails(c)
    BY <1>2 DEF Handler, ReadFails, SetWorkerRefused, SetWorkerChecked,
         ConfirmRefused, ConfirmNamed, ConfirmTooEarly, ConfirmChecked,
         ControllersRefused, ControllersChecked, Push, Wait, ReadEpoch,
         PC!Declined
  <2> QED
    BY <2>1 DEF PWNext, Reply, InDoubt
<1>3. ASSUME NEW c \in Call, Chain(c) PROVE PWNext
  <2>1. \E s \in PC!MsgState : Settle(c, s)
    BY <1>3 DEF Chain, Execute, NotExecuted, PC!MsgState
  <2> QED
    BY <2>1 DEF PWNext
<1>4. CASE Tick
  BY <1>4 DEF Tick
<1>5. CASE DaemonCrash
  BY <1>5 DEF DaemonCrash, PWNext
<1>6. CASE UNCHANGED vars
  BY <1>6 DEF vars
<1> QED
  BY <1>1, <1>2, <1>3, <1>4, <1>5, <1>6 DEF Next

\* The worker and controllers handlers keep the promise of PushCall.
THEOREM MWKeepsPromise == Spec => KeepsPromise
<1>1. Init => PWInit
  BY DEF Init
<1> QED
  BY <1>1, FrameStep, PWKeepsPromise, PTL DEF Spec, PWSpec
-----------------------------------------------------------------------------
(* Type correctness. *)

LEMMA TypeInit == Init => TypeOK
  BY PWInitInv, Miner0Type, ArgsAssumption
     DEF Init, TypeOK, PWInv, Request, Param

LEMMA TypeStep == TypeOK /\ Phases /\ [Next]_vars => TypeOK'
<1> SUFFICES ASSUME TypeOK, Phases, [Next]_vars PROVE TypeOK'
  OBVIOUS
<1>1. PWTypeOK'
  BY FrameStep, PWStepInv DEF PWInv, TypeOK
<1> USE <1>1 DEF TypeOK
<1>2. ASSUME NEW c \in Call, Begin(c) PROVE TypeOK'
  BY <1>2, RequestsType DEF Begin, Overlap
<1>3. ASSUME NEW c \in Call, Handler(c) PROVE TypeOK'
  <2>1. CASE UNCHANGED mwvars
    BY <2>1 DEF mwvars
  <2>2. CASE Read(c) /\ UNCHANGED param
    BY <2>2 DEF Read
  <2>3. CASE SetWorkerChecked(c)
    <3>1. IdOf[req[c].worker] \in Id /\ miner.controllers \in Seq(Id)
      <4>1. req[c].worker \in Address /\ miner.controllers \in Seq(Id)
        BY <2>3 DEF SetWorkerChecked, MinerInfo, Is, Request
      <4> QED
        BY <2>3, <4>1, AddressAssumption DEF SetWorkerChecked
    <3> QED
      BY <2>3, <3>1 DEF SetWorkerChecked, Read, Param
  <2>4. CASE ControllersChecked(c)
    <3>1. req[c].controllers \in Seq(Address) /\ miner.worker \in Id
      BY <2>4 DEF ControllersChecked, Is, Request, MinerInfo
    <3>2. IdsOf(req[c].controllers) \in Seq(Id)
      BY <2>4, <3>1, IdsOfType DEF ControllersChecked
    <3> QED
      BY <2>4, <3>1, <3>2 DEF ControllersChecked, Read, Param
  <2> QED
    BY <1>3, <2>1, <2>2, <2>3, <2>4
       DEF Handler, ReadFails, SetWorkerRefused, ConfirmRefused, ConfirmNamed,
         ConfirmTooEarly, ConfirmChecked, ControllersRefused, Push, Wait, ReadEpoch
<1>4. ASSUME NEW c \in Call, Chain(c) PROVE TypeOK'
  BY <1>4, ExecutionType DEF Chain, Execute, NotExecuted, mwvars
<1>5. CASE Tick
  BY <1>5 DEF Tick
<1>6. CASE DaemonCrash
  BY <1>6 DEF DaemonCrash, mwvars
<1>7. CASE UNCHANGED vars
  BY <1>7 DEF vars, mwvars
<1> QED
  BY <1>2, <1>3, <1>4, <1>5, <1>6, <1>7 DEF Next
-----------------------------------------------------------------------------
(* What no step takes back. *)

\* A call keeps its request, and an executed message stays executed.
LEMMA Kept ==
  ASSUME TypeOK, Phases, [Next]_vars, NEW c \in Call
  PROVE  /\ pc[c] # "idle" => pc'[c] # "idle" /\ req'[c] = req[c]
         /\ mst[c] = "ok" => mst'[c] = "ok" /\ req'[c] = req[c]
<1> USE DEF TypeOK, PWTypeOK, Phases, Prep, Live, Step
<1>1. ASSUME NEW d \in Call, Begin(d)
      PROVE  /\ pc[c] # "idle" => pc'[c] # "idle" /\ req'[c] = req[c]
             /\ mst[c] = "ok" => mst'[c] = "ok" /\ req'[c] = req[c]
  BY <1>1 DEF Begin, Start, Goto
<1>2. CASE UNCHANGED req
  <2>1. [PWNext]_pwvars
    BY FrameStep
  <2>2. pc[c] # "idle" => pc'[c] # "idle"
    BY <2>1 DEF PWNext, pwvars, Start, ReadMore, Ready, Reply, Decline, PushOk,
      PushFails, WaitOk, WaitOkThen, WaitExit, WaitFails, AnswerAfter,
      AfterFails, Settle, Crash, Goto, Return
  <2>3. mst[c] = "ok" => mst'[c] = "ok"
    BY <2>1 DEF PWNext, pwvars, Start, ReadMore, Ready, Reply, Decline, PushOk,
      PushFails, WaitOk, WaitOkThen, WaitExit, WaitFails, AnswerAfter,
      AfterFails, Settle, Crash, Goto, Return
  <2> QED
    BY <1>2, <2>2, <2>3
<1>3. (\E d \in Call : Begin(d)) \/ UNCHANGED req
  BY DEF Next, Handler, ReadFails, SetWorkerRefused, SetWorkerChecked,
    ConfirmRefused, ConfirmNamed, ConfirmTooEarly, ConfirmChecked,
    ControllersRefused, ControllersChecked, Push, Wait, ReadEpoch, Read,
    Chain, Execute, NotExecuted, Tick, DaemonCrash, mwvars, vars
<1> QED
  BY <1>1, <1>2, <1>3

\* So what has been asked for only grows.
LEMMA Grows ==
  ASSUME TypeOK, Phases, [Next]_vars
  PROVE  Workers \subseteq Workers' /\ Lists \subseteq Lists'
<1>1. \A c \in Call : mst[c] = "ok" => mst'[c] = "ok" /\ req'[c] = req[c]
  BY Kept
<1>2. Workers \subseteq Workers'
  BY <1>1 DEF Workers, Done
<1>3. Lists \subseteq Lists'
  BY <1>1 DEF Lists, Done, IdsOf
<1> QED
  BY <1>2, <1>3
-----------------------------------------------------------------------------
(* The inductive step, one conjunct at a time. *)

LEMMA PreparedStep == IInv /\ [Next]_vars => Prepared'
<1> SUFFICES ASSUME IInv, [Next]_vars PROVE Prepared'
  OBVIOUS
<1> USE DEF IInv, TypeOK, PWTypeOK, Phases, Prepared, Committed, Prep, Live, Step
<1>1. ASSUME NEW c \in Call, Begin(c) PROVE Prepared'
  BY <1>1 DEF Begin, Start, Goto
<1>2. ASSUME NEW c \in Call, ReadFails(c) \/ SetWorkerRefused(c) \/ ConfirmRefused(c)
                              \/ ConfirmTooEarly(c) \/ ControllersRefused(c)
      PROVE  Prepared'
  BY <1>2 DEF ReadFails, SetWorkerRefused, ConfirmRefused, ConfirmTooEarly,
    ControllersRefused, Decline, Return, Read, mwvars
<1>3. ASSUME NEW c \in Call, SetWorkerChecked(c) PROVE Prepared'
  BY <1>3 DEF SetWorkerChecked, NewWorkerIsOld, Is, Ready, Read
<1>4. ASSUME NEW c \in Call, ConfirmNamed(c) PROVE Prepared'
  <2>1. req[c].worker # NoAddr
    BY <1>4 DEF ConfirmNamed, Named
  <2> QED
    BY <1>4, <2>1 DEF ConfirmNamed, Named, Is, ReadMore, Goto, Read
<1>5. ASSUME NEW c \in Call, ConfirmChecked(c) PROVE Prepared'
  BY <1>5 DEF ConfirmChecked, Ready, mwvars
<1>6. ASSUME NEW c \in Call, ControllersChecked(c) PROVE Prepared'
  BY <1>6 DEF ControllersChecked, Is, Ready, Read
<1>7. ASSUME NEW c \in Call, Push(c) PROVE Prepared'
  BY <1>7 DEF Push, PushOk, PushFails, Goto, Return, mwvars
<1>8. ASSUME NEW c \in Call, Wait(c) \/ ReadEpoch(c) PROVE Prepared'
  BY <1>8 DEF Wait, ReadEpoch, WaitOk, WaitOkThen, WaitExit, WaitFails,
    AnswerAfter, AfterFails, Goto, Return, mwvars
<1>9. ASSUME NEW c \in Call, Chain(c) PROVE Prepared'
  BY <1>9 DEF Chain, Execute, NotExecuted, Settle, mwvars
<1>10. CASE Tick
  <2>1. \A c \in Call : snap[c].changeEpoch \in Int
    BY DEF MinerInfo
  <2>2. \A c \in Call : head >= snap[c].changeEpoch => head' >= snap[c].changeEpoch
    BY <1>10, <2>1 DEF Tick
  <2> QED
    BY <1>10, <2>2 DEF Tick, pwvars
<1>11. CASE DaemonCrash
  BY <1>11 DEF DaemonCrash, Crash, mwvars
<1>12. CASE UNCHANGED vars
  BY <1>12 DEF vars, pwvars, mwvars
<1> QED
  BY <1>1, <1>2, <1>3, <1>4, <1>5, <1>6, <1>7, <1>8, <1>9, <1>10, <1>11, <1>12
     DEF Next, Handler

\* The snapshots are of the miner as it was, and what was accounted for is.
LEMMA SnapsStep == IInv /\ [Next]_vars => SnapsAccounted'
<1> SUFFICES ASSUME IInv, [Next]_vars PROVE SnapsAccounted'
  OBVIOUS
<1>1. Workers \subseteq Workers' /\ Lists \subseteq Lists'
  BY Grows DEF IInv
<1>2. UNCHANGED snap \/ \E c \in Call : snap' = [snap EXCEPT ![c] = miner]
  BY DEF Next, Begin, Handler, ReadFails, SetWorkerRefused, SetWorkerChecked,
    ConfirmRefused, ConfirmNamed, ConfirmTooEarly, ConfirmChecked,
    ControllersRefused, ControllersChecked, Push, Wait, ReadEpoch, Read,
    Chain, Execute, NotExecuted, Tick, DaemonCrash, mwvars, vars
<1>3. miner.worker \in Workers' /\ miner.controllers \in Lists'
  BY <1>1 DEF IInv, Accounted
<1>4. ASSUME NEW d \in Call
      PROVE  snap'[d].worker \in Workers' /\ snap'[d].controllers \in Lists'
  <2>1. snap'[d] \in {snap[d], miner}
    BY <1>2 DEF IInv, TypeOK
  <2> QED
    BY <1>1, <1>3, <2>1 DEF IInv, SnapsAccounted
<1> QED
  BY <1>4 DEF SnapsAccounted

\* Only the execution of a message changes the miner.
LEMMA MinerChanges ==
  [Next]_vars => miner' = miner \/ \E c \in Call : Execute(c)
  BY DEF Next, Begin, Handler, ReadFails, SetWorkerRefused, SetWorkerChecked,
    ConfirmRefused, ConfirmNamed, ConfirmTooEarly, ConfirmChecked,
    ControllersRefused, ControllersChecked, Push, Wait, ReadEpoch, Read,
    Chain, NotExecuted, Tick, DaemonCrash, mwvars, vars

\* What a message does, given what its handler prepared.
LEMMA ExecuteEffect ==
  ASSUME IInv, NEW c \in Call, Execute(c)
  PROVE  /\ req[c].kind = "confirm" => miner' = ConfirmChangeWorker
         /\ req[c].kind = "set" =>
              miner' = ChangeWorkerAddress([worker |-> IdOf[req[c].worker],
                                            controllers |-> snap[c].controllers])
         /\ req[c].kind = "controllers" =>
              miner' = ChangeWorkerAddress([worker |-> snap[c].worker,
                                            controllers |-> IdsOf(req[c].controllers)])
  BY DEF Execute, Settle, IInv, Prepared, Committed

\* ChangeWorkerAddress brings nothing into the miner but what it is given.
LEMMA ChangeKeeps ==
  ASSUME NEW p \in Param, miner \in MinerInfo
  PROVE  LET m == ChangeWorkerAddress(p)
         IN  /\ m.worker = miner.worker
             /\ m.newWorker \in {miner.newWorker, p.worker}
             /\ m.controllers = p.controllers
  BY DEF ChangeWorkerAddress, MinerInfo

LEMMA AccountedStep == IInv /\ [Next]_vars => Accounted'
<1> SUFFICES ASSUME IInv, [Next]_vars PROVE Accounted'
  OBVIOUS
<1>1. Workers \subseteq Workers' /\ Lists \subseteq Lists'
  BY Grows DEF IInv
<1>2. CASE miner' = miner
  BY <1>1, <1>2 DEF IInv, Accounted
<1>3. ASSUME NEW c \in Call, Execute(c) PROVE Accounted'
  <2>1. miner \in MinerInfo /\ req' = req /\ req[c] \in Request /\ mst'[c] = "ok"
    BY <1>3 DEF Execute, Settle, IInv, TypeOK, PWTypeOK
  <2>2. CASE req[c].kind = "confirm"
    BY <1>1, <1>3, <2>1, <2>2, ExecuteEffect
       DEF ConfirmChangeWorker, MinerInfo, IInv, Accounted
  <2>3. CASE req[c].kind = "set"
    <3>1. IdOf[req[c].worker] \in Workers'
      BY <2>1, <2>3 DEF Workers, Done
    <3>2. snap[c].controllers \in Lists'
      BY <1>1 DEF IInv, SnapsAccounted
    <3>3. [worker |-> IdOf[req[c].worker], controllers |-> snap[c].controllers] = param[c]
      BY <1>3, <2>3 DEF IInv, Prepared, Committed, Execute, Settle
    <3> QED
      BY <1>1, <1>3, <2>1, <2>3, <3>1, <3>2, <3>3, ChangeKeeps
         DEF Execute, IInv, TypeOK, Accounted
  <2>4. CASE req[c].kind = "controllers"
    <3>1. IdsOf(req[c].controllers) \in Lists'
      BY <2>1, <2>4 DEF Lists, Done, IdsOf
    <3>2. snap[c].worker \in Workers'
      BY <1>1 DEF IInv, SnapsAccounted
    <3>3. [worker |-> snap[c].worker, controllers |-> IdsOf(req[c].controllers)] = param[c]
      BY <1>3, <2>4 DEF IInv, Prepared, Committed, Execute, Settle
    <3> QED
      BY <1>1, <1>3, <2>1, <2>4, <3>1, <3>2, <3>3, ChangeKeeps
         DEF Execute, IInv, TypeOK, Accounted
  <2> QED
    BY <2>1, <2>2, <2>3, <2>4 DEF Request
<1> QED
  BY <1>2, <1>3, MinerChanges

LEMMA LoneSnapsStep == IInv /\ [Next]_vars => LoneSnaps'
<1> SUFFICES ASSUME IInv, [Next]_vars PROVE LoneSnaps'
  OBVIOUS
<1> USE DEF IInv, TypeOK, PWTypeOK, Phases, LoneSnaps, Busy, Prep, Live, Step
<1>1. ASSUME NEW c \in Call, Begin(c) PROVE LoneSnaps'
  BY <1>1 DEF Begin, Start, Goto, Overlap
<1>2. ASSUME NEW c \in Call, ReadFails(c) \/ SetWorkerRefused(c) \/ ConfirmRefused(c)
                              \/ ConfirmTooEarly(c) \/ ControllersRefused(c)
      PROVE  LoneSnaps'
  BY <1>2 DEF ReadFails, SetWorkerRefused, ConfirmRefused, ConfirmTooEarly,
    ControllersRefused, Decline, Return, Read, mwvars
<1>3. ASSUME NEW c \in Call, SetWorkerChecked(c) \/ ConfirmNamed(c)
                              \/ ControllersChecked(c)
      PROVE  LoneSnaps'
  BY <1>3 DEF SetWorkerChecked, ConfirmNamed, ControllersChecked, Is, Ready,
    ReadMore, Goto, Read
<1>4. ASSUME NEW c \in Call, ConfirmChecked(c) PROVE LoneSnaps'
  BY <1>4 DEF ConfirmChecked, Ready, mwvars
<1>5. ASSUME NEW c \in Call, Push(c) PROVE LoneSnaps'
  BY <1>5 DEF Push, PushOk, PushFails, Goto, Return, mwvars
<1>6. ASSUME NEW c \in Call, Wait(c) \/ ReadEpoch(c) PROVE LoneSnaps'
  BY <1>6 DEF Wait, ReadEpoch, WaitOk, WaitOkThen, WaitExit, WaitFails,
    AnswerAfter, AfterFails, Goto, Return, mwvars
<1>7. ASSUME NEW c \in Call, Chain(c) PROVE LoneSnaps'
  BY <1>7 DEF Chain, Execute, NotExecuted, Settle, mwvars
<1>8. CASE Tick
  BY <1>8 DEF Tick, pwvars
<1>9. CASE DaemonCrash
  BY <1>9 DEF DaemonCrash, Crash, mwvars
<1>10. CASE UNCHANGED vars
  BY <1>10 DEF vars, pwvars, mwvars
<1> QED
  BY <1>1, <1>2, <1>3, <1>4, <1>5, <1>6, <1>7, <1>8, <1>9, <1>10 DEF Next, Handler
-----------------------------------------------------------------------------
(* The theorems. *)

LEMMA IInvInit == Init => IInv
<1> SUFFICES ASSUME Init PROVE IInv
  OBVIOUS
<1>1. TypeOK /\ Phases
  BY TypeInit, PWInitInv DEF PWInv, Init
<1>2. Prepared
  BY DEF Init, PWInit, Prepared, Committed
<1>3. Accounted /\ SnapsAccounted
  BY DEF Init, Miner0, Accounted, SnapsAccounted, Workers, Lists
<1>4. LoneSnaps
  BY DEF Init, PWInit, LoneSnaps
<1> QED
  BY <1>1, <1>2, <1>3, <1>4 DEF IInv

LEMMA IInvStep == IInv /\ [Next]_vars => IInv'
<1> SUFFICES ASSUME IInv, [Next]_vars PROVE IInv'
  OBVIOUS
<1>1. TypeOK' /\ Phases'
  BY TypeStep, FrameStep, PWStepInv DEF IInv, TypeOK, PWInv
<1> QED
  BY <1>1, PreparedStep, AccountedStep, SnapsStep, LoneSnapsStep DEF IInv

THEOREM Invariance == Spec => []IInv
  BY IInvInit, IInvStep, PTL DEF Spec

\* Every value of the variables of MinerWorker is of its type.
THEOREM MWTypeCorrect == Spec => []TypeOK
<1>1. IInv => TypeOK
  BY DEF IInv
<1> QED
  BY <1>1, Invariance, PTL

\* No interleaving of set-worker, set-controllers and their confirmations puts
\* into the miner an address nobody asked for.
THEOREM MWAccounted == Spec => []Accounted
<1>1. IInv => Accounted
  BY DEF IInv
<1> QED
  BY <1>1, Invariance, PTL

\* A message is executed by nothing but the chain.
LEMMA ExecutedBy ==
  ASSUME IInv, [Next]_vars, NEW c \in Call, mst[c] = "pooled", mst'[c] = "ok"
  PROVE  Execute(c)
<1>1. Phases /\ mst \in [Call -> PC!MsgState]
  BY DEF IInv, TypeOK, PWTypeOK
<1>2. ASSUME NEW d \in Call, Handler(d) \/ Begin(d) PROVE mst'[c] = "pooled"
  BY <1>1, <1>2 DEF Begin, Start, Handler, ReadFails, SetWorkerRefused,
    SetWorkerChecked, ConfirmRefused, ConfirmNamed, ConfirmTooEarly,
    ConfirmChecked, ControllersRefused, ControllersChecked, Push, Wait,
    ReadEpoch, Decline, ReadMore, Ready, PushOk, PushFails, WaitOk, WaitOkThen,
    WaitExit, WaitFails, AnswerAfter, AfterFails, Phases, Goto
<1>3. ASSUME NEW d \in Call, Chain(d) PROVE Execute(c)
  BY <1>1, <1>3 DEF Chain, Execute, NotExecuted, Settle
<1> QED
  BY <1>2, <1>3 DEF Next, Tick, DaemonCrash, Crash, vars, pwvars

\* Nothing that happens between the checks of MinerConfirmWorker and the
\* execution of its message makes the confirmation of the proposal it checked
\* a silent no-op.
THEOREM MWConfirmIsRipe == Spec => ConfirmIsRipe
<1>1. IInv /\ [Next]_vars => [\A c \in Call : RipeStep(c)]_vars
  <2> SUFFICES ASSUME IInv, [Next]_vars, NEW c \in Call, Executed(c, "confirm"),
                      miner.newWorker = snap[c].newWorker,
                      miner.changeEpoch = snap[c].changeEpoch
               PROVE  miner'.worker = req[c].worker /\ miner'.newWorker = NoAddr
    BY DEF RipeStep
  <2>1. Execute(c) /\ req[c].kind = "confirm" /\ mst[c] = "pooled"
    BY ExecutedBy DEF Executed
  <2>2. /\ snap[c].newWorker = req[c].worker /\ req[c].worker # NoAddr
        /\ head >= snap[c].changeEpoch
    BY <2>1 DEF IInv, Prepared, Committed
  <2>3. miner' = ConfirmChangeWorker /\ miner \in MinerInfo
    BY <2>1, ExecuteEffect DEF IInv, TypeOK
  <2> QED
    BY <2>2, <2>3 DEF ConfirmChangeWorker, MinerInfo
<1> QED
  BY <1>1, Invariance, PTL DEF Spec, ConfirmIsRipe

-----------------------------------------------------------------------------
(* Commands that overlap with no other. *)

\* The message of such a command executes on the miner it was made for.
LEMMA AsRead ==
  ASSUME IInv, [Next]_vars, NEW c \in Call, alone[c],
         mst[c] = "pooled", mst'[c] = "ok"
  PROVE  Execute(c) /\ snap[c] = miner /\ Committed(c) /\ miner \in MinerInfo
  BY ExecutedBy DEF IInv, LoneSnaps, Committed, TypeOK

\* Then a confirmation that executes makes the worker it names the worker.
THEOREM MWConfirmMovesToNamed == Spec => ConfirmMovesToNamed
<1>1. IInv /\ [Next]_vars => [\A c \in Call : ConfirmStep(c)]_vars
  <2> SUFFICES ASSUME IInv, [Next]_vars, NEW c \in Call, alone[c],
                      Executed(c, "confirm")
               PROVE  miner' = [miner EXCEPT !.worker = req[c].worker,
                                             !.newWorker = NoAddr, !.changeEpoch = -1]
    BY DEF ConfirmStep
  <2>1. Execute(c) /\ snap[c] = miner /\ Committed(c) /\ req[c].kind = "confirm"
    BY AsRead DEF Executed
  <2>2. /\ miner.newWorker = req[c].worker /\ req[c].worker # NoAddr
        /\ head >= miner.changeEpoch
    BY <2>1 DEF IInv, Prepared
  <2> QED
    BY <2>1, <2>2, ExecuteEffect DEF ConfirmChangeWorker
<1> QED
  BY <1>1, Invariance, PTL DEF Spec, ConfirmMovesToNamed

\* And set-controllers touches nothing but the controllers.
THEOREM MWSetControllersKeepsWorker == Spec => SetControllersKeepsWorker
<1>1. IInv /\ [Next]_vars => [\A c \in Call : ControllersStep(c)]_vars
  <2> SUFFICES ASSUME IInv, [Next]_vars, NEW c \in Call, alone[c],
                      Executed(c, "controllers")
               PROVE  miner' = [miner EXCEPT !.controllers = IdsOf(req[c].controllers)]
    BY DEF ControllersStep
  <2>1. Execute(c) /\ snap[c] = miner /\ req[c].kind = "controllers"
    BY AsRead DEF Executed
  <2> QED
    BY <2>1, ExecuteEffect DEF ChangeWorkerAddress
<1> QED
  BY <1>1, Invariance, PTL DEF Spec, SetControllersKeepsWorker

\* And set-worker leaves the controllers alone.
THEOREM MWSetWorkerKeepsControllers == Spec => SetWorkerKeepsControllers
<1>1. IInv /\ [Next]_vars => [\A c \in Call : WorkerStep(c)]_vars
  <2> SUFFICES ASSUME IInv, [Next]_vars, NEW c \in Call, alone[c], Executed(c, "set")
               PROVE  miner'.controllers = miner.controllers
    BY DEF WorkerStep
  <2>1. /\ Execute(c) /\ snap[c] = miner /\ req[c].kind = "set"
        /\ miner \in MinerInfo /\ Committed(c)
    BY AsRead DEF Executed
  <2>2. param[c] \in Param /\ param[c].controllers = miner.controllers
    BY <2>1 DEF IInv, Prepared, TypeOK
  <2>3. miner' = ChangeWorkerAddress(param[c])
    BY <2>1 DEF Execute
  <2> QED
    BY <2>1, <2>2, <2>3, ChangeKeeps
<1> QED
  BY <1>1, Invariance, PTL DEF Spec, SetWorkerKeepsControllers

-----------------------------------------------------------------------------
(* What such a command is answered with. *)

\* What "success" says of the miner.  A set-worker: the worker that was given is
\* pending, if no other was when the handler looked; if another was, that one
\* still is, since the same epoch, and the worker that was given is nowhere.  A
\* confirmation: the worker that was given is the worker.  A set-controllers: the
\* controllers are those that were given.
AnswerIsSo(c) ==
  /\ req[c].kind = "set" /\ snap[c].newWorker = NoAddr =>
       miner.newWorker = IdOf[req[c].worker]
  /\ req[c].kind = "set" /\ snap[c].newWorker # NoAddr =>
       miner.newWorker = snap[c].newWorker /\ miner.changeEpoch = snap[c].changeEpoch
  /\ req[c].kind = "confirm" =>
       miner.worker = req[c].worker /\ miner.newWorker = NoAddr
  /\ req[c].kind = "controllers" =>
       miner.controllers = IdsOf(req[c].controllers)

\* The execution of a set-worker's message: a proposal, ripe Delay epochs later,
\* or nothing at all while another is pending.
ProposeStep(c) == alone[c] /\ Executed(c, "set") =>
  miner' = IF miner.newWorker = NoAddr
           THEN [miner EXCEPT !.newWorker = IdOf[req[c].worker],
                              !.changeEpoch = head + Delay]
           ELSE miner

\* A command executed and not answered yet.
Unanswered(c) == pc[c] \in {"wait", "after"} /\ mst[c] = "ok"

\* From its execution to its answer the miner does not change, so the epoch the
\* answer reads is the one that execution left behind.
StillStep(c) == alone[c] /\ Unanswered(c) => UNCHANGED miner

AnswerStep(c) == alone[c] /\ ans[c] = "none" /\ ans'[c] = "ok" => AnswerIsSo(c)

LoneAnswerIsSo ==
  [][\A c \in Call : ProposeStep(c) /\ StillStep(c) /\ AnswerStep(c)]_vars

\* From the execution of its message to its answer nothing changes that.
LoneDone ==
  \A c \in Call : alone[c] /\ Unanswered(c) => AnswerIsSo(c)

\* A set-worker whose message is executed on the miner it was made for proposes
\* its worker, or leaves the miner as it is while another is pending.
LEMMA LoneProposal ==
  ASSUME IInv, [Next]_vars, NEW c \in Call, alone[c], Execute(c), req[c].kind = "set"
  PROVE  miner' = IF miner.newWorker = NoAddr
                  THEN [miner EXCEPT !.newWorker = IdOf[req[c].worker],
                                     !.changeEpoch = head + Delay]
                  ELSE miner
<1>1. /\ snap[c] = miner /\ Committed(c) /\ miner \in MinerInfo
  BY DEF Execute, Settle, IInv, TypeOK, PWTypeOK, LoneSnaps, Committed
<1>2. /\ param[c] = [worker |-> IdOf[req[c].worker], controllers |-> miner.controllers]
      /\ IdOf[req[c].worker] # miner.worker
  BY <1>1 DEF IInv, Prepared
<1>3. miner' = ChangeWorkerAddress(param[c])
  BY DEF Execute
<1>4. CASE miner.newWorker = NoAddr
  <2>1. miner' = [miner EXCEPT !.controllers = miner.controllers,
                               !.newWorker = IdOf[req[c].worker],
                               !.changeEpoch = head + Delay]
    BY <1>2, <1>3, <1>4 DEF ChangeWorkerAddress
  <2>2. miner' = [miner EXCEPT !.newWorker = IdOf[req[c].worker],
                               !.changeEpoch = head + Delay]
    BY <1>1, <2>1 DEF MinerInfo
  <2> QED
    BY <1>4, <2>2
<1>5. CASE miner.newWorker # NoAddr
  <2>1. miner' = [miner EXCEPT !.controllers = miner.controllers]
    BY <1>2, <1>3, <1>5 DEF ChangeWorkerAddress
  <2>2. miner' = miner
    BY <1>1, <2>1 DEF MinerInfo
  <2> QED
    BY <1>5, <2>2
<1> QED
  BY <1>4, <1>5

\* A command whose message is executed on the miner it was made for has its way.
LEMMA LoneExecution ==
  ASSUME IInv, [Next]_vars, NEW c \in Call, alone[c], Execute(c)
  PROVE  AnswerIsSo(c)'
<1>1. /\ snap[c] = miner /\ Committed(c) /\ miner \in MinerInfo
      /\ UNCHANGED <<req, snap>> /\ req[c] \in Request
  BY DEF Execute, Settle, IInv, TypeOK, PWTypeOK, LoneSnaps, Committed
<1>2. CASE req[c].kind = "confirm"
  <2>1. /\ miner.newWorker = req[c].worker /\ req[c].worker # NoAddr
        /\ head >= miner.changeEpoch
    BY <1>1, <1>2 DEF IInv, Prepared
  <2>2. miner'.worker = req[c].worker /\ miner'.newWorker = NoAddr
    BY <1>1, <1>2, <2>1, ExecuteEffect DEF ConfirmChangeWorker, MinerInfo
  <2> QED
    BY <1>1, <1>2, <2>2 DEF AnswerIsSo, IdsOf
<1>3. CASE req[c].kind = "controllers"
  <2>1. miner' = [miner EXCEPT !.controllers = IdsOf(req[c].controllers)]
    BY <1>1, <1>3, ExecuteEffect DEF ChangeWorkerAddress
  <2>2. miner'.controllers = IdsOf(req[c].controllers)
    BY <1>1, <2>1 DEF MinerInfo
  <2> QED
    BY <1>1, <1>3, <2>2 DEF AnswerIsSo, IdsOf
<1>4. CASE req[c].kind = "set"
  <2>1. miner' = IF miner.newWorker = NoAddr
                 THEN [miner EXCEPT !.newWorker = IdOf[req[c].worker],
                                    !.changeEpoch = head + Delay]
                 ELSE miner
    BY <1>4, LoneProposal
  <2> QED
    BY <1>1, <1>4, <2>1 DEF MinerInfo, AnswerIsSo
<1> QED
  BY <1>1, <1>2, <1>3, <1>4 DEF AnswerIsSo, Request

\* Nothing changes the miner between the execution and the answer.
LEMMA LoneStill ==
  ASSUME IInv, [Next]_vars, NEW c \in Call, alone[c], Unanswered(c)
  PROVE  miner' = miner
<1>1. \A d \in Call : Busy(d) => d = c
  BY DEF IInv, LoneSnaps, Busy, Unanswered, Live
<1>2. \A d \in Call : ~Execute(d)
  BY <1>1 DEF Execute, Settle, Busy, Unanswered
<1> QED
  BY <1>2, MinerChanges

LEMMA LoneDoneStep == IInv /\ LoneDone /\ [Next]_vars => LoneDone'
<1> SUFFICES ASSUME IInv, LoneDone, [Next]_vars, NEW c \in Call,
                    alone'[c], pc'[c] \in {"wait", "after"}, mst'[c] = "ok"
             PROVE  AnswerIsSo(c)'
  BY DEF LoneDone, Unanswered
<1> USE DEF IInv, TypeOK, PWTypeOK, Phases, Prep, Live, Step
\* c was waiting before the step, for the same request.
<1>1. /\ pc[c] \in {"wait", "after"} /\ alone[c] /\ mst[c] \in {"pooled", "ok"}
      /\ req'[c] = req[c] /\ snap'[c] = snap[c]
  <2> DEFINE Goal == /\ pc[c] \in {"wait", "after"} /\ alone[c]
                     /\ mst[c] \in {"pooled", "ok"}
                     /\ req'[c] = req[c] /\ snap'[c] = snap[c]
  <2>1. ASSUME NEW d \in Call, Begin(d) PROVE Goal
    BY <2>1 DEF Begin, Start, Goto, Overlap, Busy
  <2>2. ASSUME NEW d \in Call, Handler(d), UNCHANGED mwvars PROVE Goal
    BY <2>2 DEF Handler, ReadFails, SetWorkerRefused, SetWorkerChecked,
      ConfirmRefused, ConfirmNamed, ConfirmTooEarly, ConfirmChecked,
      ControllersRefused, ControllersChecked, Push, Wait, ReadEpoch, Decline,
      ReadMore, Ready, PushOk, PushFails, WaitOk, WaitOkThen, WaitExit, WaitFails,
      AnswerAfter, AfterFails, Goto, Return, mwvars
  <2>3. ASSUME NEW d \in Call, Handler(d), Read(d) PROVE Goal
    BY <2>3 DEF Handler, ReadFails, SetWorkerRefused, SetWorkerChecked,
      ConfirmRefused, ConfirmNamed, ConfirmTooEarly, ConfirmChecked,
      ControllersRefused, ControllersChecked, Push, Wait, ReadEpoch, Decline,
      ReadMore, Ready, PushOk, PushFails, WaitOk, WaitOkThen, WaitExit, WaitFails,
      AnswerAfter, AfterFails, Goto, Return, Read, Is, mwvars
  <2>4. ASSUME NEW d \in Call, Chain(d) PROVE Goal
    BY <2>4 DEF Chain, Execute, NotExecuted, Settle, mwvars
  <2>5. CASE Tick \/ DaemonCrash \/ UNCHANGED vars
    BY <2>5 DEF Tick, DaemonCrash, Crash, vars, pwvars, mwvars
  <2>6. ASSUME NEW d \in Call, Handler(d) PROVE UNCHANGED mwvars \/ Read(d)
    BY <2>6 DEF Handler, ReadFails, SetWorkerRefused, SetWorkerChecked,
      ConfirmRefused, ConfirmNamed, ConfirmTooEarly, ConfirmChecked,
      ControllersRefused, ControllersChecked, Push, Wait, ReadEpoch
  <2> HIDE DEF IInv, TypeOK, PWTypeOK, Phases
  <2>7. Goal
    BY <2>1, <2>2, <2>3, <2>4, <2>5, <2>6 DEF Next
  <2> QED
    BY <2>7 DEF Goal
<1>2. CASE mst[c] = "pooled"
  BY <1>1, <1>2, ExecutedBy, LoneExecution
<1>3. CASE mst[c] = "ok"
  <2>1. AnswerIsSo(c)
    BY <1>1, <1>3 DEF LoneDone, Unanswered
  <2>2. miner' = miner
    BY <1>1, <1>3, LoneStill DEF Unanswered
  <2> QED
    BY <1>1, <2>1, <2>2 DEF AnswerIsSo, IdsOf
<1> QED
  BY <1>1, <1>2, <1>3

LEMMA LoneInvariance == Spec => [](IInv /\ LoneDone)
<1>1. Init => LoneDone
  BY DEF Init, PWInit, LoneDone
<1> QED
  BY <1>1, IInvInit, IInvStep, LoneDoneStep, PTL DEF Spec

\* A handler answers "success" only when it has waited.
LEMMA AnsweredOk ==
  ASSUME IInv, [Next]_vars, NEW c \in Call, ans[c] = "none", ans'[c] = "ok"
  PROVE  pc[c] \in {"wait", "after"} /\ mst[c] = "ok"
<1> USE DEF IInv, TypeOK, PWTypeOK, Phases
<1>1. [PWNext]_pwvars
  BY FrameStep
<1> QED
  BY <1>1 DEF PWNext, pwvars, Start, ReadMore, Ready, Reply, Decline, PushOk,
    PushFails, WaitOk, WaitOkThen, WaitExit, WaitFails, AnswerAfter, AfterFails,
    Settle, Crash, Goto, Return, PC!Declined, InDoubt

\* What an operator is told who gives one command after the other is so when he
\* is told: a set-worker that found no worker pending has the one given pending,
\* and the miner has not changed since its message executed, so that the epoch
\* answered is Delay after that execution; one that found another pending is
\* answered with that other's epoch, the miner as it was (SetWorkerProposes, which
\* the code does not keep, asks for more).  A confirmation has its worker in
\* office, a set-controllers has its list in place.
THEOREM MWLoneAnswerIsSo == Spec => LoneAnswerIsSo
<1>1. IInv /\ LoneDone /\ [Next]_vars =>
        [\A c \in Call : ProposeStep(c) /\ StillStep(c) /\ AnswerStep(c)]_vars
  <2> SUFFICES ASSUME IInv, LoneDone, [Next]_vars, NEW c \in Call
               PROVE  ProposeStep(c) /\ StillStep(c) /\ AnswerStep(c)
    OBVIOUS
  <2>1. ProposeStep(c)
    BY ExecutedBy, LoneProposal DEF ProposeStep, Executed
  <2>2. StillStep(c)
    BY LoneStill DEF StillStep
  <2>3. AnswerStep(c)
    BY AnsweredOk DEF AnswerStep, LoneDone, Unanswered
  <2> QED
    BY <2>1, <2>2, <2>3
<1> QED
  BY <1>1, LoneInvariance, PTL DEF Spec, LoneAnswerIsSo

\* Every answer of the worker and controllers handlers stays true.
THEOREM MWAnswersLast == Spec => PC!Lasting
  BY MWKeepsPromise, PromiseLasts DEF KeepsPromise
=============================================================================
