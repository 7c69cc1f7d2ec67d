---------------------------- MODULE MinerWorker ----------------------------
(***************************************************************************)
(* The worker and the controllers of one miner:                            *)
(*   MinerSetWorker, MinerConfirmWorker, MinerSetControllers               *)
(*   (service/impl_miner.go) and the commands set-worker and               *)
(*   set-controllers that call them (cmd/cli/miner.go).                    *)
(*                                                                         *)
(* Worker and controllers share one message, ChangeWorkerAddress, which    *)
(* sets both: a handler that changes one copies the other from the         *)
(* minerInfo it read before it pushed.  The miner is on the chain: reads   *)
(* of it and the execution of messages are steps of different actors.      *)
(***************************************************************************)
EXTENDS PushWait, Addresses, Integers, Sequences, Functions

CONSTANTS
  WorkerArgs,  \* <newWorkerAddress> arguments tried
  CtlArgs,     \* <newControllerAddresses>... arguments tried
  Worker0,     \* the miner's worker at the start
  Ctls0,       \* and its controllers
  Delay,       \* epochs between a worker's proposal and its confirmation
  MaxHead      \* bound: the last chain epoch of a behaviour

ASSUME ArgsAssumption ==
  /\ WorkerArgs \subseteq Address
  /\ CtlArgs \subseteq Seq(Address)
  /\ Worker0 \in Id /\ Ctls0 \in Seq(Id)

ASSUME BoundAssumption == Delay \in Nat /\ MaxHead \in Nat

VARIABLES req,    \* the request of each call
          snap,   \* the minerInfo its handler read
          param,  \* the ChangeWorkerAddressParams of its message
          miner,  \* the miner's info on chain
          head,   \* the height of the chain
          alone   \* history: the calls that overlapped with no other

mwvars == <<req, snap, param, miner, head, alone>>
vars == <<pwvars, mwvars>>

MinerInfo == [worker : Id, newWorker : Id \cup {NoAddr},
              changeEpoch : Int, controllers : Seq(Id)]
Param     == [worker : Id, controllers : Seq(Id)]
Request   ==
       [kind : {"set", "confirm"}, worker : Address, controllers : {<<>>}]
  \cup [kind : {"controllers"}, worker : {NoAddr}, controllers : Seq(Address)]

\* MinerInfo as StateMinerInfo gives it while no change of worker is pending.
Miner0 == [worker |-> Worker0, newWorker |-> NoAddr,
           changeEpoch |-> -1, controllers |-> Ctls0]

\* What the commands let through: set-controllers wants at least one address
\* and, comparing them as given, no address twice.
Requests ==
       { [kind |-> k, worker |-> w, controllers |-> <<>>] :
           k \in {"set", "confirm"}, w \in WorkerArgs }
  \cup { [kind |-> "controllers", worker |-> NoAddr, controllers |-> l] :
           l \in {l \in CtlArgs : l # <<>> /\ IsInjective(l)} }

Known(l) == \A i \in DOMAIN l : IdOf[l[i]] # NoAddr
IdsOf(l) == [i \in DOMAIN l |-> IdOf[l[i]]]

TypeOK == /\ PWTypeOK
          /\ req \in [Call -> Request]
          /\ snap \in [Call -> MinerInfo]
          /\ param \in [Call -> Param]
          /\ miner \in MinerInfo
          /\ head \in Nat
          /\ alone \in [Call -> BOOLEAN]

\* req, snap and param of a call mean nothing until it has set them.
Init == /\ PWInit
        /\ req = [c \in Call |-> [kind |-> "controllers", worker |-> NoAddr, controllers |-> <<>>]]
        /\ snap = [c \in Call |-> Miner0]
        /\ param = [c \in Call |-> [worker |-> Worker0, controllers |-> Ctls0]]
        /\ miner = Miner0
        /\ head = 0
        /\ alone = [c \in Call |-> FALSE]
-----------------------------------------------------------------------------
(* Requests and reads. *)

Begin(c) ==
  /\ Start(c)
  /\ \E r \in Requests : req' = [req EXCEPT ![c] = r]
  /\ alone' = Overlap(c, alone)
  /\ UNCHANGED <<snap, param, miner, head>>

Is(c, kind) == pc[c] = "read" /\ req[c].kind = kind

Read(c) == /\ snap' = [snap EXCEPT ![c] = miner]
           /\ UNCHANGED <<req, miner, head, alone>>

\* A call to the node fails before the push, or an address given has no ID.
ReadFails(c) == /\ Decline(c, "unavailable")
                /\ UNCHANGED mwvars
-----------------------------------------------------------------------------
(* MinerSetWorker.  The check against NewWorker refuses only a repetition of
   the pending proposal: another one still pending is not looked at. *)

NewWorkerIsOld(c) == IdOf[req[c].worker] \in {miner.worker, miner.newWorker}

SetWorkerRefused(c) == /\ Is(c, "set") /\ IdOf[req[c].worker] # NoAddr
                       /\ NewWorkerIsOld(c)
                       /\ Decline(c, "refused")
                       /\ Read(c) /\ UNCHANGED param

\* Mutant: the message lists no controllers.
SetWorkerForgetsControllers(c) ==
  /\ Is(c, "set") /\ IdOf[req[c].worker] # NoAddr /\ ~NewWorkerIsOld(c)
  /\ Ready(c)
  /\ param' = [param EXCEPT ![c] = [worker |-> IdOf[req[c].worker],
                                    controllers |-> <<>>]]
  /\ Read(c)

SetWorkerChecked(c) ==
  /\ Is(c, "set") /\ IdOf[req[c].worker] # NoAddr
  /\ ~NewWorkerIsOld(c)
  /\ Ready(c)
  /\ param' = [param EXCEPT ![c] = [worker |-> IdOf[req[c].worker],
                                    controllers |-> miner.controllers]]
  /\ Read(c)
-----------------------------------------------------------------------------
(* MinerConfirmWorker.  The address given is compared as given, without
   StateLookupID; the height is read after the minerInfo. *)

Named(c) == miner.newWorker # NoAddr /\ miner.newWorker = req[c].worker

ConfirmRefused(c) == /\ Is(c, "confirm") /\ ~Named(c)
                     /\ Decline(c, "refused")
                     /\ Read(c) /\ UNCHANGED param

ConfirmNamed(c) == /\ Is(c, "confirm") /\ Named(c)
                   /\ ReadMore(c)
                   /\ Read(c) /\ UNCHANGED param

ConfirmTooEarly(c) == /\ pc[c] = "check" /\ head < snap[c].changeEpoch
                      /\ Decline(c, "refused")
                      /\ UNCHANGED mwvars

\* Mutant: the epoch is off by one.
ConfirmOneEarly(c) == /\ pc[c] = "check" /\ head + 1 >= snap[c].changeEpoch
                      /\ Ready(c)
                      /\ UNCHANGED mwvars

ConfirmChecked(c) == /\ pc[c] = "check" /\ head >= snap[c].changeEpoch
                     /\ Ready(c)
                     /\ UNCHANGED mwvars
-----------------------------------------------------------------------------
(* MinerSetControllers.  Its message names as worker the one it read. *)

ControllersRefused(c) == /\ Is(c, "controllers") /\ Known(req[c].controllers)
                         /\ IdsOf(req[c].controllers) = miner.controllers
                         /\ Decline(c, "refused")
                         /\ Read(c) /\ UNCHANGED param

\* Mutants: the addresses given are sent without StateLookupID; the message
\* names the pending worker and not the present one.
ControllersUnresolved(c) ==
  /\ Is(c, "controllers") /\ Known(req[c].controllers)
  /\ Ready(c)
  /\ param' = [param EXCEPT ![c] = [worker |-> miner.worker,
                                    controllers |-> req[c].controllers]]
  /\ Read(c)

ControllersNamePending(c) ==
  /\ Is(c, "controllers") /\ Known(req[c].controllers)
  /\ IdsOf(req[c].controllers) # miner.controllers
  /\ Ready(c)
  /\ param' = [param EXCEPT ![c] = [worker |-> miner.newWorker,
                                    controllers |-> IdsOf(req[c].controllers)]]
  /\ Read(c)

ControllersChecked(c) ==
  /\ Is(c, "controllers") /\ Known(req[c].controllers)
  /\ IdsOf(req[c].controllers) # miner.controllers
  /\ Ready(c)
  /\ param' = [param EXCEPT ![c] = [worker |-> miner.worker,
                                    controllers |-> IdsOf(req[c].controllers)]]
  /\ Read(c)
-----------------------------------------------------------------------------
(* The end of the three handlers. *)

Push(c) == (PushOk(c) \/ PushFails(c, "panic")) /\ UNCHANGED mwvars

\* Mutant: only a receipt ends the wait.
WaitForReceipt(c) == /\ \/ WaitOk(c) /\ req[c].kind # "set"
                        \/ WaitOkThen(c) /\ req[c].kind = "set"
                        \/ WaitExit(c)
                     /\ UNCHANGED mwvars

\* Only MinerSetWorker reads the miner again: the epoch it answers with is the
\* one of whatever change is pending by then, -1 if none is.
Wait(c) == /\ \/ WaitOk(c) /\ req[c].kind # "set"
              \/ WaitOkThen(c) /\ req[c].kind = "set"
              \/ WaitExit(c)
              \/ WaitFails(c, "panic")
           /\ UNCHANGED mwvars

ReadEpoch(c) == (AnswerAfter(c) \/ AfterFails(c)) /\ UNCHANGED mwvars
-----------------------------------------------------------------------------
(* The chain: the miner actor, as the handlers rely on it. *)

\* ChangeWorkerAddress: sets the controllers, and proposes the worker if it is
\* another one and none is pending yet; otherwise the worker is ignored.
ChangeWorkerAddress(p) ==
  IF p.worker # miner.worker /\ miner.newWorker = NoAddr
  THEN [miner EXCEPT !.controllers = p.controllers,
                     !.newWorker = p.worker, !.changeEpoch = head + Delay]
  ELSE [miner EXCEPT !.controllers = p.controllers]

\* ConfirmChangeWorkerAddress: succeeds, whether there is something to do or not.
ConfirmChangeWorker ==
  IF miner.newWorker # NoAddr /\ head >= miner.changeEpoch
  THEN [miner EXCEPT !.worker = miner.newWorker,
                     !.newWorker = NoAddr, !.changeEpoch = -1]
  ELSE miner

Execute(c) == /\ Settle(c, "ok")
              /\ miner' = IF req[c].kind = "confirm" THEN ConfirmChangeWorker
                          ELSE ChangeWorkerAddress(param[c])
              /\ UNCHANGED <<req, snap, param, head, alone>>

\* Chained with another exit code (out of gas, another owner by now), or failed.
NotExecuted(c) == /\ Settle(c, "error") \/ Settle(c, "failed")
                  /\ UNCHANGED mwvars

Tick == /\ head < MaxHead
        /\ head' = head + 1
        /\ UNCHANGED <<pwvars, req, snap, param, miner, alone>>

DaemonCrash == Crash /\ UNCHANGED mwvars
-----------------------------------------------------------------------------
Handler(c) == \/ ReadFails(c)
              \/ SetWorkerRefused(c) \/ SetWorkerChecked(c)
              \/ ConfirmRefused(c) \/ ConfirmNamed(c)
              \/ ConfirmTooEarly(c) \/ ConfirmChecked(c)
              \/ ControllersRefused(c) \/ ControllersChecked(c)
              \/ Push(c) \/ Wait(c) \/ ReadEpoch(c)

Chain(c) == Execute(c) \/ NotExecuted(c)

Next == \/ \E c \in Call : Begin(c) \/ Handler(c) \/ Chain(c)
        \/ Tick \/ DaemonCrash

Spec == Init /\ [][Next]_vars

(* Go runs every runnable goroutine: a handler takes its next step, unless that
   is waiting for a message still in the pool.  Messager and the chain settle
   every message some day; MsgWait has no timeout, so without that it waits for
   ever.  Nobody has to start a command, no call to a service has to fail, and
   nothing has to crash. *)
Runnable(c) == Handler(c) /\ ~(pc[c] = "wait" /\ mst[c] = "pooled")

Fairness == \A c \in Call : WF_vars(Runnable(c)) /\ WF_vars(Chain(c))

FairSpec == Spec /\ Fairness
-----------------------------------------------------------------------------
(* Properties. *)

Executed(c, kind) == /\ req[c].kind = kind
                     /\ mst[c] = "pooled" /\ mst'[c] = "ok"

\* The calls whose message has been executed.
Done(kind) == {c \in Call : mst[c] = "ok" /\ req[c].kind = kind}

\* The workers and the lists of controllers asked for by an executed command.
Workers == {Worker0} \cup {IdOf[req[c].worker] : c \in Done("set")}
Lists   == {Ctls0} \cup {IdsOf(req[c].controllers) : c \in Done("controllers")}

\* However calls, crashes, lost replies and stale reads interleave, the miner's
\* addresses are ones somebody asked for: a worker, present or pending, is the
\* first one or named by an executed set-worker; the controllers are the first
\* ones or, as a whole, the list of an executed set-controllers
\* (MinerSetWorker and MinerSetControllers copying what they read).
Accounted == /\ miner.worker \in Workers
             /\ miner.newWorker \in Workers \cup {NoAddr}
             /\ miner.controllers \in Lists

\* The check of MinerConfirmWorker is enough: whatever happens between the two
\* reads, the push and the execution, if the proposal it read is still the one
\* pending when its message executes, the worker changes.
RipeStep(c) ==
  /\ Executed(c, "confirm")
  /\ miner.newWorker = snap[c].newWorker
  /\ miner.changeEpoch = snap[c].changeEpoch
  => miner'.worker = req[c].worker /\ miner'.newWorker = NoAddr

ConfirmIsRipe == [][\A c \in Call : RipeStep(c)]_vars

\* A confirmation that executes, and overlaps with no other command, makes the
\* worker it names the worker (MinerConfirmWorker: "Worker address changed to").
ConfirmStep(c) == alone[c] /\ Executed(c, "confirm") =>
  miner' = [miner EXCEPT !.worker = req[c].worker,
                         !.newWorker = NoAddr, !.changeEpoch = -1]

ConfirmMovesToNamed == [][\A c \in Call : ConfirmStep(c)]_vars

\* A set-controllers that overlaps with no other command sets the controllers it
\* was given, resolved, and leaves the worker and a pending worker alone
\* (MinerSetControllers copying minerInfo.Worker).
ControllersStep(c) == alone[c] /\ Executed(c, "controllers") =>
  miner' = [miner EXCEPT !.controllers = IdsOf(req[c].controllers)]

SetControllersKeepsWorker == [][\A c \in Call : ControllersStep(c)]_vars

\* A set-worker that overlaps with no other command leaves the controllers alone
\* (MinerSetWorker copying minerInfo.ControlAddresses).
WorkerStep(c) == alone[c] /\ Executed(c, "set") => miner'.controllers = miner.controllers

SetWorkerKeepsControllers == [][\A c \in Call : WorkerStep(c)]_vars

\* Every command is answered, if messager and the chain settle its message
\* (MsgWait has no timeout of its own).
Answered == \A c \in Call : pc[c] = "read" ~> ans[c] # "none"
-----------------------------------------------------------------------------
(* What the code does not keep. *)

\* A successful set-worker answers for the worker it was given: that one is
\* pending when the epoch is read (MinerSetWorker, "change successfully proposed").
SetWorkerProposes ==
  [][\A c \in Call :
       req[c].kind = "set" /\ alone[c] /\ ans[c] = "none" /\ ans'[c] = "ok"
       => miner.newWorker = IdOf[req[c].worker]]_vars

\* Every error reaches the caller as the message the handler formats.
NoPanic == \A c \in Call : ans[c] # "panic"
=============================================================================
