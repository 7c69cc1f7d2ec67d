--------------------------- MODULE WithdrawProof ---------------------------
(***************************************************************************)
(* What Withdraw keeps for every set of calls, all amounts and all         *)
(* balances.                                                               *)
(***************************************************************************)
EXTENDS Withdraw, PushWaitProof

\* The handler of c has built its message.
Committed(c) == pc[c] \in {"push", "wait", "after"} \/ mst[c] # "none"

\* The market never locks more than it holds.
Solvent == funds.locked <= funds.escrow

\* The amount of a message is the one given, or at most what was seen; a message
\* moves no more than its amount, and nothing before it is executed.
Bounded ==
  \A c \in Call :
    /\ pc[c] = "check" => req[c].kind = "market"
    /\ Committed(c) => IF req[c].amount > 0 THEN amt[c] = req[c].amount
                       ELSE amt[c] <= seen[c]
    /\ Committed(c) /\ req[c].kind = "market" => amt[c] >= 0
    /\ mst[c] = "ok" => paid[c] <= amt[c]
    /\ mst[c] # "ok" => paid[c] = 0

\* A call that overlaps with nothing is the only one in flight, the balances
\* cover its message, and once executed it has moved what they could give.
Lone ==
  \A c \in Call : alone[c] =>
    /\ Busy(c) => \A d \in Call : Busy(d) => d = c
    /\ pc[c] = "check" => seen[c] = funds.escrow - funds.locked
    /\ pc[c] = "push" \/ mst[c] = "pooled" =>
         /\ req[c].kind = "miner" => amt[c] <= funds.avail
         /\ req[c].kind = "market" =>
              amt[c] <= funds.escrow - funds.locked - funds.reserved
    /\ mst[c] = "ok" =>
         paid[c] = amt[c] \/ (req[c].kind = "miner" /\ funds.quota = 0)

IInv == TypeOK /\ Phases /\ Solvent /\ Bounded /\ Lone
-----------------------------------------------------------------------------
LEMMA LeastOfTwo ==
  ASSUME NEW a \in Nat, NEW b \in Nat
  PROVE  LET p == Least({a, b}) IN p \in Nat /\ p <= a /\ p <= b /\ p \in {a, b}
<1>1. \E x \in {a, b} : \A y \in {a, b} : x <= y
  BY SMT
<1> QED
  BY <1>1 DEF Least

LEMMA LeastOfThree ==
  ASSUME NEW a \in Nat, NEW b \in Nat, NEW d \in Nat
  PROVE  LET p == Least({a, b, d})
         IN  p \in Nat /\ p <= a /\ p <= b /\ p <= d /\ p \in {a, b, d}
<1>1. \E x \in {a, b, d} : \A y \in {a, b, d} : x <= y
  BY SMT
<1> QED
  BY <1>1 DEF Least

\* What PayMiner and PayMarket do, without the Least.
LEMMA PayMinerEffect ==
  ASSUME TypeOK, NEW c \in Call, PayMiner(c)
  PROVE  \E p \in Nat :
           /\ p <= amt[c] /\ p <= funds.avail /\ p <= funds.quota
           /\ p \in {amt[c], funds.avail, funds.quota}
           /\ paid' = [paid EXCEPT ![c] = p]
           /\ funds' = [funds EXCEPT !.avail = funds.avail - p, !.quota = funds.quota - p]
<1>1. amt[c] \in Nat /\ funds.avail \in Nat /\ funds.quota \in Nat
  BY DEF TypeOK, Funds, Balance, PayMiner
<1> QED
  BY <1>1, LeastOfThree DEF PayMiner

LEMMA PayMarketEffect ==
  ASSUME TypeOK, Solvent, Bounded, NEW c \in Call, PayMarket(c)
  PROVE  \E p \in Nat :
           /\ p <= amt[c] /\ p <= funds.escrow - funds.locked
           /\ p \in {amt[c], funds.escrow - funds.locked}
           /\ paid' = [paid EXCEPT ![c] = p]
           /\ funds' = [funds EXCEPT !.escrow = funds.escrow - p]
<1>1. amt[c] \in Nat /\ funds.escrow - funds.locked \in Nat
  BY DEF TypeOK, Funds, Balance, Solvent, Bounded, Committed, PayMarket, Settle
<1> QED
  BY <1>1, LeastOfTwo DEF PayMarket
-----------------------------------------------------------------------------
(* The frame: every step of Withdraw is one of PushWait, except for the answer
   of MinerWithdrawFromMarket, which does not look at the exit code.  Phases
   holds all the same. *)

\* The answer of MinerWithdrawFromMarket.
Unchecked(c) == req[c].kind = "market" /\ WaitUnchecked(c) /\ UNCHANGED wdvars

LEMMA FrameStep ==
  [Next]_vars => [PWNext]_pwvars \/ \E c \in Call : Unchecked(c)
<1> SUFFICES ASSUME [Next]_vars
             PROVE  [PWNext]_pwvars \/ \E c \in Call : Unchecked(c)
  OBVIOUS
<1>1. ASSUME NEW c \in Call, Begin(c) PROVE PWNext
  BY <1>1 DEF Begin, PWNext
<1>2. ASSUME NEW c \in Call, Handler(c) PROVE PWNext \/ Unchecked(c)
  <2>1. \/ \E a \in PC!Declined : Decline(c, a)
        \/ ReadMore(c) \/ Ready(c)
        \/ PushOk(c) \/ PushFails(c, "panic") \/ PushFails(c, "doubt")
        \/ WaitOk(c) \/ WaitExit(c) \/ WaitFails(c, "panic") \/ Unchecked(c)
    BY <1>2 DEF Handler, ReadFails, MinerRefused, MinerChecked, MarketRead,
         MarketRefused, MarketChecked, Push, Wait, Unchecked, PC!Declined
  <2> QED
    BY <2>1 DEF PWNext, Reply, InDoubt
<1>3. ASSUME NEW c \in Call, Chain(c) PROVE PWNext
  <2>1. \E s \in PC!MsgState : Settle(c, s)
    BY <1>3 DEF Chain, PayMiner, PayMarket, NotExecuted, PC!MsgState
  <2> QED
    BY <2>1 DEF PWNext
<1>4. CASE Others
  BY <1>4 DEF Others
<1>5. CASE DaemonCrash
  BY <1>5 DEF DaemonCrash, PWNext
<1>6. CASE UNCHANGED vars
  BY <1>6 DEF vars
<1> QED
  BY <1>1, <1>2, <1>3, <1>4, <1>5, <1>6 DEF Next

LEMMA PhasesStep == PWInv /\ [Next]_vars => PWInv'
<1> SUFFICES ASSUME PWInv, [Next]_vars PROVE PWInv'
  OBVIOUS
<1>1. ASSUME NEW c \in Call, Unchecked(c) PROVE PWInv'
  BY <1>1 DEF Unchecked, WaitUnchecked, Return, PWInv, PWTypeOK, Phases, Step, Live,
    Prep, PC!Answer, PC!MsgState, PC!Declined, PC!Vague
<1> QED
  BY <1>1, FrameStep, PWStepInv
-----------------------------------------------------------------------------
(* Type correctness and the balances. *)

LEMMA TypeInit == Init => TypeOK
<1>1. 0 \in Balance
  BY WithdrawAssumption DEF Balance
<1> QED
  BY <1>1, PWInitInv, WithdrawAssumption DEF Init, TypeOK, PWInv, Request

\* The balances stay balances.
LEMMA FundsStep ==
  ASSUME TypeOK, Solvent, Bounded, [Next]_vars
  PROVE  funds' \in Funds /\ Solvent'
<1> USE DEF TypeOK, Solvent, Funds, Balance
<1>1. ASSUME NEW c \in Call, PayMiner(c) PROVE funds' \in Funds /\ Solvent'
  <2>1. PICK p \in Nat :
          /\ p <= funds.avail /\ p <= funds.quota
          /\ funds' = [funds EXCEPT !.avail = funds.avail - p, !.quota = funds.quota - p]
    BY <1>1, PayMinerEffect
  <2>2. funds.avail - p \in Nat /\ funds.quota - p \in Nat
    BY <2>1
  <2>3. funds.avail - p \in Balance
    BY <2>2, WithdrawAssumption
  <2> QED
    BY <2>1, <2>2, <2>3
<1>2. ASSUME NEW c \in Call, PayMarket(c) PROVE funds' \in Funds /\ Solvent'
  <2>1. PICK p \in Nat : /\ p <= funds.escrow - funds.locked
                         /\ funds' = [funds EXCEPT !.escrow = funds.escrow - p]
    BY <1>2, PayMarketEffect
  <2> QED
    BY <2>1
<1>3. CASE Others
  <2>1. CASE Move
    <3>1. -MaxDebt..MaxFund \subseteq Balance
      BY WithdrawAssumption
    <3> QED
      BY <2>1, <3>1 DEF Move
  <2>2. CASE Reserve
    <3>1. funds.reserved + 1 \in Nat
      OBVIOUS
    <3> QED
      BY <2>2, <3>1 DEF Reserve
  <2>3. CASE Publish
    <3>1. funds.reserved - 1 \in Nat /\ funds.locked + 1 \in Nat
      BY <2>3 DEF Publish
    <3>2. funds.locked + 1 <= funds.escrow
      BY <2>3 DEF Publish
    <3>3. funds' = [funds EXCEPT !.reserved = funds.reserved - 1,
                                 !.locked = funds.locked + 1]
      BY <2>3 DEF Publish
    <3> QED
      BY <3>1, <3>2, <3>3
  <2> QED
    BY <1>3, <2>1, <2>2, <2>3 DEF Others
<1>4. CASE funds' = funds
  BY <1>4
<1> QED
  BY <1>1, <1>2, <1>3, <1>4
     DEF Next, Begin, Handler, ReadFails, MinerRefused, MinerChecked, MarketRead,
       MarketRefused, MarketChecked, Push, Wait, Chain, NotExecuted, DaemonCrash,
       wdvars, vars

LEMMA TypeStep == TypeOK /\ Phases /\ Solvent /\ Bounded /\ [Next]_vars => TypeOK'
<1> SUFFICES ASSUME TypeOK, Phases, Solvent, Bounded, [Next]_vars PROVE TypeOK'
  OBVIOUS
<1>1. PWTypeOK' /\ funds' \in Funds
  BY PhasesStep, FundsStep DEF PWInv, TypeOK
<1> USE <1>1 DEF TypeOK
<1>2. ASSUME NEW c \in Call, Begin(c) PROVE TypeOK'
  <2>1. Requests \subseteq Request
    BY WithdrawAssumption DEF Requests, Request, To
  <2> QED
    BY <1>2, <2>1 DEF Begin, Overlap
<1>3. ASSUME NEW c \in Call, MinerChecked(c) PROVE TypeOK'
  <2>1. req[c].amount \in Int /\ funds.avail \in Balance /\ Balance \subseteq Int
    BY DEF Request, Funds, Balance
  <2>2. Wanted(c, funds.avail) \in Balance
    BY <2>1, WithdrawAssumption DEF Wanted, Balance
  <2> QED
    BY <1>3, <2>1, <2>2 DEF MinerChecked
<1>4. ASSUME NEW c \in Call, MarketRead(c) PROVE TypeOK'
  BY <1>4 DEF MarketRead, Funds
<1>5. ASSUME NEW c \in Call, MarketChecked(c) PROVE TypeOK'
  <2>1. req[c].amount \in Int /\ Free(c) \in Int
    BY DEF Request, Funds, Free
  <2>2. Wanted(c, Free(c)) \in Balance
    BY <1>5, <2>1, WithdrawAssumption DEF Wanted, MarketChecked, Balance
  <2> QED
    BY <1>5, <2>2 DEF MarketChecked
<1>6. ASSUME NEW c \in Call, PayMiner(c) \/ PayMarket(c) PROVE TypeOK'
  <2>1. paid' \in [Call -> Nat]
    BY <1>6, PayMinerEffect, PayMarketEffect
  <2> QED
    BY <1>6, <2>1 DEF PayMiner, PayMarket
<1>7. CASE UNCHANGED wdvars
  BY <1>7 DEF wdvars
<1>8. CASE Others
  BY <1>8 DEF Others
<1> QED
  BY <1>2, <1>3, <1>4, <1>5, <1>6, <1>7, <1>8
     DEF Next, Handler, ReadFails, MinerRefused, MarketRefused, Push, Wait, Chain,
       NotExecuted, DaemonCrash, vars
-----------------------------------------------------------------------------
(* The inductive step. *)

LEMMA BoundedStep == IInv /\ [Next]_vars => Bounded'
<1> SUFFICES ASSUME IInv, [Next]_vars PROVE Bounded'
  OBVIOUS
<1> USE DEF IInv, TypeOK, PWTypeOK, Phases, Bounded, Committed, Prep, Live, Step
<1>1. ASSUME NEW c \in Call, Begin(c) PROVE Bounded'
  BY <1>1 DEF Begin, Start, Goto
<1>2. ASSUME NEW c \in Call, ReadFails(c) \/ MinerRefused(c) \/ MarketRefused(c)
      PROVE  Bounded'
  BY <1>2 DEF ReadFails, MinerRefused, MarketRefused, Decline, Return, wdvars
<1>3. ASSUME NEW c \in Call, MinerChecked(c) PROVE Bounded'
  <2>1. funds.avail \in Int /\ req[c].amount \in Int
    BY DEF Funds, Request, Balance
  <2>2. /\ amt'[c] = Wanted(c, funds.avail) /\ seen'[c] = funds.avail
        /\ req' = req
    BY <1>3 DEF MinerChecked
  <2>3. IF req'[c].amount > 0 THEN amt'[c] = req'[c].amount ELSE amt'[c] <= seen'[c]
    BY <2>1, <2>2 DEF Wanted
  <2>4. paid'[c] = 0 /\ mst'[c] = "none" /\ req'[c].kind = "miner" /\ pc'[c] = "push"
    BY <1>3 DEF MinerChecked, Is, Ready
  <2>5. /\ UNCHANGED <<req, paid, mst>>
        /\ \A d \in Call : d # c => /\ pc'[d] = pc[d]
                                   /\ amt'[d] = amt[d] /\ seen'[d] = seen[d]
    BY <1>3 DEF MinerChecked, Ready
  <2>6. ASSUME NEW d \in Call, d # c
        PROVE  /\ pc'[d] = "check" => req'[d].kind = "market"
               /\ Committed(d)' => IF req'[d].amount > 0 THEN amt'[d] = req'[d].amount
                                   ELSE amt'[d] <= seen'[d]
               /\ Committed(d)' /\ req'[d].kind = "market" => amt'[d] >= 0
               /\ mst'[d] = "ok" => paid'[d] <= amt'[d]
               /\ mst'[d] # "ok" => paid'[d] = 0
    BY <2>5, <2>6
  <2> QED
    BY <2>3, <2>4, <2>6
<1>4. ASSUME NEW c \in Call, MarketRead(c) PROVE Bounded'
  <2>1. funds.escrow - funds.locked \in Nat
    BY DEF Solvent, Funds
  <2> QED
    BY <1>4, <2>1 DEF MarketRead, Is, ReadMore, Goto
<1>5. ASSUME NEW c \in Call, MarketChecked(c) PROVE Bounded'
  <2>1. Free(c) \in Int /\ Free(c) <= seen[c] /\ req[c].amount \in Int
    BY DEF Funds, Request, Free
  <2>2. amt'[c] >= 0
    BY <1>5, <2>1 DEF MarketChecked, Wanted
  <2>3. IF req[c].amount > 0 THEN amt'[c] = req[c].amount ELSE amt'[c] <= seen[c]
    BY <1>5, <2>1 DEF MarketChecked, Wanted
  <2>4. paid[c] = 0 /\ mst[c] = "none"
    BY <1>5 DEF MarketChecked, Is
  <2> QED
    BY <1>5, <2>1, <2>2, <2>3, <2>4 DEF MarketChecked, Ready
<1>6. ASSUME NEW c \in Call, Push(c) PROVE Bounded'
  BY <1>6 DEF Push, PushOk, PushFails, Goto, Return, wdvars
<1>7. ASSUME NEW c \in Call, Wait(c) PROVE Bounded'
  BY <1>7 DEF Wait, WaitOk, WaitExit, WaitFails, WaitUnchecked, Return, wdvars
<1>8. ASSUME NEW c \in Call, PayMiner(c) \/ PayMarket(c) PROVE Bounded'
  <2>1. PICK p \in Nat : p <= amt[c] /\ paid' = [paid EXCEPT ![c] = p]
    BY <1>8, PayMinerEffect, PayMarketEffect
  <2> QED
    BY <1>8, <2>1 DEF PayMiner, PayMarket, Settle
<1>9. ASSUME NEW c \in Call, NotExecuted(c) PROVE Bounded'
  BY <1>9 DEF NotExecuted, Settle, wdvars
<1>10. CASE Others
  BY <1>10 DEF Others, pwvars
<1>11. CASE DaemonCrash
  BY <1>11 DEF DaemonCrash, Crash, wdvars
<1>12. CASE UNCHANGED vars
  BY <1>12 DEF vars, pwvars, wdvars
<1> QED
  BY <1>1, <1>2, <1>3, <1>4, <1>5, <1>6, <1>7, <1>8, <1>9, <1>10, <1>11, <1>12
     DEF Next, Handler, Chain

LEMMA LoneStep == IInv /\ [Next]_vars => Lone'
<1> SUFFICES ASSUME IInv, [Next]_vars PROVE Lone'
  OBVIOUS
<1> USE DEF IInv, TypeOK, PWTypeOK, Phases, Lone, Busy, Prep, Live, Step
<1>1. ASSUME NEW c \in Call, Begin(c) PROVE Lone'
  <2>1. /\ pc' = [pc EXCEPT ![c] = "read"] /\ mst' = mst /\ mst[c] = "none"
        /\ alone' = Overlap(c, alone)
        /\ UNCHANGED <<seen, amt, paid, funds>>
    BY <1>1 DEF Begin, Start, Goto
  <2>2. \A d \in Call : d # c => req'[d] = req[d] /\ (Busy(d)' <=> Busy(d))
    BY <1>1, <2>1 DEF Begin
  <2>3. alone'[c] => \A d \in Call : Busy(d)' => d = c
    BY <2>1, <2>2 DEF Overlap
  <2>4. \A d \in Call : d # c /\ alone'[d] => alone[d] /\ ~Busy(d)
    BY <2>1 DEF Overlap
  <2>5. \A d \in Call : d # c => pc'[d] = pc[d]
    BY <2>1
  <2> QED
    BY <2>1, <2>2, <2>3, <2>4, <2>5
<1>2. ASSUME NEW c \in Call, ReadFails(c) \/ MinerRefused(c) \/ MarketRefused(c)
      PROVE  Lone'
  BY <1>2 DEF ReadFails, MinerRefused, MarketRefused, Decline, Return, wdvars
<1>3. ASSUME NEW c \in Call, MinerChecked(c) PROVE Lone'
  <2>1. funds.avail \in Int /\ req[c].amount \in Int
    BY DEF Funds, Request, Balance
  <2>2. req[c].kind = "miner" /\ amt'[c] <= funds.avail
    BY <1>3, <2>1 DEF MinerChecked, Wanted, Is
  <2> QED
    BY <1>3, <2>2 DEF MinerChecked, Ready, Is
<1>4. ASSUME NEW c \in Call, MarketRead(c) PROVE Lone'
  BY <1>4 DEF MarketRead, Is, ReadMore, Goto
<1>5. ASSUME NEW c \in Call, MarketChecked(c) PROVE Lone'
  <2>1. Free(c) \in Int /\ req[c].amount \in Int
    BY DEF Funds, Request, Free
  <2>2. req[c].kind = "market" /\ amt'[c] <= seen[c] - funds.reserved
    BY <1>5, <2>1 DEF MarketChecked, Wanted, Is, Free
  <2> QED
    BY <1>5, <2>2 DEF MarketChecked, Ready, Is
<1>6. ASSUME NEW c \in Call, Push(c) PROVE Lone'
  BY <1>6 DEF Push, PushOk, PushFails, Goto, Return, wdvars
<1>7. ASSUME NEW c \in Call, Wait(c) PROVE Lone'
  BY <1>7 DEF Wait, WaitOk, WaitExit, WaitFails, WaitUnchecked, Return, wdvars
<1>8. ASSUME NEW c \in Call, PayMiner(c) PROVE Lone'
  <2>1. PICK p \in Nat :
          /\ p <= funds.quota
          /\ p \in {amt[c], funds.avail, funds.quota} /\ p <= amt[c] /\ p <= funds.avail
          /\ paid' = [paid EXCEPT ![c] = p]
          /\ funds' = [funds EXCEPT !.avail = funds.avail - p, !.quota = funds.quota - p]
    BY <1>8, PayMinerEffect
  <2>2. /\ amt[c] \in Nat /\ funds.avail \in Nat /\ funds.quota \in Nat
        /\ funds'.quota = funds.quota - p
        /\ funds'.escrow = funds.escrow /\ funds'.locked = funds.locked
        /\ funds'.reserved = funds.reserved
    BY <1>8, <2>1 DEF Funds, Balance, PayMiner
  <2>3. alone[c] => p = amt[c] \/ funds'.quota = 0
    BY <1>8, <2>1, <2>2 DEF PayMiner, Settle
  <2>4. funds.quota = 0 => funds'.quota = 0
    BY <2>1, <2>2
  <2>5. \A d \in Call : alone[d] /\ d # c => ~Busy(d)
    BY <1>8 DEF PayMiner, Settle
  <2> QED
    BY <1>8, <2>1, <2>2, <2>3, <2>4, <2>5 DEF PayMiner, Settle
<1>9. ASSUME NEW c \in Call, PayMarket(c) PROVE Lone'
  <2>1. PICK p \in Nat :
          /\ p <= amt[c] /\ p \in {amt[c], funds.escrow - funds.locked}
          /\ paid' = [paid EXCEPT ![c] = p]
          /\ funds' = [funds EXCEPT !.escrow = funds.escrow - p]
    BY <1>9, PayMarketEffect
  <2>2. /\ amt[c] \in Nat /\ funds.escrow \in Nat /\ funds.locked \in Nat
        /\ funds.reserved \in Nat /\ funds'.quota = funds.quota
    BY <1>9, <2>1 DEF Funds, Balance, Bounded, Committed, PayMarket, Settle
  <2>3. alone[c] => p = amt[c]
    BY <1>9, <2>1, <2>2 DEF PayMarket, Settle
  <2>4. \A d \in Call : alone[d] /\ d # c => ~Busy(d)
    BY <1>9 DEF PayMarket, Settle
  <2> QED
    BY <1>9, <2>1, <2>2, <2>3, <2>4 DEF PayMarket, Settle
<1>10. ASSUME NEW c \in Call, NotExecuted(c) PROVE Lone'
  BY <1>10 DEF NotExecuted, Settle, wdvars
<1>11. CASE Others
  <2>1. funds'.quota = funds.quota
    BY <1>11 DEF Others, Move, Reserve, Publish, Funds
  <2> QED
    BY <1>11, <2>1 DEF Others, pwvars
<1>12. CASE DaemonCrash
  BY <1>12 DEF DaemonCrash, Crash, wdvars
<1>13. CASE UNCHANGED vars
  BY <1>13 DEF vars, pwvars, wdvars
<1> QED
  BY <1>1, <1>2, <1>3, <1>4, <1>5, <1>6, <1>7, <1>8, <1>9, <1>10, <1>11, <1>12, <1>13
     DEF Next, Handler, Chain
-----------------------------------------------------------------------------
(* The theorems. *)

LEMMA IInvInit == Init => IInv
<1> SUFFICES ASSUME Init PROVE IInv
  OBVIOUS
<1>1. TypeOK /\ Phases
  BY TypeInit, PWInitInv DEF PWInv, Init
<1>2. Solvent
  BY WithdrawAssumption DEF Init, Solvent, Funds
<1>3. Bounded /\ Lone
  BY DEF Init, PWInit, Bounded, Committed, Lone
<1> QED
  BY <1>1, <1>2, <1>3 DEF IInv

LEMMA IInvStep == IInv /\ [Next]_vars => IInv'
<1> SUFFICES ASSUME IInv, [Next]_vars PROVE IInv'
  OBVIOUS
<1>1. TypeOK' /\ Phases' /\ Solvent'
  BY TypeStep, PhasesStep, FundsStep DEF IInv, TypeOK, PWInv
<1> QED
  BY <1>1, BoundedStep, LoneStep DEF IInv

THEOREM Invariance == Spec => []IInv
  BY IInvInit, IInvStep, PTL DEF Spec

\* Every value of the variables of Withdraw is of its type: in particular no
\* balance is overdrawn, and no message asks for less than a miner in fee debt
\* can have.
THEOREM WDTypeCorrect == Spec => []TypeOK
<1>1. IInv => TypeOK
  BY DEF IInv
<1> QED
  BY <1>1, Invariance, PTL

\* No withdrawal moves more than it was asked for, or saw.
THEOREM WDNoMoreThanAsked == Spec => []NoMoreThanAsked
<1>1. IInv => NoMoreThanAsked
  <2> SUFFICES ASSUME IInv, NEW c \in Call, mst[c] = "ok"
               PROVE  IF req[c].amount > 0 THEN paid[c] <= req[c].amount
                      ELSE paid[c] <= seen[c]
    BY DEF NoMoreThanAsked
  <2>1. /\ req[c].amount \in Int /\ seen[c] \in Int /\ paid[c] \in Nat /\ amt[c] \in Int
        /\ paid[c] <= amt[c]
    BY DEF IInv, TypeOK, Bounded, Request, Balance
  <2> QED
    BY <2>1 DEF IInv, Bounded, Committed
<1> QED
  BY <1>1, Invariance, PTL

\* A withdrawal that overlaps with nothing answers with what it moved.
THEOREM WDAnsweredAsPaid == Spec => []AnsweredAsPaid
<1>1. IInv => AnsweredAsPaid
  BY DEF IInv, Lone, AnsweredAsPaid
<1> QED
  BY <1>1, Invariance, PTL

\* And one from the market leaves what droplet has reserved.
THEOREM WDReservedIsKept == Spec => ReservedIsKept
<1>1. IInv /\ [Next]_vars => [\A c \in Call : ReservedStep(c)]_vars
  <2> SUFFICES ASSUME IInv, [Next]_vars, NEW c \in Call, alone[c],
                      mst[c] = "pooled", mst'[c] = "ok", Covered
               PROVE  Covered'
    BY DEF ReservedStep
  <2>1. Phases /\ mst \in [Call -> PC!MsgState]
    BY DEF IInv, TypeOK, PWTypeOK
  <2>2. ASSUME NEW d \in Call, Handler(d) \/ Begin(d) PROVE mst'[c] = "pooled"
    BY <2>1, <2>2 DEF Begin, Start, Handler, ReadFails, MinerRefused, MinerChecked,
      MarketRead, MarketRefused, MarketChecked, Push, Wait, Decline, ReadMore,
      Ready, PushOk, PushFails, WaitOk, WaitExit, WaitFails, WaitUnchecked,
      Phases, Goto
  <2>3. ASSUME NEW d \in Call, Chain(d) PROVE PayMiner(c) \/ PayMarket(c)
    <3>1. \/ Settle(d, "ok") /\ (PayMiner(d) \/ PayMarket(d))
          \/ Settle(d, "error") \/ Settle(d, "failed")
      BY <2>3 DEF Chain, PayMiner, PayMarket, NotExecuted
    <3>2. d = c /\ ~Settle(d, "error") /\ ~Settle(d, "failed")
      BY <2>1, <3>1 DEF Settle
    <3> QED
      BY <3>1, <3>2
  <2>4. PayMiner(c) \/ PayMarket(c)
    BY <2>2, <2>3 DEF Next, Others, DaemonCrash, Crash, vars, pwvars
  <2>5. CASE PayMiner(c)
    <3>1. PICK p \in Nat :
            funds' = [funds EXCEPT !.avail = funds.avail - p, !.quota = funds.quota - p]
      BY <2>5, PayMinerEffect DEF IInv
    <3> QED
      BY <3>1 DEF Covered, IInv, TypeOK, Funds
  <2>6. CASE PayMarket(c)
    <3>1. PICK p \in Nat : p <= amt[c] /\ funds' = [funds EXCEPT !.escrow = funds.escrow - p]
      BY <2>6, PayMarketEffect DEF IInv
    <3>2. amt[c] \in Nat /\ amt[c] <= funds.escrow - funds.locked - funds.reserved
      BY <2>6 DEF PayMarket, IInv, Lone, Bounded, Committed, TypeOK, Balance
    <3> QED
      BY <3>1, <3>2 DEF Covered, IInv, TypeOK, Funds
  <2> QED
    BY <2>4, <2>5, <2>6
<1> QED
  BY <1>1, Invariance, PTL DEF Spec, ReservedIsKept

-----------------------------------------------------------------------------
(* The promise of PushCall.  MinerWithdrawFromMarket breaks it with its "success"
   and with nothing else: read as an answer that says nothing of the message, it
   leaves both withdrawals implementing PushCall. *)

Told == [c \in Call |-> IF req[c].kind = "market" /\ ans[c] = "ok" THEN "doubt"
                        ELSE ans[c]]

WP == INSTANCE PushCall WITH ans <- Told

\* The request of a call is fixed before it is answered.
LEMMA RequestKept ==
  ASSUME IInv, [Next]_vars, NEW c \in Call, pc[c] # "idle"
  PROVE  req'[c] = req[c]
<1>1. ASSUME NEW d \in Call, Begin(d) PROVE req'[c] = req[c]
  BY <1>1 DEF Begin, Start, Goto, IInv, TypeOK
<1>2. (\E d \in Call : Begin(d)) \/ req' = req
  BY DEF Next, Handler, ReadFails, MinerRefused, MinerChecked, MarketRead,
    MarketRefused, MarketChecked, Push, Wait, Chain, PayMiner, PayMarket,
    NotExecuted, Others, DaemonCrash, wdvars, vars
<1> QED
  BY <1>1, <1>2

\* How a call is told its answer.
LEMMA ToldStep ==
  ASSUME IInv, [Next]_vars
  PROVE  /\ UNCHANGED ans => UNCHANGED Told
         /\ \A c \in Call : ans[c] = "none" => Told[c] = "none"
         /\ \A c \in Call, a \in PC!Answer :
              ans' = [ans EXCEPT ![c] = a] /\ a # "ok" => Told' = [Told EXCEPT ![c] = a]
         /\ \A c \in Call :
              ans' = [ans EXCEPT ![c] = "ok"] =>
                \E a \in {"ok", "doubt"} : Told' = [Told EXCEPT ![c] = a]
         /\ \A c \in Call :
              ans' = [ans EXCEPT ![c] = "ok"] /\ req'[c].kind = "market" =>
                Told' = [Told EXCEPT ![c] = "doubt"]
<1> DEFINE T(c) == IF req[c].kind = "market" /\ ans[c] = "ok" THEN "doubt" ELSE ans[c]
           Tn(c) == IF req'[c].kind = "market" /\ ans'[c] = "ok" THEN "doubt" ELSE ans'[c]
<1>1. /\ Told = [d \in Call |-> T(d)] /\ Told' = [d \in Call |-> Tn(d)]
      /\ ans \in [Call -> PC!Answer]
  BY DEF Told, IInv, TypeOK, PWTypeOK
<1>2. ASSUME NEW c \in Call, ans'[c] = ans[c] PROVE Tn(c) = T(c)
  <2>1. ans[c] # "none" => pc[c] = "done"
    BY DEF IInv, Phases
  <2> QED
    BY <1>2, <2>1, RequestKept
<1>3. UNCHANGED ans => UNCHANGED Told
  BY <1>1, <1>2
<1>4. \A c \in Call : ans[c] = "none" => Told[c] = "none"
  BY <1>1
<1>5. ASSUME NEW c \in Call, NEW a \in PC!Answer, ans' = [ans EXCEPT ![c] = a]
      PROVE  Told' = [Told EXCEPT ![c] = Tn(c)] /\ ans'[c] = a
  <2>1. ans'[c] = a /\ \A d \in Call : d # c => ans'[d] = ans[d]
    BY <1>1, <1>5
  <2>2. \A d \in Call : d # c => Tn(d) = T(d)
    BY <1>2, <2>1
  <2> HIDE DEF T, Tn
  <2> QED
    BY <1>1, <2>1, <2>2
<1>6. "ok" \in PC!Answer
  BY DEF PC!Answer
<1>7. \A c \in Call, a \in PC!Answer :
        ans' = [ans EXCEPT ![c] = a] /\ a # "ok" => Told' = [Told EXCEPT ![c] = a]
  BY <1>5
<1>8. ASSUME NEW c \in Call, ans' = [ans EXCEPT ![c] = "ok"]
      PROVE  /\ \E a \in {"ok", "doubt"} : Told' = [Told EXCEPT ![c] = a]
             /\ req'[c].kind = "market" => Told' = [Told EXCEPT ![c] = "doubt"]
  BY <1>5, <1>6, <1>8
<1> QED
  BY <1>3, <1>4, <1>7, <1>8

LEMMA WDStepPromise == IInv /\ [Next]_vars => [WP!Next]_(WP!vars)
<1> SUFFICES ASSUME IInv, [Next]_vars PROVE [WP!Next]_(WP!vars)
  OBVIOUS
<1> USE DEF WP!Declined, WP!Vague, PC!Declined, PC!Vague, PC!Answer
<1>1. ASSUME NEW c \in Call, PC!Decline(c) PROVE WP!Decline(c)
  BY <1>1, ToldStep DEF PC!Decline, WP!Decline
<1>2. ASSUME NEW c \in Call, PC!Submit(c) PROVE WP!Submit(c)
  BY <1>2, ToldStep DEF PC!Submit, WP!Submit
<1>3. ASSUME NEW c \in Call, PC!Settle(c) PROVE WP!Settle(c)
  BY <1>3, ToldStep DEF PC!Settle, WP!Settle
<1>4. ASSUME NEW c \in Call, Told[c] = "none", Told' = [Told EXCEPT ![c] = "doubt"],
             UNCHANGED mst
      PROVE  WP!LoseTouch({c})
  <2>1. Told' = [d \in Call |-> IF d \in {c} THEN "doubt" ELSE Told[d]]
    BY <1>4 DEF Told
  <2> QED
    BY <1>4, <2>1 DEF WP!LoseTouch
<1>5. ASSUME NEW c \in Call, PC!Report(c) PROVE WP!Report(c) \/ WP!LoseTouch({c})
  <2>1. CASE ans' = [ans EXCEPT ![c] = "ok"]
    BY <1>4, <1>5, <2>1, ToldStep DEF PC!Report, WP!Report
  <2>2. CASE ans' = [ans EXCEPT ![c] = "unread"] \/ ans' = [ans EXCEPT ![c] = "failed"]
    BY <1>5, <2>2, ToldStep DEF PC!Report, WP!Report
  <2> QED
    BY <1>5, <2>1, <2>2 DEF PC!Report
<1>6. ASSUME NEW S \in SUBSET Call, PC!LoseTouch(S) PROVE WP!LoseTouch(S)
  <2>1. PICK a \in PC!Vague : ans' = [c \in Call |-> IF c \in S THEN a ELSE ans[c]]
    BY <1>6 DEF PC!LoseTouch
  <2>2. \A c \in Call : c \notin S => ans'[c] = ans[c]
    BY <2>1
  <2>3. \A c \in Call : c \notin S => Told'[c] = Told[c]
    <3> SUFFICES ASSUME NEW c \in Call, c \notin S PROVE Told'[c] = Told[c]
      OBVIOUS
    <3>1. ans[c] # "none" => pc[c] = "done"
      BY DEF IInv, Phases
    <3> QED
      BY <2>2, <3>1, RequestKept DEF Told
  <2>4. \A c \in S : Told'[c] = a /\ Told[c] = "none"
    BY <1>6, <2>1, ToldStep DEF Told, PC!LoseTouch
  <2>5. Told' = [c \in Call |-> IF c \in S THEN a ELSE Told[c]]
    BY <2>3, <2>4 DEF Told
  <2> QED
    BY <1>6, <2>4, <2>5 DEF PC!LoseTouch, WP!LoseTouch
<1>7. ASSUME NEW c \in Call, Unchecked(c) PROVE WP!LoseTouch({c})
  <2>1. /\ ans[c] = "none" /\ ans' = [ans EXCEPT ![c] = "ok"]
        /\ req'[c].kind = "market" /\ UNCHANGED mst
    BY <1>7 DEF Unchecked, WaitUnchecked, Return, wdvars, IInv, Phases
  <2> QED
    BY <1>4, <2>1, ToldStep
<1>8. CASE UNCHANGED PC!vars
  BY <1>8, ToldStep DEF PC!vars, WP!vars
<1>9. [PC!Next]_(PC!vars) \/ \E c \in Call : Unchecked(c)
  BY FrameStep, PWStepPromise DEF IInv, TypeOK, PWInv
<1> QED
  BY <1>1, <1>2, <1>3, <1>5, <1>6, <1>7, <1>8, <1>9 DEF PC!Next, WP!Next

\* The two withdrawals keep the promise of PushCall but for the "success" of
\* MinerWithdrawFromMarket, which says nothing of the message.
THEOREM WDKeepsPromise == Spec => WP!Spec
<1>1. Init => WP!Init
  BY DEF Init, PWInit, WP!Init, Told
<1> QED
  BY <1>1, Invariance, WDStepPromise, PTL DEF Spec, WP!Spec

\* What the answers of the withdrawals say, and say for ever: that of the market's
\* success is that the message has been executed, with whatever exit code.
AnswersLast ==
  \A c \in Call :
    /\ [](ans[c] = "ok" /\ req[c].kind = "miner"  => [](mst[c] = "ok"))
    /\ [](ans[c] = "ok" /\ req[c].kind = "market" => [](mst[c] \in {"ok", "error"}))
    /\ [](ans[c] = "failed"                       => [](mst[c] = "error"))
    /\ [](ans[c] \in PC!Declined                  => [](mst[c] = "none"))

AnswersAgree ==
  \A c \in Call :
    /\ ans[c] = "ok" /\ req[c].kind = "miner"  => mst[c] = "ok"
    /\ ans[c] = "ok" /\ req[c].kind = "market" => mst[c] \in {"ok", "error"}
    /\ ans[c] = "failed"                       => mst[c] = "error"
    /\ ans[c] \in PC!Declined                  => mst[c] = "none"

LEMMA AnswerKept ==
  ASSUME IInv, [Next]_vars, NEW c \in Call, ans[c] # "none"
  PROVE  ans'[c] = ans[c] /\ req'[c] = req[c]
<1>1. pc[c] = "done"
  BY DEF IInv, Phases
<1>2. CASE [PC!Next]_(PC!vars)
  BY <1>1, <1>2, PCAnswersOnce, RequestKept DEF IInv, TypeOK, PWTypeOK, PC!TypeOK
<1>3. ASSUME NEW d \in Call, Unchecked(d) PROVE ans'[c] = ans[c] /\ req'[c] = req[c]
  BY <1>1, <1>3 DEF Unchecked, WaitUnchecked, Return, wdvars, IInv, TypeOK, PWTypeOK
<1> QED
  BY <1>2, <1>3, FrameStep, PWStepPromise DEF IInv, TypeOK, PWInv

LEMMA AnswersAgreeStep == IInv /\ AnswersAgree /\ [Next]_vars => AnswersAgree'
<1> SUFFICES ASSUME IInv, AnswersAgree, [Next]_vars PROVE AnswersAgree'
  OBVIOUS
<1> USE DEF AnswersAgree, PC!Declined, PC!Vague
<1>1. /\ ans \in [Call -> PC!Answer] /\ mst \in [Call -> PC!MsgState]
      /\ \A c \in Call : ans[c] # "none" => req'[c] = req[c]
  BY AnswerKept DEF IInv, TypeOK, PWTypeOK
<1>2. ASSUME NEW c \in Call, PC!Decline(c) PROVE AnswersAgree'
  BY <1>1, <1>2 DEF PC!Decline
<1>3. ASSUME NEW c \in Call, PC!Submit(c) PROVE AnswersAgree'
  BY <1>1, <1>3 DEF PC!Submit
<1>4. ASSUME NEW c \in Call, PC!Settle(c) PROVE AnswersAgree'
  BY <1>1, <1>4 DEF PC!Settle
<1>5. ASSUME NEW c \in Call, PC!Report(c) PROVE AnswersAgree'
  BY <1>1, <1>5 DEF PC!Report
<1>6. ASSUME NEW S \in SUBSET Call, PC!LoseTouch(S) PROVE AnswersAgree'
  BY <1>1, <1>6 DEF PC!LoseTouch
<1>7. ASSUME NEW c \in Call, Unchecked(c) PROVE AnswersAgree'
  BY <1>1, <1>7 DEF Unchecked, WaitUnchecked, Return, wdvars
<1>8. CASE UNCHANGED PC!vars
  BY <1>1, <1>8 DEF PC!vars
<1> HIDE DEF AnswersAgree
<1> QED
  BY <1>2, <1>3, <1>4, <1>5, <1>6, <1>7, <1>8, FrameStep, PWStepPromise
     DEF IInv, TypeOK, PWInv, PC!Next

\* Every answer of the two withdrawals stays true, that of the market included.
THEOREM WDAnswersLast == Spec => AnswersLast
<1>1. Init => AnswersAgree
  BY DEF Init, PWInit, AnswersAgree, PC!Declined
<1>2. Spec => [](IInv /\ AnswersAgree)
  BY <1>1, IInvInit, IInvStep, AnswersAgreeStep, PTL DEF Spec
<1>3. ASSUME NEW c \in Call
      PROVE  Spec =>
        /\ [](ans[c] = "ok" /\ req[c].kind = "miner"  => [](mst[c] = "ok"))
        /\ [](ans[c] = "ok" /\ req[c].kind = "market" => [](mst[c] \in {"ok", "error"}))
        /\ [](ans[c] = "failed"                       => [](mst[c] = "error"))
        /\ [](ans[c] \in PC!Declined                  => [](mst[c] = "none"))
  <2>1. AnswersAgree =>
          /\ ans[c] = "ok" /\ req[c].kind = "miner"  => mst[c] = "ok"
          /\ ans[c] = "ok" /\ req[c].kind = "market" => mst[c] \in {"ok", "error"}
          /\ ans[c] = "failed"                       => mst[c] = "error"
          /\ ans[c] \in PC!Declined                  => mst[c] = "none"
    BY DEF AnswersAgree
  <2>2. IInv /\ [Next]_vars =>
          /\ ans[c] = "ok" /\ req[c].kind = "miner"  => (ans[c] = "ok" /\ req[c].kind = "miner")'
          /\ ans[c] = "ok" /\ req[c].kind = "market" => (ans[c] = "ok" /\ req[c].kind = "market")'
          /\ ans[c] = "failed"                       => (ans[c] = "failed")'
          /\ ans[c] \in PC!Declined                  => (ans[c] \in PC!Declined)'
    BY AnswerKept DEF PC!Declined
  <2> QED
    BY <1>2, <2>1, <2>2, PTL DEF Spec
<1> QED
  BY <1>3 DEF AnswersLast
=============================================================================
