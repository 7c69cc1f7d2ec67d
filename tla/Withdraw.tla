------------------------------ MODULE Withdraw ------------------------------
(***************************************************************************)
(* The two withdrawals of a miner: MinerWithdrawToBeneficiary, from the    *)
(* miner actor, and MinerWithdrawFromMarket, from the market actor through *)
(* droplet (service/impl_miner.go), with their commands (cmd/cli/miner.go).*)
(*                                                                         *)
(* Both read a balance, compare it with the amount asked for (zero or less *)
(* stands for all of it) and answer with the amount they ASKED the chain   *)
(* for.  Meanwhile the balances move: rewards and penalties, deals, other  *)
(* withdrawals.                                                            *)
(***************************************************************************)
EXTENDS PushWait, Integers

CONSTANTS
  Kinds,     \* the withdrawals tried, among "miner" and "market"
  Amounts,   \* <amount> arguments tried
  Funds0,    \* the balances at the start
  MaxFund,   \* bound: the most the miner's available balance grows to
  MaxDebt    \* bound: the deepest its fee debt becomes

\* The balances: the miner's available balance and what its beneficiary may
\* still take, the market's escrow, the part of it locked in deals, and the
\* part droplet has reserved for deals to come.  A miner in fee debt has less
\* than nothing available.
Balance == {n \in Int : n >= -MaxDebt}

Funds == [avail : Balance, quota : Nat, escrow : Nat, locked : Nat, reserved : Nat]

ASSUME WithdrawAssumption ==
  /\ Kinds \subseteq {"miner", "market"} /\ Amounts \subseteq Int
  /\ Funds0 \in Funds /\ MaxFund \in Nat /\ MaxDebt \in Nat
  /\ Funds0.reserved + Funds0.locked <= Funds0.escrow

VARIABLES req,   \* the request of each call
          seen,  \* the balance its handler read
          amt,   \* the amount of its message
          paid,  \* what its message moved
          funds,
          alone  \* history: the calls that overlapped with nothing else

wdvars == <<req, seen, amt, paid, funds, alone>>
vars == <<pwvars, wdvars>>

\* Who the address given with --to is: a party to the miner, which is its owner
\* (the default) or its worker, or somebody else.
To == {"party", "other"}

Request == [kind : {"miner"}, amount : Int, to : {"party"}]
      \cup [kind : {"market"}, amount : Int, to : To]
Requests == {r \in [kind : Kinds, amount : Amounts, to : To] :
               r.kind = "miner" => r.to = "party"}

TypeOK == /\ PWTypeOK
          /\ req \in [Call -> Request]
          /\ seen \in [Call -> Int]
          /\ amt \in [Call -> Balance]
          /\ paid \in [Call -> Nat]
          /\ funds \in Funds
          /\ alone \in [Call -> BOOLEAN]

Init == /\ PWInit
        /\ req = [c \in Call |-> [kind |-> "miner", amount |-> 0, to |-> "party"]]
        /\ seen = [c \in Call |-> 0]
        /\ amt = [c \in Call |-> 0]
        /\ paid = [c \in Call |-> 0]
        /\ funds = Funds0
        /\ alone = [c \in Call |-> FALSE]
-----------------------------------------------------------------------------
Begin(c) ==
  /\ Start(c)
  /\ \E r \in Requests : req' = [req EXCEPT ![c] = r]
  /\ alone' = Overlap(c, alone)
  /\ UNCHANGED <<seen, amt, paid, funds>>

Is(c, kind) == pc[c] \in Prep /\ req[c].kind = kind

\* A call to a service fails, or --to has no ID.
ReadFails(c) == Decline(c, "unavailable") /\ UNCHANGED wdvars

\* Mutant: zero or less does not stand for all.
WantedAsGiven(c, b) == req[c].amount

\* The amount of the message, when the handler finds b available.
Wanted(c, b) == IF req[c].amount <= 0 THEN b ELSE req[c].amount

(* MinerWithdrawToBeneficiary. *)

MinerRefused(c) == /\ pc[c] = "read" /\ Is(c, "miner")
                   /\ funds.avail < req[c].amount
                   /\ Decline(c, "refused")
                   /\ UNCHANGED wdvars

\* Mutant: the amount is the default whether one is given or not.
MinerTakesAll(c) == /\ pc[c] = "read" /\ Is(c, "miner")
                    /\ funds.avail >= req[c].amount
                    /\ seen' = [seen EXCEPT ![c] = funds.avail]
                    /\ amt' = [amt EXCEPT ![c] = funds.avail]
                    /\ Ready(c)
                    /\ UNCHANGED <<req, paid, funds, alone>>

\* Mutant: the amount is not compared with the balance.
MinerUnchecked(c) == /\ pc[c] = "read" /\ Is(c, "miner")
                     /\ seen' = [seen EXCEPT ![c] = funds.avail]
                     /\ amt' = [amt EXCEPT ![c] = Wanted(c, funds.avail)]
                     /\ Ready(c)
                     /\ UNCHANGED <<req, paid, funds, alone>>

MinerChecked(c) == /\ pc[c] = "read" /\ Is(c, "miner")
                   /\ funds.avail >= req[c].amount
                   /\ seen' = [seen EXCEPT ![c] = funds.avail]
                   /\ amt' = [amt EXCEPT ![c] = Wanted(c, funds.avail)]
                   /\ Ready(c)
                   /\ UNCHANGED <<req, paid, funds, alone>>

(* MinerWithdrawFromMarket: StateMarketBalance, then MarketGetReserved. *)

MarketRead(c) == /\ pc[c] = "read" /\ Is(c, "market")
                 /\ seen' = [seen EXCEPT ![c] = funds.escrow - funds.locked]
                 /\ ReadMore(c)
                 /\ UNCHANGED <<req, amt, paid, funds, alone>>

\* Mutant: what droplet has reserved is not subtracted.
FreeWithReserved(c) == seen[c]

Free(c) == seen[c] - funds.reserved

MarketRefused(c) == /\ pc[c] = "check" /\ Is(c, "market")
                    /\ \/ Free(c) <= 0
                       \/ Free(c) < req[c].amount
                       \/ req[c].to = "other"
                    /\ Decline(c, "refused")
                    /\ UNCHANGED wdvars

MarketChecked(c) == /\ pc[c] = "check" /\ Is(c, "market")
                    /\ Free(c) > 0 /\ Free(c) >= req[c].amount
                    /\ req[c].to # "other"
                    /\ amt' = [amt EXCEPT ![c] = Wanted(c, Free(c))]
                    /\ Ready(c)
                    /\ UNCHANGED <<req, seen, paid, funds, alone>>
-----------------------------------------------------------------------------
(* MinerWithdrawToBeneficiary pushes and waits with PushMessageAndWait.
   MinerWithdrawFromMarket has droplet push the message and waits for it with
   MsgWait alone: it does not look at the exit code of the receipt. *)

Push(c) == /\ \/ PushOk(c)
              \/ req[c].kind = "miner" /\ PushFails(c, "panic")
              \/ req[c].kind = "market" /\ PushFails(c, "doubt")
           /\ UNCHANGED wdvars

WaitUnchecked(c) == /\ pc[c] = "wait" /\ mst[c] \in {"ok", "error"}
                    /\ Return(c, "ok")
                    /\ UNCHANGED mst

Wait(c) == /\ \/ req[c].kind = "miner" /\ (WaitOk(c) \/ WaitExit(c))
              \/ req[c].kind = "market" /\ WaitUnchecked(c)
              \/ WaitFails(c, "panic")
           /\ UNCHANGED wdvars
-----------------------------------------------------------------------------
(* The chain. *)

Least(S) == CHOOSE x \in S : \A y \in S : x <= y

\* WithdrawBalance of the miner actor takes what it can of the amount: no more
\* than is available, no more than the beneficiary may still take.  It pays the
\* fee debt first, or fails, and it takes no negative amount.
PayMiner(c) == /\ req[c].kind = "miner" /\ funds.quota > 0
               /\ funds.avail >= 0 /\ amt[c] >= 0
               /\ Settle(c, "ok")
               /\ LET p == Least({amt[c], funds.avail, funds.quota})
                  IN  /\ paid' = [paid EXCEPT ![c] = p]
                      /\ funds' = [funds EXCEPT !.avail = @ - p, !.quota = @ - p]
               /\ UNCHANGED <<req, seen, amt, alone>>

\* WithdrawBalance of the market actor, which knows nothing of what droplet has
\* reserved.
PayMarket(c) == /\ req[c].kind = "market"
                /\ Settle(c, "ok")
                /\ LET p == Least({amt[c], funds.escrow - funds.locked})
                   IN  /\ paid' = [paid EXCEPT ![c] = p]
                       /\ funds' = [funds EXCEPT !.escrow = @ - p]
                /\ UNCHANGED <<req, seen, amt, alone>>

NotExecuted(c) == /\ Settle(c, "error") \/ Settle(c, "failed")
                  /\ UNCHANGED wdvars

\* Rewards vest and penalties are due.
Move == \E n \in -MaxDebt..MaxFund : funds' = [funds EXCEPT !.avail = n]

\* Droplet reserves funds for a deal, and publishes a deal it has reserved for.
Reserve == /\ funds.escrow - funds.locked > funds.reserved
           /\ funds' = [funds EXCEPT !.reserved = @ + 1]
Publish == /\ funds.reserved > 0 /\ funds.escrow > funds.locked
           /\ funds' = [funds EXCEPT !.reserved = @ - 1, !.locked = @ + 1]

Others == /\ Move \/ Reserve \/ Publish
          /\ alone' = [c \in Call |-> alone[c] /\ ~Busy(c)]
          /\ UNCHANGED <<pwvars, req, seen, amt, paid>>

DaemonCrash == Crash /\ UNCHANGED wdvars
-----------------------------------------------------------------------------
Handler(c) == \/ ReadFails(c) \/ MinerRefused(c) \/ MinerChecked(c)
              \/ MarketRead(c) \/ MarketRefused(c) \/ MarketChecked(c)
              \/ Push(c) \/ Wait(c)

Chain(c) == PayMiner(c) \/ PayMarket(c) \/ NotExecuted(c)

Next == \/ \E c \in Call : Begin(c) \/ Handler(c) \/ Chain(c)
        \/ Others \/ DaemonCrash

Spec == Init /\ [][Next]_vars
-----------------------------------------------------------------------------
(* Properties. *)

\* A withdrawal that overlaps with nothing answers with the amount its message
\* moved, unless that was all the beneficiary might still take (both handlers
\* return req.Amount; the commands say "Balance of ... has been withdrawn").
AnsweredAsPaid ==
  \A c \in Call : alone[c] /\ ans[c] = "ok" /\ mst[c] = "ok" =>
    paid[c] = amt[c] \/ (req[c].kind = "miner" /\ funds.quota = 0)

\* A withdrawal given an amount moves no more than that, and one asked for all
\* of it no more than it saw, whatever the balances have become since.
NoMoreThanAsked ==
  \A c \in Call : mst[c] = "ok" =>
    IF req[c].amount > 0 THEN paid[c] <= req[c].amount ELSE paid[c] <= seen[c]

\* The escrow free of deals covers what droplet has reserved, and a withdrawal
\* from the market that overlaps with nothing leaves it so
\* (MinerWithdrawFromMarket subtracting reserved).
Covered == funds.escrow - funds.locked >= funds.reserved

ReservedStep(c) == alone[c] /\ mst[c] = "pooled" /\ mst'[c] = "ok" /\ Covered => Covered'

ReservedIsKept == [][\A c \in Call : ReservedStep(c)]_vars

\* A withdrawal from the market answered with success was executed.
MarketAnswersForReceipt ==
  \A c \in Call : req[c].kind = "market" /\ ans[c] = "ok" => mst[c] = "ok"
=============================================================================
