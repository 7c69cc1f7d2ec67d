------------------------------ MODULE Multisig ------------------------------
(***************************************************************************)
(* The commands on a multisig (cmd/cli/msig.go), their handlers            *)
(* (service/impl_msig.go) and the messages they build (pkg/multisig):      *)
(* create one; propose a payment or a change of its signers; approve or    *)
(* cancel a proposal, which is named by its NUMBER and nothing else.       *)
(*                                                                         *)
(* The numbers are given by the multisig actor in the order in which       *)
(* proposals are executed, and the head of the chain, which a listing      *)
(* shows, can still be reorganised.  So the number in an answer, and the   *)
(* number an operator reads in a listing, have to be trusted with care.    *)
(***************************************************************************)
EXTENDS PushWait, Addresses, Integers, FiniteSets, Sequences, Functions

CONSTANTS
  Asks,       \* the requests tried
  Start0,     \* the multisig at the start
  Outside,    \* signers who do not use this venus-tool
  Payee,      \* where payments go
  NoOp,       \* the operation of a number that no proposal has
  MaxSigners, \* SignersMax of the multisig actor, 256
  MaxTxn,     \* bound: the last number given to a proposal
  MaxOutside, \* bound: the messages of the signers in Outside
  MaxReorg    \* bound: the reorganisations of the chain

Num == 0..MaxTxn

NoCall == "outside"   \* who is not a call

\* What a proposal does when it is approved: a payment or a change of signers.
Op == [do : {"send"}, to : Payee]
 \cup [do : {"add", "remove"}, who : Id, alter : BOOLEAN]
 \cup [do : {"swap"}, old : Id, new : Id]

\* A proposal: in votes[i] is the place of i among its approvals, 0 if none.
Fate == {"none", "open", "applied", "refused", "dropped"}
Txn == [op : Op \cup {NoOp}, votes : [Id -> Nat], fate : Fate]

Msig == [signers : SUBSET Id, threshold : Nat, next : Nat, txns : [Num -> Txn]]

(* Requests, and what the commands make of their arguments.  The signers of a
   swap are not looked up; an account without ID would get one then, and is left
   out. *)
Known == {x \in Address : IdOf[x] # NoAddr}

CreateAsk  == [kind : {"create"}, from : Address, signers : Seq(Address),
               threshold : Nat, negative : BOOLEAN]
ProposeAsk == [kind : {"propose"}, from : Address, to : Payee, negative : BOOLEAN]
AddAsk     == [kind : {"add"}, from : Address, signer : Address, alter : BOOLEAN]
RemoveAsk  == [kind : {"remove"}, from : Address, signer : Address, alter : BOOLEAN]
SwapAsk    == [kind : {"swap"}, from : Address, old : Known, new : Known]
ApproveAsk == [kind : {"approve"}, from : Address, tx : Num]
CancelAsk  == [kind : {"cancel"}, from : Address, tx : Num]

Request == CreateAsk \cup ProposeAsk \cup AddAsk \cup RemoveAsk \cup SwapAsk
           \cup ApproveAsk \cup CancelAsk

\* "create" with its defaults: sent by the first signer, approved by all.
CreateByDefault(ss) == [kind |-> "create", from |-> ss[1], signers |-> ss,
                        threshold |-> Len(ss), negative |-> FALSE]

Proposing == {"propose", "add", "remove", "swap"}
Voting    == {"approve", "cancel"}

ASSUME MultisigAssumption ==
  /\ Asks \subseteq Request /\ Asks # {} /\ Start0 \in Msig /\ Outside \subseteq Id
  /\ NoOp \notin Op /\ NoCall \notin Call /\ IsFiniteSet(Id)
  /\ MaxSigners \in Nat \ {0} /\ MaxTxn \in Nat /\ MaxOutside \in Nat /\ MaxReorg \in Nat
  /\ Start0.next = 0 /\ \A n \in Num : Start0.txns[n].fate = "none"
                                    /\ Start0.txns[n].op = NoOp
  /\ \A n \in Num, i \in Id : Start0.txns[n].votes[i] = 0

VARIABLES req,     \* the request of each call
          saw,     \* the operation listed under its number when it began
          msig,    \* the multisig, as far as the chain is final
          tip,     \* the messages executed since: [by, after]
          rcpt,    \* the receipt of each call's message at the head
          told,    \* the receipt its answer was made from
          others,  \* counts the messages of the signers in Outside
          reorgs,  \* counts the reorganisations
          steady   \* history: no reorganisation since the call began

msvars == <<req, saw, msig, tip, rcpt, told, others, reorgs, steady>>
vars == <<pwvars, msvars>>

Receipt == [code : {"none", "ok", "error"}, num : Num, op : Op \cup {NoOp}]
NoReceipt == [code |-> "none", num |-> 0, op |-> NoOp]

Block == [by : Call \cup {NoCall}, after : Msig]

TypeOK == /\ PWTypeOK
          /\ req \in [Call -> Request]
          /\ saw \in [Call -> Op \cup {NoOp}]
          /\ msig \in Msig /\ tip \in Seq(Block)
          /\ rcpt \in [Call -> Receipt] /\ told \in [Call -> Receipt]
          /\ others \in 0..MaxOutside /\ reorgs \in 0..MaxReorg
          /\ steady \in [Call -> BOOLEAN]

Init == /\ PWInit
        /\ req = [c \in Call |-> CHOOSE r \in Asks : TRUE]
        /\ saw = [c \in Call |-> NoOp]
        /\ msig = Start0 /\ tip = <<>>
        /\ rcpt = [c \in Call |-> NoReceipt] /\ told = [c \in Call |-> NoReceipt]
        /\ others = 0 /\ reorgs = 0
        /\ steady = [c \in Call |-> FALSE]
-----------------------------------------------------------------------------
Latest == IF tip = <<>> THEN msig ELSE tip[Len(tip)].after

\* Mutant: the listing counts from one.
ListingFromOne == {[id |-> n + 1, op |-> Latest.txns[n].op] :
                     n \in {k \in Num : Latest.txns[k].fate = "open"}}

\* MsigListPropose: what is pending at the head, each with its number.
Listing == {[id |-> n, op |-> Latest.txns[n].op] :
              n \in {k \in Num : Latest.txns[k].fate = "open"}}

\* The operator gives a command; for a number, after a look at the listing.
Begin(c) ==
  /\ Start(c)
  /\ \E r \in Asks :
       /\ req' = [req EXCEPT ![c] = r]
       /\ saw' = [saw EXCEPT ![c] =
            IF r.kind \in Voting /\ \E l \in Listing : l.id = r.tx
            THEN (CHOOSE l \in Listing : l.id = r.tx).op ELSE NoOp]
  /\ steady' = [steady EXCEPT ![c] = TRUE]
  /\ UNCHANGED <<msig, tip, rcpt, told, others, reorgs>>

Is(c, kinds) == pc[c] \in Prep /\ req[c].kind \in kinds
-----------------------------------------------------------------------------
(* MsigCreate: what is checked, and what is checked of the signers. *)

Resolved(ss) == [k \in DOMAIN ss |-> IdOf[ss[k]]]

\* Mutant: duplicates are looked for among the addresses as given.
DistinctAsGiven(ss) == /\ \A k \in DOMAIN ss : IdOf[ss[k]] # NoAddr
                       /\ IsInjective(ss)

DistinctSigners(ss) == /\ \A k \in DOMAIN ss : IdOf[ss[k]] # NoAddr
                       /\ IsInjective(Resolved(ss))

CreateRefused(c) == /\ Is(c, {"create"})
                    /\ \/ req[c].threshold < 1
                       \/ Len(req[c].signers) < req[c].threshold
                       \/ req[c].negative
                       \/ ~DistinctSigners(req[c].signers)
                    /\ Decline(c, "refused")
                    /\ UNCHANGED msvars

CreateChecked(c) == /\ Is(c, {"create"})
                    /\ req[c].threshold >= 1
                    /\ Len(req[c].signers) >= req[c].threshold
                    /\ ~req[c].negative
                    /\ DistinctSigners(req[c].signers)
                    /\ Ready(c)
                    /\ UNCHANGED msvars

(* MsigPropose: a value below zero is refused, and so are parameters that do
   not decode (which Unavailable covers: for JSON it asks the node). *)

ProposeRefused(c) == /\ Is(c, {"propose"}) /\ req[c].negative
                     /\ Decline(c, "refused")
                     /\ UNCHANGED msvars

ProposeChecked(c) == /\ Is(c, {"propose"}) /\ ~req[c].negative
                     /\ Ready(c)
                     /\ UNCHANGED msvars

(* The others look one address up and compare nothing: the signer to add or to
   remove, or else the sender. *)

\* Mutant: the signer to add is not looked up.
AddNotLookedUp(c) == Is(c, {"add"})

AddLookedUp(c)     == Is(c, {"add"}) /\ IdOf[req[c].signer] # NoAddr
RemoveLookedUp(c)  == Is(c, {"remove"}) /\ IdOf[req[c].signer] # NoAddr
SwapLookedUp(c)    == Is(c, {"swap"}) /\ IdOf[req[c].from] # NoAddr
ApproveLookedUp(c) == Is(c, {"approve"}) /\ IdOf[req[c].from] # NoAddr
CancelLookedUp(c)  == Is(c, {"cancel"}) /\ IdOf[req[c].from] # NoAddr

LookedUp(c) == /\ \/ AddLookedUp(c) \/ RemoveLookedUp(c) \/ SwapLookedUp(c)
                  \/ ApproveLookedUp(c) \/ CancelLookedUp(c)
               /\ Ready(c)
               /\ UNCHANGED msvars

\* An address has no ID, or a call to the node fails: a lookup, the actor for
\* the decoding, or the network version the message is built for.
Unavailable(c) == Decline(c, "unavailable") /\ UNCHANGED msvars
-----------------------------------------------------------------------------
(* The messages.  The actor resolves the addresses in the parameters. *)

SendOp(r)   == [do |-> "send", to |-> r.to]

\* Mutant: the threshold is never to follow.
AddKeepingThreshold(r) == [do |-> "add", who |-> IdOf[r.signer], alter |-> FALSE]

AddOp(r)    == [do |-> "add", who |-> IdOf[r.signer], alter |-> r.alter]
RemoveOp(r) == [do |-> "remove", who |-> IdOf[r.signer], alter |-> r.alter]

SwapOp(r)   == [do |-> "swap", old |-> IdOf[r.old], new |-> IdOf[r.new]]

OpOf(r) == CASE r.kind = "propose" -> SendOp(r)
             [] r.kind = "add"     -> AddOp(r)
             [] r.kind = "remove"  -> RemoveOp(r)
             [] r.kind = "swap"    -> SwapOp(r)

ProposeMsg(i, op) == [do |-> "propose", from |-> i, op |-> op]
VoteMsg(i, do, n) == [do |-> do, from |-> i, tx |-> n]

\* Mutant: both operations build an approval.
ApproveEither(r) == VoteMsg(IdOf[r.from], "approve", r.tx)

\* msigApproveOrCancelSimple: the number, and no hash of the proposal.
ApproveOrCancel(r) == VoteMsg(IdOf[r.from], r.kind, r.tx)

Message(r) == IF r.kind \in Proposing THEN ProposeMsg(IdOf[r.from], OpOf(r))
              ELSE ApproveOrCancel(r)

Push(c) == (PushOk(c) \/ PushFails(c, "doubt")) /\ UNCHANGED msvars

\* Mutant: the answer is made when the message is first seen on the chain.
AnswerUnconfirmed(c) ==
  /\ \/ /\ req[c].kind = "cancel" /\ pc[c] = "wait" /\ rcpt[c].code = "ok"
        /\ Return(c, "ok") /\ UNCHANGED mst
     \/ /\ req[c].kind # "cancel" /\ pc[c] = "wait" /\ rcpt[c].code = "ok"
        /\ Return(c, "ok") /\ UNCHANGED mst
  /\ told' = [told EXCEPT ![c] = rcpt[c]]
  /\ UNCHANGED <<req, saw, msig, tip, rcpt, others, reorgs, steady>>

\* A cancellation answers with no more than success; the others read their
\* answer from the return value in the receipt.
Answered(c) == /\ \/ req[c].kind = "cancel" /\ WaitOk(c)
                  \/ req[c].kind # "cancel" /\ AnswerAfter(c)
               /\ told' = [told EXCEPT ![c] = rcpt[c]]
               /\ UNCHANGED <<req, saw, msig, tip, rcpt, others, reorgs, steady>>

Wait(c) == /\ \/ req[c].kind # "cancel" /\ (WaitOkThen(c) \/ AfterFails(c))
              \/ WaitExit(c) \/ WaitFails(c, "doubt")
           /\ UNCHANGED msvars
-----------------------------------------------------------------------------
(* The multisig actor. *)

Votes(t) == {i \in Id : t.votes[i] > 0}

Open(s, n) == n < s.next /\ s.txns[n].fate = "open"

Enough(s, n) == Cardinality(Votes(s.txns[n])) >= s.threshold

\* The approvals of i of what is pending are taken back; what nobody approves
\* any more is dropped.
Purge(t, i) ==
  LET v == [j \in Id |-> CASE j = i -> 0
                           [] t.votes[j] > t.votes[i] -> t.votes[j] - 1
                           [] OTHER -> t.votes[j]]
  IN  IF t.fate # "open" \/ t.votes[i] = 0 THEN t
      ELSE [t EXCEPT !.votes = v,
                     !.fate = IF \A j \in Id : v[j] = 0 THEN "dropped" ELSE "open"]

Without(s, i) == [s EXCEPT !.signers = @ \ {i},
                           !.txns = [n \in Num |-> Purge(s.txns[n], i)]]

Acceptable(s, op) ==
  CASE op.do = "send"   -> TRUE
    [] op.do = "add"    -> op.who \notin s.signers /\ Cardinality(s.signers) < MaxSigners
    [] op.do = "remove" -> /\ op.who \in s.signers /\ Cardinality(s.signers) > 1
                           /\ IF op.alter THEN s.threshold > 1
                              ELSE Cardinality(s.signers) > s.threshold
    [] op.do = "swap"   -> op.old \in s.signers /\ op.new \notin s.signers

Effect(s, op) ==
  CASE op.do = "send"   -> s
    [] op.do = "add"    -> [s EXCEPT !.signers = @ \cup {op.who},
                                     !.threshold = IF op.alter THEN @ + 1 ELSE @]
    [] op.do = "remove" -> [Without(s, op.who) EXCEPT
                              !.threshold = IF op.alter THEN @ - 1 ELSE @]
    [] op.do = "swap"   -> [Without(s, op.old) EXCEPT !.signers = @ \cup {op.new}]

End(s, n, fate) == [s EXCEPT !.txns[n].fate = fate]

\* What has enough approvals is executed, and is over whether that succeeds.
Run(s, n) == LET op == s.txns[n].op
             IN  IF ~Enough(s, n) THEN s
                 ELSE IF Acceptable(s, op) THEN Effect(End(s, n, "applied"), op)
                 ELSE End(s, n, "refused")

Vote(s, n, i) ==
  [s EXCEPT !.txns[n].votes[i] = Cardinality(Votes(s.txns[n])) + 1]

Propose(s, i, op) ==
  LET t == [op |-> op, votes |-> [j \in Id |-> 0], fate |-> "open"]
  IN  Run(Vote([s EXCEPT !.next = @ + 1, !.txns[s.next] = t], s.next, i), s.next)

Approve(s, i, n) == IF Enough(s, n) THEN Run(s, n) ELSE Run(Vote(s, n, i), n)

\* Whether the actor takes the message, what it is about, and what it leaves.
Takes(s, m) ==
  /\ m.from \in s.signers
  /\ m.do # "propose" => Open(s, m.tx)
  /\ m.do = "approve" => Enough(s, m.tx) \/ s.txns[m.tx].votes[m.from] = 0
  /\ m.do = "cancel"  => s.txns[m.tx].votes[m.from] = 1

About(s, m) == IF m.do = "propose" THEN s.next ELSE m.tx

After(s, m) == CASE m.do = "propose" -> Propose(s, m.from, m.op)
                 [] m.do = "approve" -> Approve(s, m.from, m.tx)
                 [] m.do = "cancel"  -> End(s, m.tx, "dropped")

\* The constructor of a multisig: it resolves the signers by itself.  (That a
\* creation runs out of gas or funds is left out.)
CreateTakes(r) ==
  LET ids == {IdOf[r.signers[k]] : k \in DOMAIN r.signers}
  IN  /\ NoAddr \notin ids
      /\ Cardinality(ids) = Len(r.signers) /\ Len(r.signers) \in 1..MaxSigners
      /\ r.threshold \in 1..Cardinality(ids) /\ ~r.negative
-----------------------------------------------------------------------------
(* The chain. *)

\* A message is executed at the head ...
Include(c) ==
  /\ mst[c] = "pooled" /\ rcpt[c].code = "none"
  /\ req[c].kind # "create" /\ IdOf[req[c].from] # NoAddr
  /\ LET m == Message(req[c])
         n == About(Latest, m)
     IN  IF Takes(Latest, m)
         THEN /\ n \in Num
              /\ rcpt' = [rcpt EXCEPT ![c] =
                   [code |-> "ok", num |-> n, op |-> After(Latest, m).txns[n].op]]
              /\ tip' = Append(tip, [by |-> c, after |-> After(Latest, m)])
         ELSE /\ rcpt' = [rcpt EXCEPT ![c].code = "error"]
              /\ tip' = Append(tip, [by |-> c, after |-> Latest])
  /\ UNCHANGED <<pwvars, req, saw, msig, told, others, reorgs, steady>>

\* ... and so are those of the other signers, whose wallets are elsewhere.
OutsideMsg == {ProposeMsg(i, [do |-> "send", to |-> p]) : i \in Outside, p \in Payee}
         \cup {VoteMsg(i, do, n) : i \in Outside, do \in Voting, n \in Num}

IncludeOther ==
  /\ others < MaxOutside /\ others' = others + 1
  /\ \E m \in OutsideMsg :
       /\ Takes(Latest, m) /\ About(Latest, m) \in Num
       /\ tip' = Append(tip, [by |-> NoCall, after |-> After(Latest, m)])
  /\ UNCHANGED <<pwvars, req, saw, msig, rcpt, told, reorgs, steady>>

\* The oldest of them can no longer be undone: it has the confidence with which
\* MsgWait waits.
Confirm ==
  /\ tip # <<>>
  /\ msig' = tip[1].after /\ tip' = Tail(tip)
  /\ IF tip[1].by \in Call THEN Settle(tip[1].by, rcpt[tip[1].by].code)
     ELSE UNCHANGED pwvars
  /\ UNCHANGED <<req, saw, rcpt, told, others, reorgs, steady>>

\* All that is not final is undone; its messages are pooled as before.
Reorganise ==
  /\ tip # <<>> /\ reorgs < MaxReorg /\ reorgs' = reorgs + 1
  /\ tip' = <<>>
  /\ rcpt' = [c \in Call |-> IF mst[c] = "pooled" THEN NoReceipt ELSE rcpt[c]]
  /\ steady' = [c \in Call |-> steady[c] /\ mst[c] \in {"ok", "error"}]
  /\ UNCHANGED <<pwvars, req, saw, msig, told, others>>

\* The message that creates a multisig: refused for its parameters, or not.
Create(c) == /\ req[c].kind = "create"
             /\ Settle(c, IF CreateTakes(req[c]) THEN "ok" ELSE "error")
             /\ UNCHANGED msvars

NotExecuted(c) == /\ rcpt[c].code = "none" /\ Settle(c, "failed")
                  /\ UNCHANGED msvars

DaemonCrash == Crash /\ UNCHANGED msvars
-----------------------------------------------------------------------------
Handler(c) == \/ CreateRefused(c) \/ CreateChecked(c)
              \/ ProposeRefused(c) \/ ProposeChecked(c)
              \/ LookedUp(c) \/ Unavailable(c)
              \/ Push(c) \/ Wait(c) \/ Answered(c)

Chain == \/ \E c \in Call : Include(c) \/ Create(c) \/ NotExecuted(c)
         \/ IncludeOther \/ Confirm \/ Reorganise

Next == \/ \E c \in Call : Begin(c) \/ Handler(c)
        \/ Chain \/ DaemonCrash

Spec == Init /\ [][Next]_vars
-----------------------------------------------------------------------------
(* Properties. *)

\* What MsigCreate sends is what the constructor of the actor takes, but for one
\* thing: the checks leave the chain to refuse a list of more than MaxSigners,
\* which MsigCreate does not count, and nothing else.
CreateIsTaken ==
  \A c \in Call : req[c].kind = "create" /\ mst[c] \in {"ok", "error"} =>
    (mst[c] = "error" <=> Len(req[c].signers) > MaxSigners)

\* An executed message of call c gave or repeated the approval of i of n.
Asked(c, i, n) == /\ rcpt[c].code = "ok" /\ rcpt[c].num = n
                  /\ req[c].kind \in Proposing \cup {"approve"}
                  /\ IdOf[req[c].from] = i

\* Every approval that counts, pending or used, of a signer whose wallet is here
\* was asked for by a command to propose or to approve; in particular none comes
\* from a cancellation (msigApproveOrCancelSimple builds both).
ApprovalsAsked ==
  \A n \in Num, i \in Id \ Outside :
    msig.txns[n].votes[i] > 0 => \E c \in Call : Asked(c, i, n)

\* The number in an answer is the number of the caller's own proposal, for ever,
\* and no two answers give the same: it is taken from a receipt that is final.
AnsweredForOwn ==
  \A c \in Call : ans[c] = "ok" /\ req[c].kind \in Proposing =>
    /\ told[c].num < msig.next
    /\ msig.txns[told[c].num].op = OpOf(req[c])
    /\ \A d \in Call \ {c} : ans[d] = "ok" /\ req[d].kind \in Proposing =>
         told[d].num # told[c].num

\* An approval or a cancellation is of the proposal its sender saw listed under
\* the number, unless the chain was reorganised in between: then another may
\* have it, and nothing in the message prevents that.
VotesForWhatWasSeen ==
  \A c \in Call :
    mst[c] = "ok" /\ req[c].kind \in Voting /\ steady[c] /\ saw[c] # NoOp =>
      rcpt[c].op = saw[c]

\* What the signers and the threshold become is what some command asked for, in
\* its own words: add this one, remove this one, put this one for that one, and
\* let the threshold follow or not.
Change(r, s, t) ==
  \/ /\ r.kind = "add" /\ IdOf[r.signer] \notin s.signers
     /\ t.signers = s.signers \cup {IdOf[r.signer]}
     /\ t.threshold = IF r.alter THEN s.threshold + 1 ELSE s.threshold
  \/ /\ r.kind = "remove" /\ IdOf[r.signer] \in s.signers
     /\ t.signers = s.signers \ {IdOf[r.signer]}
     /\ t.threshold = IF r.alter THEN s.threshold - 1 ELSE s.threshold
  \/ /\ r.kind = "swap" /\ IdOf[r.old] \in s.signers /\ IdOf[r.new] \notin s.signers
     /\ t.signers = (s.signers \ {IdOf[r.old]}) \cup {IdOf[r.new]}
     /\ t.threshold = s.threshold

SignersSame(s, t) == t.signers = s.signers /\ t.threshold = s.threshold

ChangedAsAsked ==
  [][\/ SignersSame(msig, msig')
     \/ \E c \in Call : mst'[c] = "ok" /\ Change(req[c], msig, msig')]_vars
=============================================================================
