----------------------------- MODULE MinerOwner -----------------------------
(***************************************************************************)
(* The owner and the beneficiary of one miner:                             *)
(*   MinerSetOwner, MinerConfirmOwner, MinerSetBeneficiary and             *)
(*   MinerConfirmBeneficiary (service/impl_miner.go), and the commands     *)
(*   set-owner and set-beneficiary that call them (cmd/cli/miner.go).      *)
(*                                                                         *)
(* Both change by agreement.  The old owner proposes a new one, who        *)
(* confirms.  The owner proposes a beneficiary and its term, and the       *)
(* beneficiary of now and the nominee confirm.  Proposal and confirmation  *)
(* are the SAME message, ChangeOwnerAddress or ChangeBeneficiary: which of *)
(* the two the miner actor takes it for depends on who sends it and on     *)
(* what is pending when it executes, not on which handler pushed it.       *)
(***************************************************************************)
EXTENDS PushWait, Addresses, Integers

CONSTANTS
  Requests,    \* the requests tried
  Miner0       \* the miner at the start

\* Quota and expiration of a term go together and are one number here: 0 for
\* none, which is what the owner's own term has.
Term == [new : Id, quota : Int, byBeneficiary : BOOLEAN, byNominee : BOOLEAN]

NoTerm == [new |-> NoAddr, quota |-> 0, byBeneficiary |-> FALSE, byNominee |-> FALSE]

\* quota is what the beneficiary may still take: 0 if its term is used up or over.
MinerInfo == [owner : Id, pendingOwner : Id \cup {NoAddr}, beneficiary : Id,
              quota : Int, term : Term \cup {NoTerm}]

Kinds == {"setOwner", "confirmOwner", "setBeneficiary", "byBeneficiary", "byNominee"}

\* The commands let every address and every quota through.
Request == [kind : Kinds, addr : Address, quota : Int]

Message == [from : Id, new : Id, quota : Int]

\* The owner's proposal has the owner's consent, if that is asked for.
OwnerConsents(m) ==
  m.term # NoTerm => /\ m.beneficiary = m.owner => m.term.byBeneficiary
                     /\ m.term.new = m.owner => m.term.byNominee

ASSUME StartAssumption ==
  Requests \subseteq Request /\ Miner0 \in MinerInfo /\ OwnerConsents(Miner0)

VARIABLES req,    \* the request of each call
          msg,    \* sender and parameters of its message
          miner,  \* the miner's info on chain
          alone   \* history: the calls that overlapped with no other

movars == <<req, msg, miner, alone>>
vars == <<pwvars, movars>>

TypeOK == /\ PWTypeOK
          /\ req \in [Call -> Request]
          /\ msg \in [Call -> Message]
          /\ miner \in MinerInfo
          /\ alone \in [Call -> BOOLEAN]

\* req and msg of a call mean nothing until it has set them.
Init ==
  /\ PWInit
  /\ req = [c \in Call |-> [kind |-> "setOwner", addr |-> Miner0.owner, quota |-> 0]]
  /\ msg = [c \in Call |-> [from |-> Miner0.owner, new |-> Miner0.owner, quota |-> 0]]
  /\ miner = Miner0
  /\ alone = [c \in Call |-> FALSE]
-----------------------------------------------------------------------------
Begin(c) == /\ Start(c)
            /\ \E r \in Requests : req' = [req EXCEPT ![c] = r]
            /\ alone' = Overlap(c, alone)
            /\ UNCHANGED <<msg, miner>>

New(c) == IdOf[req[c].addr]

Is(c, kind) == pc[c] = "read" /\ req[c].kind = kind

Refuse(c) == Decline(c, "refused") /\ UNCHANGED movars

Send(c, m) == /\ Ready(c)
              /\ msg' = [msg EXCEPT ![c] = m]
              /\ UNCHANGED <<req, miner, alone>>

\* A call to the node fails before the push, or an address given has no ID.
ReadFails(c) == Decline(c, "unavailable") /\ UNCHANGED movars
-----------------------------------------------------------------------------
(* MinerSetOwner and MinerConfirmOwner: the same check; one sends as the owner
   it read, the other as the new owner. *)

Known(c) == New(c) # NoAddr

OwnerRefused(c) == /\ Is(c, "setOwner") \/ Is(c, "confirmOwner")
                   /\ Known(c) /\ miner.owner = New(c)
                   /\ Refuse(c)

\* Mutant: the new owner is not compared with the old one.
SetOwnerUnchecked(c) ==
  /\ Is(c, "setOwner") /\ Known(c)
  /\ Send(c, [from |-> miner.owner, new |-> New(c), quota |-> 0])

SetOwnerChecked(c) ==
  /\ Is(c, "setOwner") /\ Known(c) /\ miner.owner # New(c)
  /\ Send(c, [from |-> miner.owner, new |-> New(c), quota |-> 0])

\* Mutant: the confirmation is sent as the owner, too.
ConfirmOwnerAsOwner(c) ==
  /\ Is(c, "confirmOwner") /\ Known(c) /\ miner.owner # New(c)
  /\ Send(c, [from |-> miner.owner, new |-> New(c), quota |-> 0])

ConfirmOwnerChecked(c) ==
  /\ Is(c, "confirmOwner") /\ Known(c) /\ miner.owner # New(c)
  /\ Send(c, [from |-> New(c), new |-> New(c), quota |-> 0])
-----------------------------------------------------------------------------
(* MinerSetBeneficiary.  The owner's own term is 0, whatever was asked for. *)

SetBeneficiaryRefused(c) ==
  /\ Is(c, "setBeneficiary") /\ Known(c)
  /\ New(c) = miner.owner /\ miner.beneficiary = miner.owner
  /\ Refuse(c)

\* Mutants: the address is sent as given; the quota is.
BeneficiaryUnresolved(c) ==
  /\ Is(c, "setBeneficiary") /\ Known(c)
  /\ Send(c, [from |-> miner.owner, new |-> req[c].addr, quota |-> req[c].quota])

TermAsGiven(c) == req[c].quota

\* The quota of the message.
AskedTerm(c) == IF New(c) = miner.owner THEN 0 ELSE req[c].quota

SetBeneficiaryChecked(c) ==
  /\ Is(c, "setBeneficiary") /\ Known(c)
  /\ ~(New(c) = miner.owner /\ miner.beneficiary = miner.owner)
  /\ Send(c, [from |-> miner.owner, new |-> New(c), quota |-> AskedTerm(c)])
-----------------------------------------------------------------------------
(* MinerConfirmBeneficiary.  The address given is compared as given, without
   StateLookupID; the term confirmed is the one pending, whatever it is. *)

Confirms(c) == Is(c, "byBeneficiary") \/ Is(c, "byNominee")

Approved(c) == IF req[c].kind = "byNominee" THEN miner.term.byNominee
               ELSE miner.term.byBeneficiary

Confirmable(c) == miner.term # NoTerm /\ miner.term.new = req[c].addr /\ ~Approved(c)

ConfirmBeneficiaryRefused(c) == Confirms(c) /\ ~Confirmable(c) /\ Refuse(c)

\* Mutant: the nominee's confirmation is sent as the beneficiary's.
SenderIgnoringNominee(c) == miner.beneficiary

Sender(c) == IF req[c].kind = "byNominee" THEN miner.term.new ELSE miner.beneficiary

ConfirmBeneficiaryChecked(c) ==
  /\ Confirms(c) /\ Confirmable(c)
  /\ Send(c, [from |-> Sender(c), new |-> miner.term.new, quota |-> miner.term.quota])
-----------------------------------------------------------------------------
(* The end of the four handlers. *)

Push(c) == (PushOk(c) \/ PushFails(c, "panic")) /\ UNCHANGED movars

Wait(c) == /\ \/ WaitOk(c) /\ req[c].kind # "setBeneficiary"
              \/ WaitOkThen(c) /\ req[c].kind = "setBeneficiary"
              \/ WaitExit(c)
              \/ WaitFails(c, "panic")
           /\ UNCHANGED movars

\* MinerSetBeneficiary reads the miner again and answers with the term that is
\* pending by then, whose ever it is; no term is a failure for it.
ReadTerm(c) == /\ \/ AnswerAfter(c) /\ miner.term # NoTerm
                  \/ AfterFails(c)
               /\ UNCHANGED movars
-----------------------------------------------------------------------------
(* The chain: the miner actor, as the handlers rely on it. *)

\* ChangeOwnerAddress: from the owner it is a proposal, and one of the owner
\* itself takes the pending one back; from the pending owner, a confirmation.
OwnerProposes(m) == m.from = miner.owner

OwnerAccepts(m) == OwnerProposes(m) \/ (m.from = miner.pendingOwner /\ m.new = m.from)

ChangeOwner(m) ==
  IF OwnerProposes(m)
  THEN [miner EXCEPT !.pendingOwner = IF m.new = miner.owner THEN NoAddr ELSE m.new]
  ELSE [miner EXCEPT !.owner = m.new, !.pendingOwner = NoAddr, !.term = NoTerm,
                     !.beneficiary = IF @ = miner.owner THEN m.new ELSE @]

\* ChangeBeneficiary: from the owner it is a proposal, which replaces the one
\* pending; from anybody else a confirmation of exactly the term pending.
BeneficiaryAccepts(m) ==
  IF m.from = miner.owner
  THEN IF m.new = miner.owner THEN m.quota = 0 ELSE m.quota > 0
  ELSE miner.term # NoTerm /\ miner.term.new = m.new /\ miner.term.quota = m.quota

\* A beneficiary with nothing left to take need not agree.
ProposedTerm(m) ==
  IF m.from = miner.owner
  THEN [new |-> m.new, quota |-> m.quota,
        byBeneficiary |-> miner.quota = 0, byNominee |-> FALSE]
  ELSE miner.term

ApprovedTerm(m) ==
  [ProposedTerm(m) EXCEPT !.byBeneficiary = @ \/ m.from = miner.beneficiary,
                          !.byNominee = @ \/ m.from = m.new]

ChangeBeneficiary(m) ==
  IF ApprovedTerm(m).byBeneficiary /\ ApprovedTerm(m).byNominee
  THEN [miner EXCEPT !.beneficiary = m.new, !.quota = m.quota, !.term = NoTerm]
  ELSE [miner EXCEPT !.term = ApprovedTerm(m)]

OfOwner(c) == req[c].kind \in {"setOwner", "confirmOwner"}

Accepts(c) == IF OfOwner(c) THEN OwnerAccepts(msg[c]) ELSE BeneficiaryAccepts(msg[c])

Execute(c) == /\ Accepts(c)
              /\ Settle(c, "ok")
              /\ miner' = IF OfOwner(c) THEN ChangeOwner(msg[c])
                          ELSE ChangeBeneficiary(msg[c])
              /\ UNCHANGED <<req, msg, alone>>

\* Chained with another exit code (not accepted, out of gas), or failed.
NotExecuted(c) == /\ Settle(c, "error") \/ Settle(c, "failed")
                  /\ UNCHANGED movars

\* The beneficiary's term ends.
TermEnds == /\ miner.quota > 0
            /\ miner' = [miner EXCEPT !.quota = 0]
            /\ UNCHANGED <<pwvars, req, msg, alone>>

DaemonCrash == Crash /\ UNCHANGED movars
-----------------------------------------------------------------------------
Handler(c) == \/ ReadFails(c)
              \/ OwnerRefused(c) \/ SetOwnerChecked(c) \/ ConfirmOwnerChecked(c)
              \/ SetBeneficiaryRefused(c) \/ SetBeneficiaryChecked(c)
              \/ ConfirmBeneficiaryRefused(c) \/ ConfirmBeneficiaryChecked(c)
              \/ Push(c) \/ Wait(c) \/ ReadTerm(c)

Chain(c) == Execute(c) \/ NotExecuted(c)

Next == \/ \E c \in Call : Begin(c) \/ Handler(c) \/ Chain(c)
        \/ TermEnds \/ DaemonCrash

Spec == Init /\ [][Next]_vars
-----------------------------------------------------------------------------
(* Properties. *)

Executed(c) == mst[c] = "pooled" /\ mst'[c] = "ok"

InEffect(c, m) == m.beneficiary = msg[c].new /\ m.quota = msg[c].quota
Pending(c, m)  == m.term.new = msg[c].new /\ m.term.quota = msg[c].quota

\* After a confirmation of the owner that executes, however late and whatever
\* happened since its check, the owner is the one it names
\* (MinerConfirmOwner sending as p.NewOwner: "Miner owner changed to").
ConfirmOwnerStep(c) ==
  Executed(c) /\ req[c].kind = "confirmOwner" => miner'.owner = New(c)

ConfirmOwnerMoves == [][\A c \in Call : ConfirmOwnerStep(c)]_vars

\* A proposal of an owner moves neither ownership nor the benefit, even one
\* delivered so late that its sender has lost the ownership and is offered it
\* again: it names another than its sender, and so confirms nothing
\* (MinerSetOwner refusing the owner as the new owner).
SetOwnerStep(c) ==
  Executed(c) /\ req[c].kind = "setOwner" =>
    miner' = [miner EXCEPT !.pendingOwner = miner'.pendingOwner]

SetOwnerOnlyProposes == [][\A c \in Call : SetOwnerStep(c)]_vars

\* The message of a command that overlaps with no other is one the miner actor
\* accepts, given a positive quota: the normalised term of
\* MinerSetBeneficiary, the copied term of MinerConfirmBeneficiary.  (Whether
\* an owner is pending MinerConfirmOwner does not look.)
Asked(c) == \/ req[c].kind \in {"setOwner", "byBeneficiary", "byNominee"}
            \/ req[c].kind = "setBeneficiary" /\ req[c].quota > 0

AcceptedByActor ==
  \A c \in Call : alone[c] /\ Asked(c) /\ mst[c] = "pooled" => Accepts(c)

\* A confirmation of the beneficiary that executes leaves the term its handler
\* read pending or in effect, and no other.  The nominee's counts as the
\* nominee's; the beneficiary's as the beneficiary's while that is who it was
\* when read (MinerConfirmBeneficiary: "has been confirm by").
ConfirmBeneficiaryStep(c) ==
  Executed(c) /\ req[c].kind \in {"byBeneficiary", "byNominee"} =>
    \/ InEffect(c, miner') /\ miner'.term = NoTerm
    \/ /\ Pending(c, miner')
       /\ req[c].kind = "byNominee" => miner'.term.byNominee
       /\ req[c].kind = "byBeneficiary" /\ miner.beneficiary = msg[c].from
            => miner'.term.byBeneficiary

ConfirmApproves == [][\A c \in Call : ConfirmBeneficiaryStep(c)]_vars
-----------------------------------------------------------------------------
(* What the code does not keep. *)

\* If no term is pending when MinerSetBeneficiary reads the miner again, its
\* proposal has failed ("owner proposal beneficial change failed").
NoTermMeansFailed ==
  \A c \in Call :
    alone[c] /\ pc[c] = "after" /\ miner.term = NoTerm => ~InEffect(c, miner)
=============================================================================
