-------------------------- MODULE MinerOwnerProof --------------------------
(***************************************************************************)
(* What MinerOwner keeps for every set of calls, addresses and requests.   *)
(***************************************************************************)
EXTENDS MinerOwner, PushWaitProof

\* The handler of c has built its message.
Committed(c) == pc[c] \in {"push", "wait", "after"} \/ mst[c] # "none"

\* Whom a message is from and whom it names.
Prepared ==
  \A c \in Call : Committed(c) =>
    /\ req[c].kind = "setOwner" => msg[c].from # msg[c].new
    /\ req[c].kind = "confirmOwner" => msg[c].from = New(c) /\ msg[c].new = New(c)
    /\ req[c].kind = "byNominee" => msg[c].from = msg[c].new

\* A call that overlaps with no other is the only one in flight, and its message
\* stays one the actor accepts until it is settled.
LoneAccepted ==
  \A c \in Call : alone[c] =>
    /\ Busy(c) => \A d \in Call : Busy(d) => d = c
    /\ Asked(c) /\ (pc[c] = "push" \/ mst[c] = "pooled") => Accepts(c)

IInv == TypeOK /\ Phases /\ OwnerConsents(miner) /\ Prepared /\ LoneAccepted

Checked(c) == \/ SetOwnerChecked(c) \/ ConfirmOwnerChecked(c)
              \/ SetBeneficiaryChecked(c) \/ ConfirmBeneficiaryChecked(c)
-----------------------------------------------------------------------------
(* The frame: every step of MinerOwner is one of PushWait. *)

LEMMA FrameStep == [Next]_vars => [PWNext]_pwvars
<1> SUFFICES ASSUME [Next]_vars PROVE [PWNext]_pwvars
  OBVIOUS
<1>1. ASSUME NEW c \in Call, Begin(c) PROVE PWNext
  BY <1>1 DEF Begin, PWNext
<1>2. ASSUME NEW c \in Call, Handler(c) PROVE PWNext
  <2>1. \/ \E a \in PC!Declined : Decline(c, a)
        \/ Ready(c)
        \/ PushOk(c) \/ PushFails(c, "panic")
        \/ WaitOk(c) \/ WaitOkThen(c) \/ WaitExit(c) \/ WaitFails(c, "panic")
        \/ AnswerAfter(c) \/ AfterFails(c)
    BY <1>2 DEF Handler, ReadFails, OwnerRefused, SetOwnerChecked,
         ConfirmOwnerChecked, SetBeneficiaryRefused, SetBeneficiaryChecked,
         ConfirmBeneficiaryRefused, ConfirmBeneficiaryChecked, Refuse, Send,
         Push, Wait, ReadTerm, PC!Declined
  <2> QED
    BY <2>1 DEF PWNext, Reply, InDoubt
<1>3. ASSUME NEW c \in Call, Chain(c) PROVE PWNext
  <2>1. \E s \in PC!MsgState : Settle(c, s)
    BY <1>3 DEF Chain, Execute, NotExecuted, PC!MsgState
  <2> QED
    BY <2>1 DEF PWNext
<1>4. CASE TermEnds
  BY <1>4 DEF TermEnds
<1>5. CASE DaemonCrash
  BY <1>5 DEF DaemonCrash, PWNext
<1>6. CASE UNCHANGED vars
  BY <1>6 DEF vars
<1> QED
  BY <1>1, <1>2, <1>3, <1>4, <1>5, <1>6 DEF Next

\* The owner and beneficiary handlers keep the promise of PushCall.
THEOREM MOKeepsPromise == Spec => KeepsPromise
<1>1. Init => PWInit
  BY DEF Init
<1> QED
  BY <1>1, FrameStep, PWKeepsPromise, PTL DEF Spec, PWSpec
-----------------------------------------------------------------------------
(* Type correctness. *)

\* A checked request makes a message of ID addresses.
LEMMA SendType ==
  ASSUME TypeOK, NEW c \in Call, Checked(c)
  PROVE  \E m \in Message : Send(c, m)
<1>1. /\ req[c].addr \in Address /\ req[c].quota \in Int
      /\ miner.owner \in Id /\ miner.beneficiary \in Id
      /\ miner.term \in Term \cup {NoTerm}
  BY DEF TypeOK, Request, MinerInfo
<1>2. CASE SetOwnerChecked(c) \/ ConfirmOwnerChecked(c) \/ SetBeneficiaryChecked(c)
  <2>1. New(c) \in Id
    BY <1>1, <1>2, AddressAssumption
       DEF SetOwnerChecked, ConfirmOwnerChecked, SetBeneficiaryChecked, Known, New
  <2>2. AskedTerm(c) \in Int
    BY <1>1 DEF AskedTerm
  <2> QED
    BY <1>1, <1>2, <2>1, <2>2
       DEF SetOwnerChecked, ConfirmOwnerChecked, SetBeneficiaryChecked, Message
<1>3. CASE ConfirmBeneficiaryChecked(c)
  <2>1. miner.term \in Term
    BY <1>1, <1>3 DEF ConfirmBeneficiaryChecked, Confirmable
  <2> QED
    BY <1>1, <1>3, <2>1 DEF ConfirmBeneficiaryChecked, Sender, Message, Term
<1> QED
  BY <1>2, <1>3 DEF Checked

LEMMA ExecutionType ==
  ASSUME miner \in MinerInfo, NEW m \in Message
  PROVE  /\ ChangeOwner(m) \in MinerInfo
         /\ BeneficiaryAccepts(m) =>
              ApprovedTerm(m) \in Term /\ ChangeBeneficiary(m) \in MinerInfo
<1> USE DEF MinerInfo, Message
<1>1. ChangeOwner(m) \in MinerInfo
  BY DEF ChangeOwner
<1>2. ASSUME BeneficiaryAccepts(m) PROVE ApprovedTerm(m) \in Term
  <2>1. ProposedTerm(m) \in Term
    BY <1>2 DEF ProposedTerm, BeneficiaryAccepts, Term
  <2> QED
    BY <2>1 DEF ApprovedTerm, Term
<1>3. ASSUME BeneficiaryAccepts(m) PROVE ChangeBeneficiary(m) \in MinerInfo
  BY <1>2, <1>3 DEF ChangeBeneficiary
<1> QED
  BY <1>1, <1>2, <1>3

LEMMA TypeInit == Init => TypeOK
  BY PWInitInv, StartAssumption DEF Init, TypeOK, PWInv, Request, Message, MinerInfo, Kinds, Address

LEMMA TypeStep == TypeOK /\ Phases /\ [Next]_vars => TypeOK'
<1> SUFFICES ASSUME TypeOK, Phases, [Next]_vars PROVE TypeOK'
  OBVIOUS
<1>1. PWTypeOK'
  BY FrameStep, PWStepInv DEF PWInv, TypeOK
<1>2. ASSUME NEW c \in Call, Begin(c) PROVE TypeOK'
  BY <1>1, <1>2, StartAssumption DEF TypeOK, Begin, Overlap
<1>3. ASSUME NEW c \in Call, Checked(c) PROVE TypeOK'
  <2>1. PICK m \in Message : Send(c, m)
    BY <1>3, SendType
  <2> QED
    BY <1>1, <2>1 DEF TypeOK, Send
<1>4. CASE UNCHANGED movars
  BY <1>1, <1>4 DEF TypeOK, movars
<1>5. ASSUME NEW c \in Call, Execute(c) PROVE TypeOK'
  <2>1. miner' \in MinerInfo
    BY <1>5, ExecutionType DEF TypeOK, Execute, Accepts
  <2> QED
    BY <1>1, <1>5, <2>1 DEF TypeOK, Execute
<1>6. CASE TermEnds
  BY <1>1, <1>6 DEF TypeOK, TermEnds, MinerInfo
<1> QED
  BY <1>2, <1>3, <1>4, <1>5, <1>6
     DEF Next, Handler, Checked, ReadFails, OwnerRefused, SetBeneficiaryRefused,
       ConfirmBeneficiaryRefused, Refuse, Push, Wait, ReadTerm, Chain,
       NotExecuted, DaemonCrash, vars
-----------------------------------------------------------------------------
(* The inductive step. *)

LEMMA PreparedStep == IInv /\ [Next]_vars => Prepared'
<1> SUFFICES ASSUME IInv, [Next]_vars PROVE Prepared'
  OBVIOUS
<1> USE DEF IInv, TypeOK, PWTypeOK, Phases, Prepared, Committed, New, Prep, Live, Step
<1>1. ASSUME NEW c \in Call, Begin(c) PROVE Prepared'
  BY <1>1 DEF Begin, Start, Goto
<1>2. ASSUME NEW c \in Call,
             \/ ReadFails(c) \/ OwnerRefused(c) \/ SetBeneficiaryRefused(c)
             \/ ConfirmBeneficiaryRefused(c)
      PROVE  Prepared'
  BY <1>2 DEF ReadFails, OwnerRefused, SetBeneficiaryRefused,
    ConfirmBeneficiaryRefused, Refuse, Decline, Return, movars
<1>3. ASSUME NEW c \in Call, SetOwnerChecked(c) \/ ConfirmOwnerChecked(c)
      PROVE  Prepared'
  BY <1>3 DEF SetOwnerChecked, ConfirmOwnerChecked, Is, Send, Ready
<1>4. ASSUME NEW c \in Call, SetBeneficiaryChecked(c) \/ ConfirmBeneficiaryChecked(c)
      PROVE  Prepared'
  BY <1>4 DEF SetBeneficiaryChecked, ConfirmBeneficiaryChecked, Confirms, Is,
    Sender, Send, Ready
<1>5. ASSUME NEW c \in Call, Push(c) PROVE Prepared'
  BY <1>5 DEF Push, PushOk, PushFails, Goto, Return, movars
<1>6. ASSUME NEW c \in Call, Wait(c) \/ ReadTerm(c) PROVE Prepared'
  BY <1>6 DEF Wait, ReadTerm, WaitOk, WaitOkThen, WaitExit, WaitFails,
    AnswerAfter, AfterFails, Goto, Return, movars
<1>7. ASSUME NEW c \in Call, Chain(c) PROVE Prepared'
  BY <1>7 DEF Chain, Execute, NotExecuted, Settle, movars
<1>8. CASE TermEnds
  BY <1>8 DEF TermEnds, pwvars
<1>9. CASE DaemonCrash
  BY <1>9 DEF DaemonCrash, Crash, movars
<1>10. CASE UNCHANGED vars
  BY <1>10 DEF vars, pwvars, movars
<1> QED
  BY <1>1, <1>2, <1>3, <1>4, <1>5, <1>6, <1>7, <1>8, <1>9, <1>10 DEF Next, Handler

\* What a checked request sends is accepted by the miner it was checked with.
LEMMA CheckedAccepted ==
  ASSUME IInv, NEW c \in Call, Checked(c), Asked(c)
  PROVE  Accepts(c)'
<1>1. /\ miner' = miner /\ req' = req /\ msg \in [Call -> Message]
      /\ req[c].addr \in Address
  BY DEF Checked, SetOwnerChecked, ConfirmOwnerChecked, SetBeneficiaryChecked,
    ConfirmBeneficiaryChecked, Send, IInv, TypeOK, Request
<1>2. CASE SetOwnerChecked(c)
  BY <1>1, <1>2 DEF SetOwnerChecked, Is, Send, Accepts, OfOwner, OwnerAccepts,
    OwnerProposes
<1>3. CASE ConfirmOwnerChecked(c)
  BY <1>3 DEF ConfirmOwnerChecked, Is, Asked
<1>4. CASE SetBeneficiaryChecked(c)
  BY <1>1, <1>4 DEF SetBeneficiaryChecked, Is, Send, Asked, AskedTerm, Accepts,
    OfOwner, BeneficiaryAccepts
<1>5. CASE ConfirmBeneficiaryChecked(c)
  <2>1. ~OfOwner(c)' /\ miner.term # NoTerm
    BY <1>1, <1>5 DEF ConfirmBeneficiaryChecked, Confirms, Confirmable, Is, OfOwner
  <2>2. msg'[c] = [from |-> Sender(c), new |-> miner.term.new, quota |-> miner.term.quota]
    BY <1>1, <1>5 DEF ConfirmBeneficiaryChecked, Send
  <2>3. Sender(c) # miner.owner
    BY <1>5, <2>1 DEF ConfirmBeneficiaryChecked, Confirmable, Approved, Sender,
      IInv, OwnerConsents
  <2>4. msg'[c].from # miner.owner /\ msg'[c].new = miner.term.new
        /\ msg'[c].quota = miner.term.quota
    BY <2>2, <2>3
  <2>5. BeneficiaryAccepts(msg[c])'
    BY <1>1, <2>1, <2>4 DEF BeneficiaryAccepts
  <2> QED
    BY <2>1, <2>5 DEF Accepts
<1> QED
  BY <1>2, <1>3, <1>4, <1>5 DEF Checked

\* Acceptance does not depend on what the beneficiary has taken.
LEMMA AcceptanceKept ==
  ASSUME NEW c \in Call, msg'[c] = msg[c], req'[c] = req[c],
         miner'.owner = miner.owner, miner'.pendingOwner = miner.pendingOwner,
         miner'.term = miner.term
  PROVE  Accepts(c) <=> Accepts(c)'
  BY DEF Accepts, OfOwner, OwnerAccepts, OwnerProposes, BeneficiaryAccepts

LEMMA ConsentStep == IInv /\ [Next]_vars => OwnerConsents(miner)'
<1> SUFFICES ASSUME IInv, [Next]_vars PROVE OwnerConsents(miner')
  OBVIOUS
<1>1. miner \in MinerInfo
  BY DEF IInv, TypeOK
<1>2. ASSUME NEW c \in Call, Execute(c) PROVE OwnerConsents(miner')
  <2>1. CASE OfOwner(c)
    BY <1>1, <1>2, <2>1 DEF Execute, ChangeOwner, MinerInfo, IInv, OwnerConsents
  <2>2. CASE ~OfOwner(c)
    <3>1. miner' = ChangeBeneficiary(msg[c]) /\ msg[c] \in Message
          /\ BeneficiaryAccepts(msg[c])
      BY <1>2, <2>2 DEF Execute, Accepts, IInv, TypeOK
    <3> QED
      BY <1>1, <3>1 DEF ChangeBeneficiary, ApprovedTerm, ProposedTerm, Message,
        BeneficiaryAccepts, MinerInfo, Term, IInv, OwnerConsents
  <2> QED
    BY <2>1, <2>2
<1>3. CASE TermEnds
  BY <1>1, <1>3 DEF TermEnds, MinerInfo, IInv, OwnerConsents
<1>4. miner' = miner \/ TermEnds \/ \E c \in Call : Execute(c)
  BY DEF Next, Begin, Handler, ReadFails, OwnerRefused, SetOwnerChecked,
    ConfirmOwnerChecked, SetBeneficiaryRefused, SetBeneficiaryChecked,
    ConfirmBeneficiaryRefused, ConfirmBeneficiaryChecked, Refuse, Send, Push,
    Wait, ReadTerm, Chain, NotExecuted, DaemonCrash, movars, vars
<1> QED
  BY <1>2, <1>3, <1>4 DEF IInv

LEMMA LoneAcceptedStep == IInv /\ [Next]_vars => LoneAccepted'
<1> SUFFICES ASSUME IInv, [Next]_vars PROVE LoneAccepted'
  OBVIOUS
<1> USE DEF IInv, TypeOK, PWTypeOK, Phases, LoneAccepted, Busy, Prep, Live, Step
<1>1. ASSUME NEW c \in Call, Begin(c) PROVE LoneAccepted'
  <2>1. \A d \in Call : d # c => req'[d] = req[d] /\ msg' = msg /\ miner' = miner
    BY <1>1 DEF Begin
  <2>2. \A d \in Call : d # c => (Accepts(d) <=> Accepts(d)') /\ (Asked(d) <=> Asked(d)')
    BY <2>1, AcceptanceKept DEF Asked
  <2> QED
    BY <1>1, <2>2 DEF Begin, Start, Goto, Overlap
<1>2. ASSUME UNCHANGED <<req, msg, miner>>
      PROVE  \A d \in Call : (Accepts(d) <=> Accepts(d)') /\ (Asked(d) <=> Asked(d)')
  BY <1>2, AcceptanceKept DEF Asked
<1>3. ASSUME NEW c \in Call,
             \/ ReadFails(c) \/ OwnerRefused(c) \/ SetBeneficiaryRefused(c)
             \/ ConfirmBeneficiaryRefused(c)
      PROVE  LoneAccepted'
  BY <1>2, <1>3 DEF ReadFails, OwnerRefused, SetBeneficiaryRefused,
    ConfirmBeneficiaryRefused, Refuse, Decline, Return, movars
<1>4. ASSUME NEW c \in Call, Checked(c) PROVE LoneAccepted'
  <2>1. PICK m \in Message : Send(c, m)
    BY <1>4, SendType
  <2>2. Asked(c)' => Accepts(c)'
    BY <1>4, <2>1, CheckedAccepted DEF Send, Asked
  <2>3. ASSUME NEW d \in Call, d # c
        PROVE  (Accepts(d) <=> Accepts(d)') /\ (Asked(d) <=> Asked(d)')
    BY <2>1, <2>3, AcceptanceKept DEF Send, Asked
  <2> QED
    BY <2>1, <2>2, <2>3 DEF Send, Ready
<1>5. ASSUME NEW c \in Call, Push(c) PROVE LoneAccepted'
  BY <1>2, <1>5 DEF Push, PushOk, PushFails, Goto, Return, movars
<1>6. ASSUME NEW c \in Call, Wait(c) \/ ReadTerm(c) PROVE LoneAccepted'
  BY <1>2, <1>6 DEF Wait, ReadTerm, WaitOk, WaitOkThen, WaitExit, WaitFails,
    AnswerAfter, AfterFails, Goto, Return, movars
<1>7. ASSUME NEW c \in Call, Execute(c) PROVE LoneAccepted'
  BY <1>7 DEF Execute, Settle
<1>8. ASSUME NEW c \in Call, NotExecuted(c) PROVE LoneAccepted'
  BY <1>2, <1>8 DEF NotExecuted, Settle, movars
<1>9. CASE TermEnds
  <2>1. \A d \in Call : (Accepts(d) <=> Accepts(d)') /\ (Asked(d) <=> Asked(d)')
    BY <1>9, AcceptanceKept DEF TermEnds, Asked, MinerInfo
  <2> QED
    BY <1>9, <2>1 DEF TermEnds, pwvars
<1>10. CASE DaemonCrash
  BY <1>2, <1>10 DEF DaemonCrash, Crash, movars
<1>11. CASE UNCHANGED vars
  BY <1>2, <1>11 DEF vars, pwvars, movars
<1> QED
  BY <1>1, <1>3, <1>4, <1>5, <1>6, <1>7, <1>8, <1>9, <1>10, <1>11
     DEF Next, Handler, Chain, Checked
-----------------------------------------------------------------------------
(* The theorems. *)

LEMMA IInvInit == Init => IInv
<1> SUFFICES ASSUME Init PROVE IInv
  OBVIOUS
<1>1. TypeOK /\ Phases
  BY TypeInit, PWInitInv DEF PWInv, Init
<1>2. Prepared /\ LoneAccepted
  BY DEF Init, PWInit, Prepared, Committed, LoneAccepted
<1> QED
  BY <1>1, <1>2, StartAssumption DEF IInv, Init

LEMMA IInvStep == IInv /\ [Next]_vars => IInv'
<1> SUFFICES ASSUME IInv, [Next]_vars PROVE IInv'
  OBVIOUS
<1>1. TypeOK' /\ Phases'
  BY TypeStep, FrameStep, PWStepInv DEF IInv, TypeOK, PWInv
<1> QED
  BY <1>1, ConsentStep, PreparedStep, LoneAcceptedStep DEF IInv

THEOREM Invariance == Spec => []IInv
  BY IInvInit, IInvStep, PTL DEF Spec

\* Every value of the variables of MinerOwner is of its type.
THEOREM MOTypeCorrect == Spec => []TypeOK
<1>1. IInv => TypeOK
  BY DEF IInv
<1> QED
  BY <1>1, Invariance, PTL

\* The message of a command that overlaps with no other is one the miner actor
\* accepts, as long as it is in the pool.
THEOREM MOAcceptedByActor == Spec => []AcceptedByActor
<1>1. IInv => AcceptedByActor
  BY DEF IInv, LoneAccepted, AcceptedByActor
<1> QED
  BY <1>1, Invariance, PTL

\* A message is executed by nothing but the chain, and as its handler made it.
LEMMA ExecutedBy ==
  ASSUME IInv, [Next]_vars, NEW c \in Call, Executed(c)
  PROVE  /\ Execute(c) /\ Committed(c)
         /\ miner \in MinerInfo /\ msg[c] \in Message /\ req[c] \in Request
<1>1. Phases /\ mst \in [Call -> PC!MsgState]
  BY DEF IInv, TypeOK, PWTypeOK
<1>2. ASSUME NEW d \in Call, Handler(d) \/ Begin(d) PROVE mst'[c] = "pooled"
  BY <1>1, <1>2 DEF Begin, Start, Handler, ReadFails, OwnerRefused,
    SetOwnerChecked, ConfirmOwnerChecked, SetBeneficiaryRefused,
    SetBeneficiaryChecked, ConfirmBeneficiaryRefused, ConfirmBeneficiaryChecked,
    Refuse, Send, Push, Wait, ReadTerm, Decline, Ready, PushOk, PushFails, WaitOk,
    WaitOkThen, WaitExit, WaitFails, AnswerAfter, AfterFails, Phases, Goto, Executed
<1>3. ASSUME NEW d \in Call, Chain(d) PROVE Execute(c)
  BY <1>1, <1>3 DEF Chain, Execute, NotExecuted, Settle, Executed
<1>4. Execute(c)
  BY <1>2, <1>3 DEF Next, TermEnds, DaemonCrash, Crash, vars, pwvars, Executed
<1> QED
  BY <1>4 DEF Committed, Executed, IInv, TypeOK

\* However late the confirmation of an owner executes, the owner is then the
\* one it names.
THEOREM MOConfirmOwnerMoves == Spec => ConfirmOwnerMoves
<1>1. IInv /\ [Next]_vars => [\A c \in Call : ConfirmOwnerStep(c)]_vars
  <2> SUFFICES ASSUME IInv, [Next]_vars, NEW c \in Call, Executed(c),
                      req[c].kind = "confirmOwner"
               PROVE  miner'.owner = New(c)
    BY DEF ConfirmOwnerStep
  <2>1. Execute(c) /\ Committed(c) /\ miner \in MinerInfo
    BY ExecutedBy
  <2>2. msg[c].from = New(c) /\ msg[c].new = New(c)
    BY <2>1 DEF IInv, Prepared
  <2>3. miner' = ChangeOwner(msg[c])
    BY <2>1 DEF Execute, OfOwner
  <2> QED
    BY <2>1, <2>2, <2>3 DEF ChangeOwner, OwnerProposes, MinerInfo
<1> QED
  BY <1>1, Invariance, PTL DEF Spec, ConfirmOwnerMoves

\* No proposal of an owner, however late, confirms one.
THEOREM MOSetOwnerOnlyProposes == Spec => SetOwnerOnlyProposes
<1>1. IInv /\ [Next]_vars => [\A c \in Call : SetOwnerStep(c)]_vars
  <2> SUFFICES ASSUME IInv, [Next]_vars, NEW c \in Call, Executed(c),
                      req[c].kind = "setOwner"
               PROVE  miner' = [miner EXCEPT !.pendingOwner = miner'.pendingOwner]
    BY DEF SetOwnerStep
  <2>1. Execute(c) /\ Committed(c) /\ miner \in MinerInfo
    BY ExecutedBy
  <2>2. msg[c].from # msg[c].new
    BY <2>1 DEF IInv, Prepared
  <2>3. miner' = ChangeOwner(msg[c]) /\ OwnerAccepts(msg[c])
    BY <2>1 DEF Execute, Accepts, OfOwner
  <2>4. OwnerProposes(msg[c])
    BY <2>2, <2>3 DEF OwnerAccepts
  <2> QED
    BY <2>1, <2>3, <2>4 DEF ChangeOwner, MinerInfo
<1> QED
  BY <1>1, Invariance, PTL DEF Spec, SetOwnerOnlyProposes

\* A confirmation of the beneficiary approves the term its handler read and no
\* other, in the name it was asked to.
THEOREM MOConfirmApproves == Spec => ConfirmApproves
<1>1. IInv /\ [Next]_vars => [\A c \in Call : ConfirmBeneficiaryStep(c)]_vars
  <2> SUFFICES ASSUME IInv, [Next]_vars, NEW c \in Call, Executed(c),
                      req[c].kind \in {"byBeneficiary", "byNominee"}
               PROVE  ConfirmBeneficiaryStep(c)
    BY DEF ConfirmBeneficiaryStep
  <2>1. Execute(c) /\ Committed(c) /\ miner \in MinerInfo /\ msg[c] \in Message
        /\ msg' = msg
    BY ExecutedBy DEF Execute
  <2>2. req[c].kind = "byNominee" => msg[c].from = msg[c].new
    BY <2>1 DEF IInv, Prepared
  <2>3. miner' = ChangeBeneficiary(msg[c]) /\ BeneficiaryAccepts(msg[c])
    BY <2>1 DEF Execute, Accepts, OfOwner
  <2>4. ApprovedTerm(msg[c]) \in Term
    BY <2>1, <2>3, ExecutionType
  <2>5. CASE ApprovedTerm(msg[c]).byBeneficiary /\ ApprovedTerm(msg[c]).byNominee
    <3>1. InEffect(c, miner') /\ miner'.term = NoTerm
      BY <2>1, <2>3, <2>5 DEF ChangeBeneficiary, InEffect, MinerInfo
    <3> QED
      BY <3>1 DEF ConfirmBeneficiaryStep
  <2>6. CASE ~(ApprovedTerm(msg[c]).byBeneficiary /\ ApprovedTerm(msg[c]).byNominee)
    <3>1. miner'.term = ApprovedTerm(msg[c])
      BY <2>1, <2>3, <2>6 DEF ChangeBeneficiary, MinerInfo
    <3>2. /\ ProposedTerm(msg[c]) \in Term
          /\ ProposedTerm(msg[c]).new = msg[c].new
          /\ ProposedTerm(msg[c]).quota = msg[c].quota
      BY <2>1, <2>3 DEF ProposedTerm, BeneficiaryAccepts, MinerInfo, Message, Term
    <3>3. Pending(c, miner')
      BY <3>1, <3>2 DEF ApprovedTerm, Pending, Term
    <3>4. req[c].kind = "byNominee" => miner'.term.byNominee
      BY <2>2, <3>1, <3>2 DEF ApprovedTerm, Term
    <3>5. miner.beneficiary = msg[c].from => miner'.term.byBeneficiary
      BY <3>1, <3>2 DEF ApprovedTerm, Term
    <3> QED
      BY <3>3, <3>4, <3>5 DEF ConfirmBeneficiaryStep
  <2> QED
    BY <2>5, <2>6
<1> QED
  BY <1>1, Invariance, PTL DEF Spec, ConfirmApproves

-----------------------------------------------------------------------------
(* What a command that overlaps with no other is answered with. *)

TermInEffect(c) == /\ miner.term = NoTerm /\ miner.beneficiary = msg[c].new
                   /\ miner.quota \in {msg[c].quota, 0}

TermPending(c) == miner.term # NoTerm /\ Pending(c, miner)

\* What "success" says of the miner: the owner given is the pending one, or the
\* owner; the term given is pending, or, if the owner takes the benefit back from
\* a beneficiary whose term is over, in effect; the term read is approved in the
\* name asked for, or in effect.
AnswerIsSo(c) ==
  /\ req[c].kind = "setOwner" => miner.pendingOwner = New(c)
  /\ req[c].kind = "confirmOwner" =>
       miner.owner = New(c) /\ miner.pendingOwner = NoAddr
  /\ req[c].kind = "setBeneficiary" =>
       /\ msg[c].new = New(c) /\ msg[c].quota = AskedTerm(c)
       /\ TermPending(c) \/ (TermInEffect(c) /\ New(c) = miner.owner)
  /\ req[c].kind = "byBeneficiary" =>
       /\ msg[c].new = req[c].addr
       /\ TermInEffect(c) \/ (TermPending(c) /\ miner.term.byBeneficiary)
  /\ req[c].kind = "byNominee" =>
       /\ msg[c].new = req[c].addr
       /\ TermInEffect(c) \/ (TermPending(c) /\ miner.term.byNominee)

LoneAnswerIsSo ==
  [][\A c \in Call : alone[c] /\ ans[c] = "none" /\ ans'[c] \in {"ok", "unread"}
                       => AnswerIsSo(c)]_vars

\* A lone proposal of a beneficiary that finds no term pending is in effect.
NoTermMeansTaken ==
  \A c \in Call : alone[c] /\ pc[c] = "after" /\ miner.term = NoTerm =>
    New(c) = miner.owner /\ InEffect(c, miner)

\* Its message is what its handler would make of the miner as it is.
AsRead(c) ==
  /\ req[c].kind = "setOwner" =>
       /\ msg[c].from = miner.owner /\ msg[c].new = New(c) /\ New(c) # miner.owner
  /\ req[c].kind = "confirmOwner" => New(c) # miner.owner
  /\ req[c].kind = "setBeneficiary" =>
       /\ msg[c].from = miner.owner /\ msg[c].new = New(c)
       /\ msg[c].quota = AskedTerm(c)
  /\ req[c].kind \in {"byBeneficiary", "byNominee"} =>
       /\ msg[c].from = Sender(c) /\ msg[c].from # miner.owner
       /\ msg[c].new = req[c].addr

Sending(c) == pc[c] = "push" \/ mst[c] = "pooled"
Waiting(c) == pc[c] \in {"wait", "after"} /\ mst[c] = "ok"

LoneMessages ==
  \A c \in Call : /\ alone[c] /\ Sending(c) => AsRead(c)
                  /\ alone[c] /\ Waiting(c) => AnswerIsSo(c)
                  /\ pc[c] = "after" => req[c].kind = "setBeneficiary"

\* The parties to the miner are the same; its quota may have been used up.
SameParties ==
  /\ miner'.owner = miner.owner /\ miner'.pendingOwner = miner.pendingOwner
  /\ miner'.beneficiary = miner.beneficiary /\ miner'.term = miner.term
  /\ miner'.quota \in {miner.quota, 0}

\* How a lone call gets to where it is.
LEMMA LoneKept ==
  ASSUME IInv, [Next]_vars, NEW c \in Call, alone'[c], Sending(c)' \/ Waiting(c)'
  PROVE  \/ Checked(c) /\ ~Waiting(c)'
         \/ alone[c] /\ Execute(c)
         \/ /\ alone[c] /\ req'[c] = req[c] /\ msg'[c] = msg[c] /\ SameParties
            /\ Sending(c)' => Sending(c)
            /\ Waiting(c)' => Waiting(c)
<1> DEFINE Goal == \/ Checked(c) /\ ~Waiting(c)'
                   \/ alone[c] /\ Execute(c)
                   \/ /\ alone[c] /\ req'[c] = req[c] /\ msg'[c] = msg[c] /\ SameParties
                      /\ Sending(c)' => Sending(c)
                      /\ Waiting(c)' => Waiting(c)
<1> USE DEF IInv, TypeOK, PWTypeOK, Phases, Prep, Live, Step, Sending, Waiting
<1>1. ASSUME NEW d \in Call, Begin(d) PROVE Goal
  BY <1>1 DEF Begin, Start, Goto, Overlap, Busy, SameParties
<1>2. ASSUME NEW d \in Call, Checked(d) PROVE Goal
  <2>1. PICK m \in Message : Send(d, m)
    BY <1>2, SendType
  <2>2. pc[d] = "read"
    BY <1>2 DEF Checked, SetOwnerChecked, ConfirmOwnerChecked, SetBeneficiaryChecked,
      ConfirmBeneficiaryChecked, Confirms, Is
  <2> QED
    BY <1>2, <2>1, <2>2 DEF Send, Ready, SameParties, LoneAccepted, Busy
<1>3. ASSUME NEW d \in Call, Handler(d), UNCHANGED movars PROVE Goal
  <2>1. SameParties /\ alone[c] /\ req'[c] = req[c] /\ msg'[c] = msg[c]
    BY <1>3 DEF movars, SameParties
  <2>2. \/ \E a \in PC!Declined : Decline(d, a)
        \/ PushOk(d) \/ PushFails(d, "panic")
        \/ WaitOk(d) \/ WaitOkThen(d) \/ WaitExit(d) \/ WaitFails(d, "panic")
        \/ AnswerAfter(d) \/ AfterFails(d)
        \/ Checked(d)
    BY <1>3 DEF Handler, Checked, ReadFails, OwnerRefused, SetBeneficiaryRefused,
      ConfirmBeneficiaryRefused, Refuse, Push, Wait, ReadTerm, PC!Declined
  <2>3. ((Sending(c)' => Sending(c)) /\ (Waiting(c)' => Waiting(c))) \/ Checked(d)
    BY <2>2 DEF Decline, PushOk, PushFails, WaitOk, WaitOkThen, WaitExit,
      WaitFails, AnswerAfter, AfterFails, Goto, Return
  <2> QED
    BY <1>2, <2>1, <2>3
<1>4. ASSUME NEW d \in Call, Execute(d) PROVE Goal
  <2>1. alone[c] /\ (Sending(c) \/ pc[c] \in {"wait", "after"})
    BY <1>4 DEF Execute, Settle
  <2>2. d = c
    BY <1>4, <2>1 DEF LoneAccepted, Busy, Execute, Settle
  <2> QED
    BY <1>4, <2>1, <2>2
<1>5. ASSUME NEW d \in Call, NotExecuted(d) PROVE Goal
  BY <1>5 DEF NotExecuted, Settle, movars, SameParties
<1>6. CASE TermEnds
  <2>1. /\ miner' = [miner EXCEPT !.quota = 0] /\ miner \in MinerInfo
        /\ UNCHANGED <<pc, mst, req, msg, alone>>
    BY <1>6 DEF TermEnds, pwvars
  <2>2. SameParties
    BY <2>1 DEF MinerInfo, SameParties
  <2> QED
    BY <2>1, <2>2
<1>7. CASE DaemonCrash \/ UNCHANGED vars
  BY <1>7 DEF DaemonCrash, Crash, vars, pwvars, movars, SameParties
<1>8. ASSUME NEW d \in Call, Handler(d) PROVE UNCHANGED movars \/ Checked(d)
  BY <1>8 DEF Handler, Checked, ReadFails, OwnerRefused, SetBeneficiaryRefused,
    ConfirmBeneficiaryRefused, Refuse, Push, Wait, ReadTerm
<1> HIDE DEF IInv, TypeOK, PWTypeOK, Phases
<1>9. Goal
  BY <1>1, <1>2, <1>3, <1>4, <1>5, <1>6, <1>7, <1>8 DEF Next, Chain
<1> QED
  BY <1>9 DEF Goal

\* A checked message is made of the miner as it is.
LEMMA CheckedAsRead ==
  ASSUME IInv, NEW c \in Call, Checked(c)
  PROVE  AsRead(c)'
<1>1. /\ miner' = miner /\ req' = req /\ msg \in [Call -> Message]
      /\ miner \in MinerInfo /\ req[c] \in Request
  BY DEF Checked, SetOwnerChecked, ConfirmOwnerChecked, SetBeneficiaryChecked,
    ConfirmBeneficiaryChecked, Send, IInv, TypeOK
<1>2. New(c)' = New(c) /\ AskedTerm(c)' = AskedTerm(c) /\ Sender(c)' = Sender(c)
  BY <1>1 DEF New, AskedTerm, Sender
<1>3. CASE SetOwnerChecked(c) \/ ConfirmOwnerChecked(c)
  BY <1>1, <1>2, <1>3 DEF SetOwnerChecked, ConfirmOwnerChecked, Is, Send, AsRead
<1>4. CASE SetBeneficiaryChecked(c)
  BY <1>1, <1>2, <1>4 DEF SetBeneficiaryChecked, Is, Send, AsRead
<1>5. CASE ConfirmBeneficiaryChecked(c)
  <2>1. Sender(c) # miner.owner
    BY <1>5 DEF ConfirmBeneficiaryChecked, Confirmable, Approved, Sender,
      IInv, OwnerConsents
  <2> QED
    BY <1>1, <1>2, <1>5, <2>1
       DEF ConfirmBeneficiaryChecked, Confirms, Confirmable, Is, Send, AsRead
<1> QED
  BY <1>3, <1>4, <1>5 DEF Checked

\* Executed on the miner it was made of, a message does what success means.
LEMMA LoneExecution ==
  ASSUME IInv, [Next]_vars, NEW c \in Call, AsRead(c), Execute(c)
  PROVE  AnswerIsSo(c)'
<1>1. /\ miner \in MinerInfo /\ msg[c] \in Message /\ req[c] \in Request
      /\ UNCHANGED <<req, msg>> /\ Committed(c) /\ Accepts(c)
  BY DEF Execute, Settle, IInv, TypeOK, PWTypeOK, Committed
<1>2. New(c)' = New(c)
  BY <1>1 DEF New
<1>3. CASE req[c].kind = "setOwner"
  <2>1. miner' = ChangeOwner(msg[c])
    BY <1>3 DEF Execute, OfOwner
  <2>2. miner'.pendingOwner = New(c)
    BY <1>1, <1>3, <2>1 DEF AsRead, ChangeOwner, OwnerProposes, MinerInfo
  <2> QED
    BY <1>1, <1>2, <1>3, <2>2 DEF AnswerIsSo
<1>4. CASE req[c].kind = "confirmOwner"
  <2>1. miner' = ChangeOwner(msg[c])
    BY <1>4 DEF Execute, OfOwner
  <2>2. miner'.owner = New(c) /\ miner'.pendingOwner = NoAddr
    BY <1>1, <1>4, <2>1
       DEF AsRead, IInv, Prepared, ChangeOwner, OwnerProposes, MinerInfo
  <2> QED
    BY <1>1, <1>2, <1>4, <2>2 DEF AnswerIsSo
<1>5. CASE ~OfOwner(c)
  <2>1. miner' = ChangeBeneficiary(msg[c]) /\ BeneficiaryAccepts(msg[c])
    BY <1>1, <1>5 DEF Execute, Accepts
  <2>2. /\ ProposedTerm(msg[c]) \in Term /\ ApprovedTerm(msg[c]) \in Term
        /\ ProposedTerm(msg[c]).new = msg[c].new
        /\ ProposedTerm(msg[c]).quota = msg[c].quota
    BY <1>1, <2>1, ExecutionType
       DEF ProposedTerm, BeneficiaryAccepts, MinerInfo, Message, Term
  <2>3. ApprovedTerm(msg[c]) # NoTerm
    <3>1. ApprovedTerm(msg[c]).new # NoAddr
      BY <2>2, AddressAssumption DEF Term, Address
    <3> QED
      BY <3>1 DEF NoTerm
  <2> DEFINE Agreed == ApprovedTerm(msg[c]).byBeneficiary /\ ApprovedTerm(msg[c]).byNominee
  <2>4. CASE Agreed
    <3>1. TermInEffect(c)'
      BY <1>1, <2>1, <2>4 DEF ChangeBeneficiary, MinerInfo, TermInEffect
    <3>2. req[c].kind = "setBeneficiary" =>
            New(c) = miner.owner /\ miner'.owner = miner.owner
      BY <1>1, <2>1, <2>2, <2>4
         DEF ApprovedTerm, ProposedTerm, Term, AsRead, ChangeBeneficiary, MinerInfo
    <3>3. req[c].kind = "setBeneficiary" => AskedTerm(c)' = AskedTerm(c)
      BY <1>1, <1>2, <3>2 DEF AskedTerm
    <3> QED
      BY <1>1, <1>2, <1>5, <3>1, <3>2, <3>3 DEF AnswerIsSo, AsRead, OfOwner
  <2>5. CASE ~Agreed
    <3>1. miner' = [miner EXCEPT !.term = ApprovedTerm(msg[c])]
      BY <2>1, <2>5 DEF ChangeBeneficiary
    <3>2. miner'.term = ApprovedTerm(msg[c]) /\ miner'.owner = miner.owner
      BY <1>1, <3>1 DEF MinerInfo
    <3>3. TermPending(c)'
      BY <1>1, <2>2, <2>3, <3>2 DEF ApprovedTerm, Term, TermPending, Pending
    <3>4. AskedTerm(c)' = AskedTerm(c)
      BY <1>1, <1>2, <3>2 DEF AskedTerm
    <3>5. req[c].kind = "byBeneficiary" => miner'.term.byBeneficiary
      BY <1>1, <2>2, <3>2 DEF AsRead, Sender, ApprovedTerm, Term
    <3>6. req[c].kind = "byNominee" => miner'.term.byNominee
      BY <1>1, <2>2, <3>2 DEF IInv, Prepared, ApprovedTerm, Term
    <3> QED
      BY <1>1, <1>2, <1>5, <3>3, <3>4, <3>5, <3>6 DEF AnswerIsSo, AsRead, OfOwner
  <2> QED
    BY <2>4, <2>5
<1> QED
  BY <1>1, <1>3, <1>4, <1>5 DEF OfOwner

\* Neither a message nor what it did goes stale while the parties stay the same.
LEMMA SamePartiesKeep ==
  ASSUME IInv, NEW c \in Call, req'[c] = req[c], msg'[c] = msg[c], SameParties
  PROVE  /\ AsRead(c) => AsRead(c)'
         /\ AnswerIsSo(c) => AnswerIsSo(c)'
<1>1. miner.term = NoTerm <=> miner'.term = NoTerm
  BY DEF SameParties
<1>2. New(c)' = New(c) /\ AskedTerm(c)' = AskedTerm(c)
  BY DEF New, AskedTerm, SameParties
<1>3. Sender(c)' = Sender(c)
  BY DEF Sender, SameParties
<1>4. AsRead(c) => AsRead(c)'
  BY <1>2, <1>3 DEF AsRead, SameParties
<1>5. /\ TermInEffect(c) => TermInEffect(c)'
      /\ TermPending(c) => TermPending(c)'
  BY DEF TermInEffect, TermPending, Pending, SameParties
<1>6. AnswerIsSo(c) => AnswerIsSo(c)'
  BY <1>2, <1>5 DEF AnswerIsSo, SameParties
<1> QED
  BY <1>4, <1>6

\* Only MinerSetBeneficiary reads the miner again.
LEMMA AfterStep ==
  ASSUME IInv, [Next]_vars, NEW c \in Call,
         pc[c] = "after" => req[c].kind = "setBeneficiary", pc'[c] = "after"
  PROVE  req'[c].kind = "setBeneficiary"
<1> USE DEF IInv, TypeOK, PWTypeOK
<1>1. ASSUME NEW d \in Call, Begin(d) PROVE req'[c].kind = "setBeneficiary"
  BY <1>1 DEF Begin, Start, Goto
<1>2. ASSUME NEW d \in Call, Wait(d) PROVE req'[c].kind = "setBeneficiary"
  BY <1>2 DEF Wait, WaitOk, WaitOkThen, WaitExit, WaitFails, Goto, Return, movars
<1>3. ASSUME NEW d \in Call, Checked(d) PROVE req'[c].kind = "setBeneficiary"
  <2>1. PICK m \in Message : Send(d, m)
    BY <1>3, SendType
  <2> QED
    BY <2>1 DEF Send, Ready
<1>4. ASSUME NEW d \in Call, Push(d) \/ ReadTerm(d)
      PROVE  req'[c].kind = "setBeneficiary"
  BY <1>4 DEF Push, PushOk, PushFails, ReadTerm, AnswerAfter, AfterFails,
    Goto, Return, movars
<1>5. ASSUME NEW d \in Call, Chain(d) PROVE req'[c].kind = "setBeneficiary"
  BY <1>5 DEF Chain, Execute, NotExecuted, Settle, movars
<1>6. CASE TermEnds \/ DaemonCrash \/ UNCHANGED vars
  BY <1>6 DEF TermEnds, DaemonCrash, Crash, vars, pwvars, movars
<1>7. ASSUME NEW d \in Call, \/ ReadFails(d) \/ OwnerRefused(d)
                              \/ SetBeneficiaryRefused(d) \/ ConfirmBeneficiaryRefused(d)
      PROVE  req'[c].kind = "setBeneficiary"
  BY <1>7 DEF ReadFails, OwnerRefused, SetBeneficiaryRefused,
    ConfirmBeneficiaryRefused, Refuse, Decline, Return, movars
<1> HIDE DEF IInv, TypeOK, PWTypeOK
<1> QED
  BY <1>1, <1>2, <1>3, <1>4, <1>5, <1>6, <1>7 DEF Next, Handler, Checked

LEMMA LoneMessagesStep == IInv /\ LoneMessages /\ [Next]_vars => LoneMessages'
<1> SUFFICES ASSUME IInv, LoneMessages, [Next]_vars, NEW c \in Call
             PROVE  /\ alone'[c] /\ Sending(c)' => AsRead(c)'
                    /\ alone'[c] /\ Waiting(c)' => AnswerIsSo(c)'
                    /\ pc'[c] = "after" => req'[c].kind = "setBeneficiary"
  BY DEF LoneMessages
<1>1. pc'[c] = "after" => req'[c].kind = "setBeneficiary"
  BY AfterStep DEF LoneMessages
<1>2. ASSUME alone'[c], Sending(c)' \/ Waiting(c)'
      PROVE  (Sending(c)' => AsRead(c)') /\ (Waiting(c)' => AnswerIsSo(c)')
  <2>1. CASE Checked(c) /\ ~Waiting(c)'
    BY <2>1, CheckedAsRead
  <2>2. CASE alone[c] /\ Execute(c)
    <3>1. AsRead(c)
      BY <2>2 DEF LoneMessages, Sending, Execute, Settle
    <3>2. ~Sending(c)'
      BY <2>2 DEF Execute, Settle, Sending, IInv, Phases, TypeOK, PWTypeOK
    <3> QED
      BY <2>2, <3>1, <3>2, LoneExecution
  <2>3. CASE /\ alone[c] /\ req'[c] = req[c] /\ msg'[c] = msg[c] /\ SameParties
             /\ Sending(c)' => Sending(c)
             /\ Waiting(c)' => Waiting(c)
    BY <2>3, SamePartiesKeep DEF LoneMessages
  <2> QED
    BY <1>2, <2>1, <2>2, <2>3, LoneKept
<1> QED
  BY <1>1, <1>2

LEMMA LoneInvariance == Spec => [](IInv /\ LoneMessages)
<1>1. Init => LoneMessages
  BY DEF Init, PWInit, LoneMessages, Sending, Waiting
<1> QED
  BY <1>1, IInvInit, IInvStep, LoneMessagesStep, PTL DEF Spec

\* A handler answers "success" only when it has waited.
LEMMA AnsweredOk ==
  ASSUME IInv, [Next]_vars, NEW c \in Call,
         ans[c] = "none", ans'[c] \in {"ok", "unread"}
  PROVE  Waiting(c)
<1> USE DEF IInv, TypeOK, PWTypeOK, Phases, Waiting
<1>1. [PWNext]_pwvars
  BY FrameStep
<1> QED
  BY <1>1 DEF PWNext, pwvars, Start, ReadMore, Ready, Reply, Decline, PushOk,
    PushFails, WaitOk, WaitOkThen, WaitExit, WaitFails, AnswerAfter, AfterFails,
    Settle, Crash, Goto, Return, PC!Declined, InDoubt

\* What an operator is told who gives one command after the other is so when he
\* is told: an owner proposed is pending and an owner confirmed is the owner; a
\* beneficiary proposed is pending with the term asked for, or the owner has the
\* benefit back; a term confirmed is in effect or approved in the name asked for.
THEOREM MOLoneAnswerIsSo == Spec => LoneAnswerIsSo
<1>1. IInv /\ LoneMessages /\ [Next]_vars =>
        [\A c \in Call : alone[c] /\ ans[c] = "none" /\ ans'[c] \in {"ok", "unread"}
                           => AnswerIsSo(c)]_vars
  BY AnsweredOk DEF LoneMessages
<1> QED
  BY <1>1, LoneInvariance, PTL DEF Spec, LoneAnswerIsSo

\* MinerSetBeneficiary takes a missing term for a failure; for a command that
\* overlaps with no other it is the contrary: the owner has taken the benefit
\* back.  (This is how far the code is from NoTermMeansFailed.)
THEOREM MONoTermMeansTaken == Spec => []NoTermMeansTaken
<1>1. IInv /\ LoneMessages => NoTermMeansTaken
  <2> SUFFICES ASSUME IInv, LoneMessages, NEW c \in Call,
                      alone[c], pc[c] = "after", miner.term = NoTerm
               PROVE  New(c) = miner.owner /\ InEffect(c, miner)
    BY DEF NoTermMeansTaken
  <2>1. mst[c] = "ok" /\ req[c].kind = "setBeneficiary"
    BY DEF IInv, Phases, LoneMessages
  <2>2. TermInEffect(c) /\ New(c) = miner.owner /\ msg[c].quota = AskedTerm(c)
    BY <2>1 DEF LoneMessages, Waiting, AnswerIsSo, TermPending
  <2>3. msg[c].quota = 0
    BY <2>2 DEF AskedTerm
  <2> QED
    BY <2>2, <2>3 DEF TermInEffect, InEffect
<1> QED
  BY <1>1, LoneInvariance, PTL

\* Every answer of the owner and beneficiary handlers stays true.
THEOREM MOAnswersLast == Spec => PC!Lasting
  BY MOKeepsPromise, PromiseLasts DEF KeepsPromise
=============================================================================
