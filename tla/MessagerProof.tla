---------------------------- MODULE MessagerProof ----------------------------
(***************************************************************************)
(* What Messager keeps for every set of requests, messages and addresses.  *)
(* The argument: what a request has found of a message stays true of it,   *)
(* since the sender never changes and the nonce is assigned once; and an   *)
(* address that was there is there until somebody deletes it.              *)
(***************************************************************************)
EXTENDS Messager, SequenceTheorems, TLAPS

\* An answer ends a request; a message of a call is one it has sent.
Sound == \A c \in Call :
           /\ pc[c] = "done" <=> ans[c] # "none"
           /\ msgs[c].st # "none" => req[c].kind = "send" /\ pc[c] = "done"

\* The nonce is assigned when the message is filled.
Nonces == \A m \in Slot : msgs[m].st = "unfill" => msgs[m].nonce = NoNonce

\* A query is made of what the command lets through, and replace makes one to
\* find the message that its nonce names.
Queried == \A c \in Call : pc[c] = "find" =>
  \/ req[c].kind = "list" /\ ~ListRefused(req[c])
  \/ req[c].kind = "replace" /\ req[c].id = NoId

\* What a query has found is what it asked for.
Found == \A c \in Call : \A m \in got[c] :
           /\ pc[c] \in {"found", "replace", "done"} /\ msgs[m.id].st # "none"
           /\ req[c].kind = "list" => AskedFor(req[c], m)
           /\ req[c].kind = "replace" =>
                req[c].id = NoId /\ (req[c].nonce # 0 => msgs[m.id].nonce = req[c].nonce)

Named == \A c \in Call, m \in Slot : msgs[m].price = c =>
           /\ pc[c] = "done" /\ msgs[m].st \notin {"none", "unfill"}
           /\ req[c].id # NoId => m = req[c].id
           /\ req[c].id = NoId /\ req[c].nonce # 0 => msgs[m].nonce = req[c].nonce

\* How far an operation on an address has come.
Advanced(c) ==
  /\ pc[c] \in {"idle", "begin", "operate"} => done[c] = {}
  /\ pc[c] = "operate" => req[c].kind \in Operating /\ (req[c].kind = "set" => req[c].spec)
  /\ pc[c] = "num" => /\ req[c].kind = "set" /\ ToSet(c)
                      /\ gone[c] \/ done[c] = {w \in {"spec"} : req[c].spec}
  /\ pc[c] \in {"operate", "num"} => gone[c] \/ req[c].addr \in Present
  /\ ans[c] = "ok" /\ req[c].kind \in Operating => gone[c] \/ done[c] = ToDo(req[c])

Progress == \A c \in Call : Advanced(c)

\* How far a list of addresses has come.
Merged(c) ==
  /\ pc[c] # "idle" => always[c].book \subseteq Present /\ always[c].wallet \subseteq wallet
  /\ pc[c] = "wallet" => always[c].book \subseteq listed[c].book
  /\ pc[c] = "actors" \/ (ans[c] = "ok" /\ req[c].kind = "addrs") =>
       /\ listed[c].book \cap listed[c].wallet = {}
       /\ always[c].book \cup always[c].wallet \subseteq
            listed[c].book \cup listed[c].wallet

Merge == \A c \in Call : Merged(c)

IInv == TypeOK /\ Sound /\ Nonces /\ Queried /\ Found /\ Named /\ Progress /\ Merge

-----------------------------------------------------------------------------
(* Type correctness. *)

LEMMA RequestFields ==
  ASSUME NEW r \in Request
  PROVE  /\ r.kind \in {"send", "list", "replace", "bad", "addrs"} \cup Operating
         /\ r.kind = "send" => r.from \in Addr /\ r.to \in Target /\ r.command \in BOOLEAN
         /\ r.kind = "list" => /\ r.id \in Slot \cup {NoId} /\ r.from \in Seq(Addr)
                               /\ r.nonce \in Nat \cup {NoNonce}
                               /\ r.failed \in BOOLEAN /\ r.blocked \in BOOLEAN
                               /\ r.time \in BOOLEAN /\ r.paged \in BOOLEAN
                               /\ r.state \in Filter
         /\ r.kind = "replace" => /\ r.id \in Slot \cup {NoId} /\ r.nonce \in Nat
                                  /\ r.from \in BOOLEAN
         /\ r.kind = "bad" => r.id \in Slot
         /\ r.kind \in Operating => r.addr \in Addr
         /\ r.kind = "set" => r.spec \in BOOLEAN /\ r.num \in Nat \cup {NoNum}
  BY DEF Request, SendAsk, ListAsk, ReplaceAsk, BadAsk, DeleteAsk, ActiveAsk, ForbidAsk,
    SetAsk, AddrsAsk, Operating

LEMMA TypeInit == Init => TypeOK
<1> SUFFICES ASSUME Init PROVE TypeOK
  OBVIOUS
<1>1. (CHOOSE r \in Asks : TRUE) \in Request
  BY MessagerAssumption
<1>2. Nobody \in Pair
  BY DEF Nobody, Pair
<1> QED
  BY <1>1, <1>2, MessagerAssumption DEF Init, TypeOK, Answer

LEMMA AnswersTypes ==
  ASSUME NEW q, NEW S \in Answers(q)
  PROVE  S \subseteq There
<1>1. Form(q) \in {"id", "nonce", "blocked", "failed", "all"}
  BY DEF Form
<1> QED
  BY <1>1 DEF Answers, Matching

\* One message changes its state, its nonce or its fees.
LEMMA MessageTypes ==
  ASSUME TypeOK, NEW m \in Slot
  PROVE  /\ \A s \in MState : [msgs EXCEPT ![m].st = s] \in [Slot -> Message]
         /\ \A s \in MState, n \in Nat \cup {NoNonce} :
              [msgs EXCEPT ![m].st = s, ![m].nonce = n] \in [Slot -> Message]
         /\ \A p \in Call : [msgs EXCEPT ![m].price = p] \in [Slot -> Message]
<1>1. msgs \in [Slot -> Message] /\ msgs[m] \in Message
  BY DEF TypeOK
<1>2. /\ \A s \in MState : [msgs[m] EXCEPT !.st = s] \in Message
      /\ \A s \in MState, n \in Nat \cup {NoNonce} :
           [msgs[m] EXCEPT !.st = s, !.nonce = n] \in Message
      /\ \A p \in Call : [msgs[m] EXCEPT !.price = p] \in Message
  BY <1>1 DEF Message
<1> QED
  BY <1>1, <1>2

\* One call on an address.
LEMMA WriteTypes ==
  ASSUME TypeOK, NEW c \in Call, req[c].kind \in Operating,
         NEW what \in {"spec", "num", "state"}, NEW e \in Entry, Write(c, what, e)
  PROVE  /\ book' \in [Addr -> Entry] /\ done' \in [Call -> SUBSET {"spec", "num", "state"}]
         /\ gone' \in [Call -> BOOLEAN] /\ always' \in [Call -> Pair]
<1>1. req[c].addr \in Addr
  BY RequestFields DEF TypeOK
<1>2. ASSUME req[c].addr \in Present
      PROVE  always' \in [Call -> Pair]
  <2>1. ASSUME NEW d \in Call
        PROVE  [always[d] EXCEPT !.book = IF e.state = "absent" THEN @ \ {req[c].addr} ELSE @]
                 \in Pair
    BY DEF TypeOK, Pair
  <2> QED
    BY <1>2, <2>1 DEF Write
<1>3. CASE req[c].addr \in Present
  <2>1. book' \in [Addr -> Entry]
    BY <1>1, <1>3 DEF Write, TypeOK
  <2>2. done' \in [Call -> SUBSET {"spec", "num", "state"}]
    BY <1>3 DEF Write, TypeOK
  <2>3. gone' \in [Call -> BOOLEAN]
    <3>1. gone' = [d \in Call |-> gone[d] \/ (e.state = "absent" /\ Running(d)
                     /\ req[d].kind \in Operating /\ req[d].addr = req[c].addr)]
      BY <1>3 DEF Write
    <3>2. \A d \in Call : gone[d] \in BOOLEAN
      BY DEF TypeOK
    <3> QED
      BY <3>1, <3>2
  <2> QED
    BY <1>2, <1>3, <2>1, <2>2, <2>3
<1>4. CASE req[c].addr \notin Present
  BY <1>4 DEF Write, TypeOK
<1> QED
  BY <1>3, <1>4

\* What operates on an address is one such call.
LEMMA WritesAddress ==
  ASSUME TypeOK, Progress, NEW c \in Call, Operated(c) \/ SpecSet(c) \/ NumSet(c)
  PROVE  /\ req[c].kind \in Operating
         /\ \E what \in {"spec", "num", "state"}, e \in Entry : Write(c, what, e)
<1> USE DEF At
<1>1. req[c].kind \in Operating /\ req[c].addr \in Addr
  BY RequestFields DEF Operated, SpecSet, NumSet, TypeOK, Operating
<1>2. book[req[c].addr] \in Entry
  BY <1>1 DEF TypeOK
<1>3. CASE Operated(c)
  <2>1. NewState(c) \in {"absent", "active", "forbidden"}
    BY <1>3 DEF Operated, NewState, Operating
  <2> QED
    BY <1>1, <1>2, <1>3, <2>1 DEF Operated, Entry
<1>4. CASE SpecSet(c)
  BY <1>1, <1>2, <1>4 DEF SpecSet, Entry
<1>5. CASE NumSet(c)
  <2>1. req[c].num \in Nat \ {0}
    BY <1>5, RequestFields DEF NumSet, Progress, Advanced, ToSet, TypeOK
  <2> QED
    BY <1>1, <1>2, <1>5, <2>1 DEF NumSet, Entry
<1> QED
  BY <1>3, <1>4, <1>5

LEMMA TypeStep == TypeOK /\ Progress /\ [Next]_vars => TypeOK'
<1> SUFFICES ASSUME TypeOK, Progress, [Next]_vars PROVE TypeOK'
  OBVIOUS
<1> USE DEF At, Goto, Return, hist, mvars, avars
<1>1. ASSUME NEW c \in Call, Begin(c) PROVE TypeOK'
  <2>1. PICK r \in Asks : req' = [req EXCEPT ![c] = r]
    BY <1>1 DEF Begin
  <2>2. [book |-> Present, wallet |-> wallet] \in Pair
    BY DEF Pair, Present, TypeOK
  <2> QED
    BY <1>1, <2>1, <2>2, MessagerAssumption DEF Begin, TypeOK, Live
<1>2. ASSUME NEW c \in Call, NEW from, NEW kinds, NEW to \in Live, Pass(c, from, kinds, to)
      PROVE  TypeOK'
  BY <1>2 DEF Pass, TypeOK
<1>3. ASSUME NEW c \in Call, NEW from, NEW kinds, NEW a \in Answer, End(c, from, kinds, a)
      PROVE  TypeOK'
  BY <1>3 DEF End, TypeOK
<1>4. ASSUME NEW c \in Call, SendPushed(c) PROVE TypeOK'
  <2>1. /\ msgs' \in [Slot -> Message] /\ pc' \in [Call -> Live \cup {"idle", "done"}]
        /\ ans' \in [Call -> Answer]
    <3>1. req[c].from \in Addr /\ req[c].to \in Target /\ c \in Slot
      BY <1>4, RequestFields DEF SendPushed, TypeOK, Slot
    <3>2. [st |-> "unfill", from |-> req[c].from, to |-> req[c].to,
           nonce |-> NoNonce, price |-> NoCall] \in Message
      BY <3>1 DEF Message, MState
    <3> QED
      BY <1>4, <3>1, <3>2 DEF SendPushed, Sent, TypeOK, Answer
  <2> QED
    BY <1>4, <2>1 DEF SendPushed, TypeOK
<1>5. ASSUME NEW c \in Call, QueryFound(c) PROVE TypeOK'
  <2>1. PICK S \in Answers(QueryOf(req[c])) :
          got' = [got EXCEPT ![c] = {CopyOf(m) : m \in S}]
    BY <1>5 DEF QueryFound
  <2>2. S \subseteq Slot
    BY <2>1, AnswersTypes DEF There
  <2>3. \A m \in S : CopyOf(m) \in Copy
    BY <2>2 DEF CopyOf, Copy, TypeOK, Message
  <2>4. {CopyOf(m) : m \in S} \subseteq Copy
    BY <2>3
  <2> QED
    BY <1>5, <2>1, <2>4 DEF QueryFound, TypeOK, Live
<1>6. ASSUME NEW c \in Call, Replaced(c) \/ MarkedBad(c) PROVE TypeOK'
  <2>1. msgs' \in [Slot -> Message]
    <3>1. CASE Replaced(c)
      <4>1. PICK m \in Chosen(c) : msgs[m].st = "fill" /\ msgs' = [msgs EXCEPT ![m].price = c]
        BY <3>1 DEF Replaced
      <4>2. m \in Slot
        BY <3>1, <4>1, RequestFields DEF Replaced, Chosen, TypeOK, Copy
      <4> QED
        BY <4>1, <4>2, MessageTypes
    <3>2. CASE MarkedBad(c)
      <4>1. req[c].id \in Slot /\ "failed" \in MState
        BY <3>2, RequestFields DEF MarkedBad, TypeOK, MState
      <4> QED
        BY <3>2, <4>1, MessageTypes DEF MarkedBad
    <3> QED
      BY <1>6, <3>1, <3>2
  <2> QED
    BY <1>6, <2>1 DEF Replaced, MarkedBad, TypeOK, Answer
<1>7. ASSUME NEW c \in Call, Operated(c) \/ SpecSet(c) \/ NumSet(c) PROVE TypeOK'
  <2>1. req[c].kind \in Operating /\ req[c].addr \in Addr
    BY <1>7, RequestFields DEF Operated, SpecSet, NumSet, TypeOK, Operating
  <2>3. \E what \in {"spec", "num", "state"}, e \in Entry : Write(c, what, e)
    BY <1>7, WritesAddress
  <2>4. /\ book' \in [Addr -> Entry] /\ done' \in [Call -> SUBSET {"spec", "num", "state"}]
        /\ gone' \in [Call -> BOOLEAN] /\ always' \in [Call -> Pair]
    BY <2>1, <2>3, WriteTypes
  <2>5. /\ UNCHANGED <<req, got, listed, msgs, fresh, wallet>>
        /\ pc' \in [Call -> Live \cup {"idle", "done"}] /\ ans' \in [Call -> Answer]
    BY <1>7 DEF Operated, SpecSet, NumSet, TypeOK, Live, Answer
  <2> QED
    BY <2>4, <2>5 DEF TypeOK
<1>8. ASSUME NEW c \in Call, BookListed(c) \/ WalletListed(c) PROVE TypeOK'
  <2>1. listed' \in [Call -> Pair]
    <3>1. listed[c] \in Pair /\ Present \subseteq Addr /\ wallet \subseteq Addr
      BY DEF TypeOK, Present
    <3>2. /\ [listed[c] EXCEPT !.book = Present] \in Pair
          /\ [listed[c] EXCEPT !.wallet = wallet \ listed[c].book] \in Pair
      BY <3>1 DEF Pair
    <3> QED
      BY <1>8, <3>2 DEF BookListed, WalletListed, TypeOK
  <2> QED
    BY <1>8, <2>1 DEF BookListed, WalletListed, TypeOK, Live
<1>9. ASSUME NEW c \in Call,
             \/ SendPanics(c) \/ SendRefused(c) \/ SendDecoded(c) \/ Refused(c)
             \/ ToFind(c) \/ QueryFails(c) \/ QueryPanics(c) \/ QueryAnswered(c)
             \/ ToReplace(c) \/ ReplaceFails(c) \/ MarkBadFails(c) \/ SetRefused(c)
             \/ HasAddress(c) \/ NoAddress(c) \/ OperateFails(c) \/ AddrListFails(c)
             \/ AddrListPanics(c) \/ AddrListed(c)
      PROVE  TypeOK'
  <2>1. \/ \E from, kinds : \E to \in Live : Pass(c, from, kinds, to)
        \/ \E from, kinds : \E a \in Answer : End(c, from, kinds, a)
    BY <1>9 DEF SendPanics, SendRefused, SendDecoded, Refused, ToFind, QueryFails,
      QueryPanics, QueryAnswered, ToReplace, ReplaceFails, MarkBadFails, SetRefused,
      HasAddress, NoAddress, OperateFails, AddrListFails, AddrListPanics, AddrListed,
      Live, Answer
  <2> QED
    BY <1>2, <1>3, <2>1
<1>10. CASE MessageMoves
  <2>1. PICK m \in Slot : Fill(m) \/ Execute(m) \/ Fail(m)
    BY <1>10 DEF MessageMoves
  <2>2. msgs' \in [Slot -> Message] /\ fresh' \in BOOLEAN
    <3>1. CASE Fill(m)
      <4>1. PICK n \in 0..MaxNonce : msgs' = [msgs EXCEPT ![m].st = "fill", ![m].nonce = n]
        BY <3>1 DEF Fill
      <4>2. n \in Nat \cup {NoNonce} /\ "fill" \in MState /\ fresh' = fresh
        BY <3>1, MessagerAssumption DEF MState, Fill
      <4> QED
        BY <4>1, <4>2, MessageTypes, MessagerAssumption DEF TypeOK
    <3>2. CASE Execute(m)
      <4>1. PICK s \in {"ok", "error"} : msgs' = [msgs EXCEPT ![m].st = s]
        BY <3>2 DEF Execute
      <4>2. s \in MState
        BY DEF MState
      <4>3. msgs' \in [Slot -> Message]
        BY <4>1, <4>2, MessageTypes
      <4>4. fresh' \in BOOLEAN
        BY <3>2 DEF Execute, TypeOK
      <4> QED
        BY <4>3, <4>4
    <3>3. CASE Fail(m)
      BY <3>3, MessageTypes, MessagerAssumption DEF Fail, MState, TypeOK
    <3> QED
      BY <2>1, <3>1, <3>2, <3>3
  <2> QED
    BY <1>10, <2>2 DEF MessageMoves, TypeOK
<1>11. CASE KeysMove
  BY <1>11 DEF KeysMove, NewKey, Adopt, TypeOK, Entry
<1>12. CASE Crash
  BY <1>12 DEF Crash, TypeOK, Answer
<1>13. CASE UNCHANGED vars
  BY <1>13 DEF vars, TypeOK
<1> QED
  BY <1>1, <1>4, <1>5, <1>6, <1>7, <1>8, <1>9, <1>10, <1>11, <1>12, <1>13
     DEF Next, MsgHandler, AddrHandler
-----------------------------------------------------------------------------
(* What a step does to a message, to a request and to an address. *)

\* The sender stays, and so does the nonce once it is there.
Keeps(m) == /\ msgs'[m].st # "none" /\ msgs'[m].from = msgs[m].from
            /\ msgs[m].nonce # NoNonce => msgs'[m].nonce = msgs[m].nonce
            /\ msgs[m].st # "unfill" => /\ msgs'[m].nonce = msgs[m].nonce
                                        /\ msgs'[m].st # "unfill"
            /\ msgs'[m].st = "unfill" => msgs'[m].nonce = msgs[m].nonce

\* Who may set the fees of a message.
Prices(m) == \/ msgs'[m].price = msgs[m].price
             \/ msgs'[m].price = NoCall
             \/ \E c \in Call : /\ Replaced(c) /\ m \in Chosen(c)
                                /\ msgs'[m].price = c /\ msgs[m].st = "fill"

LEMMA MessagesStep ==
  IInv /\ [Next]_vars =>
    \A m \in Slot : /\ msgs[m].st # "none" => Keeps(m) /\ Prices(m)
                    /\ msgs[m].st = "none" =>
                         \/ msgs'[m] = msgs[m]
                         \/ /\ m \in Call /\ SendPushed(m)
                            /\ msgs'[m].st = "unfill" /\ msgs'[m].nonce = NoNonce
                            /\ msgs'[m].price = NoCall
<1> SUFFICES ASSUME IInv, [Next]_vars, NEW m \in Slot
             PROVE  /\ msgs[m].st # "none" => Keeps(m) /\ Prices(m)
                    /\ msgs[m].st = "none" =>
                         \/ msgs'[m] = msgs[m]
                         \/ /\ m \in Call /\ SendPushed(m)
                            /\ msgs'[m].st = "unfill" /\ msgs'[m].nonce = NoNonce
                            /\ msgs'[m].price = NoCall
  OBVIOUS
<1> DEFINE Goal == /\ msgs[m].st # "none" => Keeps(m) /\ Prices(m)
                   /\ msgs[m].st = "none" =>
                         \/ msgs'[m] = msgs[m]
                         \/ /\ m \in Call /\ SendPushed(m)
                            /\ msgs'[m].st = "unfill" /\ msgs'[m].nonce = NoNonce
                            /\ msgs'[m].price = NoCall
<1>0. msgs \in [Slot -> Message] /\ msgs[m] \in Message
  BY DEF IInv, TypeOK
<1>1. ASSUME msgs'[m] = msgs[m] PROVE Goal
  BY <1>1 DEF Keeps, Prices
<1>2. ASSUME NEW c \in Call, SendPushed(c) PROVE Goal
  <2>1. CASE m = c
    <3>1. msgs[c].st = "none"
      BY <1>2 DEF SendPushed, At, IInv, Sound
    <3> QED
      BY <1>0, <1>2, <2>1, <3>1 DEF SendPushed, Sent
  <2>2. CASE m # c
    BY <1>0, <1>1, <1>2, <2>2 DEF SendPushed, Sent
  <2> QED
    BY <2>1, <2>2
<1>3. ASSUME NEW c \in Call, Replaced(c) PROVE Goal
  <2>1. PICK n \in Chosen(c) : msgs[n].st = "fill" /\ msgs' = [msgs EXCEPT ![n].price = c]
    BY <1>3 DEF Replaced
  <2>2. CASE m = n
    <3>1. /\ msgs'[m].st = msgs[m].st /\ msgs'[m].from = msgs[m].from
          /\ msgs'[m].nonce = msgs[m].nonce /\ msgs'[m].price = c
      BY <1>0, <2>1, <2>2 DEF Message
    <3>2. Prices(m)
      BY <1>3, <2>1, <2>2, <3>1 DEF Prices
    <3> QED
      BY <2>1, <2>2, <3>1, <3>2 DEF Keeps
  <2>3. CASE m # n
    BY <1>0, <1>1, <2>1, <2>3
  <2> QED
    BY <2>2, <2>3
<1>4. ASSUME NEW c \in Call, MarkedBad(c) PROVE Goal
  <2>1. CASE m = req[c].id
    <3>1. /\ msgs'[m].st = "failed" /\ msgs'[m].from = msgs[m].from
          /\ msgs'[m].nonce = msgs[m].nonce /\ msgs'[m].price = msgs[m].price
          /\ msgs[m].st # "none"
      BY <1>0, <1>4, <2>1 DEF MarkedBad, Message
    <3> QED
      BY <3>1 DEF Keeps, Prices
  <2>2. CASE m # req[c].id
    BY <1>0, <1>1, <1>4, <2>2 DEF MarkedBad
  <2> QED
    BY <2>1, <2>2
<1>5. CASE MessageMoves
  <2>1. PICK n \in Slot : Fill(n) \/ Execute(n) \/ Fail(n)
    BY <1>5 DEF MessageMoves
  <2>2. CASE m # n
    BY <1>0, <1>1, <2>1, <2>2 DEF Fill, Execute, Fail
  <2>3. CASE m = n /\ Fill(n)
    <3>1. /\ msgs'[m].st = "fill" /\ msgs'[m].from = msgs[m].from
          /\ msgs'[m].price = msgs[m].price /\ msgs[m].st = "unfill"
      BY <1>0, <2>3 DEF Fill, Message
    <3> QED
      BY <3>1 DEF Keeps, Prices, IInv, Nonces
  <2>4. CASE m = n /\ (Execute(n) \/ Fail(n))
    <3>1. /\ msgs'[m].st \in {"ok", "error", "failed"} /\ msgs'[m].from = msgs[m].from
          /\ msgs'[m].nonce = msgs[m].nonce
          /\ msgs'[m].price = msgs[m].price /\ msgs[m].st # "none"
      BY <1>0, <2>4 DEF Execute, Fail, Message
    <3> QED
      BY <3>1 DEF Keeps, Prices
  <2> QED
    BY <2>1, <2>2, <2>3, <2>4
<1>6. CASE msgs' = msgs
  BY <1>1, <1>6
<1>7. \/ \E c \in Call : SendPushed(c) \/ Replaced(c) \/ MarkedBad(c)
      \/ MessageMoves \/ msgs' = msgs
  BY DEF Next, Begin, MsgHandler, AddrHandler, SendPanics, SendRefused, SendDecoded,
    Refused, ToFind, QueryFound, QueryFails, QueryPanics, QueryAnswered, ToReplace,
    ReplaceFails, MarkBadFails, SetRefused, HasAddress, NoAddress, Operated, SpecSet,
    NumSet, OperateFails, BookListed, WalletListed, AddrListFails, AddrListPanics,
    AddrListed, KeysMove, Crash, Pass, End, mvars, vars
<1> QED
  BY <1>2, <1>3, <1>4, <1>5, <1>6, <1>7

\* A request goes on from where it is; once it is done nothing changes in it.
Goes(c) == /\ pc[c] # "idle" => req'[c] = req[c] /\ pc'[c] # "idle"
           /\ pc[c] = "done" => pc'[c] = "done" /\ ans'[c] = ans[c]
           /\ pc'[c] = "done" <=> ans'[c] # "none"
           /\ pc[c] \in {"found", "replace"} => pc'[c] \in {"found", "replace", "done"}
           /\ pc'[c] = "find" => pc[c] = "find" \/ ToFind(c)
           /\ got'[c] # got[c] => QueryFound(c)

LEMMA RequestsStep == IInv /\ [Next]_vars => \A c \in Call : Goes(c)
<1> SUFFICES ASSUME IInv, [Next]_vars, NEW c \in Call PROVE Goes(c)
  OBVIOUS
<1> USE DEF At, Goto, Return
<1>0. /\ pc \in [Call -> Live \cup {"idle", "done"}] /\ ans \in [Call -> Answer]
      /\ req \in [Call -> Request] /\ got \in [Call -> SUBSET Copy]
      /\ pc[c] = "done" <=> ans[c] # "none"
  BY DEF IInv, TypeOK, Sound
<1>1. ASSUME pc'[c] = pc[c], ans'[c] = ans[c], req'[c] = req[c], got'[c] = got[c]
      PROVE  Goes(c)
  BY <1>0, <1>1 DEF Goes
<1>2. ASSUME NEW d \in Call, Begin(d) PROVE Goes(c)
  BY <1>0, <1>2 DEF Begin, Goes
<1>3. ASSUME NEW d \in Call, NEW from \in Live, NEW kinds, NEW to \in Live,
             Pass(d, from, kinds, to),
             from \in {"found", "replace"} => to \in {"found", "replace"},
             to = "find" => ToFind(d)
      PROVE  Goes(c)
  BY <1>0, <1>3 DEF Pass, Goes, Live
<1>4. ASSUME NEW d \in Call, NEW from \in Live, NEW kinds, NEW a \in Answer \ {"none"},
             End(d, from, kinds, a)
      PROVE  Goes(c)
  BY <1>0, <1>4 DEF End, Goes, Live
<1>5. ASSUME NEW d \in Call,
             \/ SendPanics(d) \/ SendRefused(d) \/ SendDecoded(d) \/ Refused(d)
             \/ ToFind(d) \/ QueryFails(d) \/ QueryPanics(d) \/ QueryAnswered(d)
             \/ ToReplace(d) \/ ReplaceFails(d) \/ MarkBadFails(d) \/ SetRefused(d)
             \/ HasAddress(d) \/ NoAddress(d) \/ OperateFails(d) \/ AddrListFails(d)
             \/ AddrListPanics(d) \/ AddrListed(d)
      PROVE  Goes(c)
  <2>1. \/ \E from \in Live : \E kinds : \E to \in Live :
             /\ Pass(d, from, kinds, to)
             /\ from \in {"found", "replace"} => to \in {"found", "replace"}
             /\ to = "find" => ToFind(d)
        \/ \E from \in Live : \E kinds : \E a \in Answer \ {"none"} : End(d, from, kinds, a)
    BY <1>5 DEF SendPanics, SendRefused, SendDecoded, Refused, ToFind, QueryFails,
      QueryPanics, QueryAnswered, ToReplace, ReplaceFails, MarkBadFails, SetRefused,
      HasAddress, NoAddress, OperateFails, AddrListFails, AddrListPanics, AddrListed,
      Live, Answer
  <2> QED
    BY <1>3, <1>4, <2>1
<1>6. ASSUME NEW d \in Call, \/ SendPushed(d) \/ Replaced(d) \/ MarkedBad(d)
                             \/ Operated(d) \/ NumSet(d)
      PROVE  Goes(c)
  BY <1>0, <1>6 DEF SendPushed, Replaced, MarkedBad, Operated, NumSet, Goes
<1>7. ASSUME NEW d \in Call, QueryFound(d) \/ SpecSet(d) \/ BookListed(d) \/ WalletListed(d)
      PROVE  Goes(c)
  BY <1>0, <1>7 DEF QueryFound, SpecSet, BookListed, WalletListed, Goes
<1>8. CASE MessageMoves \/ KeysMove \/ UNCHANGED vars
  BY <1>1, <1>8 DEF MessageMoves, KeysMove, vars
<1>9. CASE Crash
  BY <1>0, <1>9 DEF Crash, Running, Live, Goes
<1> QED
  BY <1>2, <1>5, <1>6, <1>7, <1>8, <1>9 DEF Next, MsgHandler, AddrHandler
-----------------------------------------------------------------------------
(* One lemma for each part of the invariant. *)

LEMMA SoundStep == IInv /\ [Next]_vars => Sound'
<1> SUFFICES ASSUME IInv, [Next]_vars, NEW c \in Call
             PROVE  /\ pc'[c] = "done" <=> ans'[c] # "none"
                    /\ msgs'[c].st # "none" => req'[c].kind = "send" /\ pc'[c] = "done"
  BY DEF Sound
<1>1. Goes(c)
  BY RequestsStep
<1>2. CASE msgs[c].st # "none"
  BY <1>1, <1>2 DEF Goes, IInv, Sound
<1>3. CASE msgs[c].st = "none"
  <2>1. c \in Slot
    BY DEF Slot
  <2>2. msgs'[c].st = "none" \/ SendPushed(c)
    BY <1>3, <2>1, MessagesStep
  <2>3. pc \in [Call -> Live \cup {"idle", "done"}]
    BY DEF IInv, TypeOK
  <2>4. SendPushed(c) => req'[c].kind = "send" /\ pc'[c] = "done"
    BY <2>3 DEF SendPushed, At, Return
  <2> QED
    BY <1>1, <2>2, <2>4 DEF Goes
<1> QED
  BY <1>2, <1>3

LEMMA NoncesStep == IInv /\ [Next]_vars => Nonces'
<1> SUFFICES ASSUME IInv, [Next]_vars, NEW m \in Slot, msgs'[m].st = "unfill"
             PROVE  msgs'[m].nonce = NoNonce
  BY DEF Nonces
<1>1. msgs[m].st # "none" => Keeps(m)
  BY MessagesStep
<1>2. msgs[m].st = "none" => msgs'[m].nonce = NoNonce
  <2>1. msgs[m].st = "none" => msgs'[m] = msgs[m] \/ msgs'[m].nonce = NoNonce
    BY MessagesStep
  <2> QED
    BY <2>1
<1>3. msgs[m].st = "unfill" => msgs[m].nonce = NoNonce
  BY DEF IInv, Nonces
<1> QED
  BY <1>1, <1>2, <1>3 DEF Keeps

LEMMA QueriedStep == IInv /\ [Next]_vars => Queried'
<1> SUFFICES ASSUME IInv, [Next]_vars, NEW c \in Call, pc'[c] = "find"
             PROVE  \/ req'[c].kind = "list" /\ ~ListRefused(req'[c])
                    \/ req'[c].kind = "replace" /\ req'[c].id = NoId
  BY DEF Queried, ListRefused
<1>1. pc[c] = "find" \/ ToFind(c)
  BY RequestsStep DEF Goes
<1>2. req'[c] = req[c]
  BY <1>1, RequestsStep DEF Goes, ToFind, Pass, At
<1>3. CASE pc[c] = "find"
  BY <1>2, <1>3 DEF IInv, Queried, ListRefused
<1>4. CASE ToFind(c)
  BY <1>2, <1>4 DEF ToFind, ListRefused
<1> QED
  BY <1>1, <1>3, <1>4

\* What the flags of msg list ask for is what the query it makes of them finds.
LEMMA ListAnswers ==
  ASSUME TypeOK, NEW f \in ListAsk, ~ListRefused(f),
         NEW S \in Answers(ListQuery(f)), NEW m \in S
  PROVE  AskedFor(f, CopyOf(m))
<1> DEFINE q == ListQuery(f)
<1>0. /\ f.id \in Slot \cup {NoId} /\ f.from \in Seq(Addr) /\ f.failed \in BOOLEAN
      /\ f.nonce \in Nat \cup {NoNonce} /\ f.blocked \in BOOLEAN
      /\ NoId \notin Slot /\ NoNonce \notin Nat
      /\ CopyOf(m).id = m /\ CopyOf(m).st = msgs[m].st
  BY MessagerAssumption DEF ListAsk, CopyOf
<1>1. CASE f.id # NoId
  <2>1. q = [AnyMsg EXCEPT !.id = f.id]
    BY <1>1 DEF ListQuery
  <2>2. q.id = f.id
    BY <2>1 DEF AnyMsg
  <2>3. Form(q) = "id"
    BY <1>1, <2>2 DEF Form
  <2>4. Answers(q) = {{n} : n \in There \cap {q.id}}
    BY <2>3 DEF Answers
  <2> QED
    BY <1>0, <1>1, <2>2, <2>4 DEF AskedFor
<1>2. CASE f.id = NoId /\ f.failed
  <2>1. q = [AnyMsg EXCEPT !.failed = TRUE]
    BY <1>2 DEF ListQuery
  <2>2. q.id = NoId /\ q.nonce = 0 /\ ~q.blocked /\ q.failed
    BY <2>1 DEF AnyMsg
  <2>3. Form(q) = "failed"
    BY <2>2 DEF Form
  <2>4. Answers(q) = {{n \in There : msgs[n].st = "failed"}}
    BY <2>3 DEF Answers
  <2> QED
    BY <1>0, <1>2, <2>4 DEF AskedFor
<1>3. CASE f.id = NoId /\ ~f.failed /\ f.nonce # NoNonce
  <2>1. q = [AnyMsg EXCEPT !.from = f.from, !.nonce = f.nonce]
    BY <1>3 DEF ListQuery
  <2>2. q.id = NoId /\ q.nonce = f.nonce /\ q.from = f.from /\ ~q.blocked /\ ~q.failed
        /\ ~q.paged
    BY <2>1 DEF AnyMsg
  <2>3. f.from # <<>>
    BY <1>3 DEF ListRefused
  <2>4. CASE f.nonce = 0
    <3>1. Form(q) = "all"
      BY <2>2, <2>4 DEF Form
    <3>2. Answers(q) = {Matching(q)}
      BY <2>2, <3>1 DEF Answers
    <3>3. msgs[m].from \in Range(f.from)
      BY <2>2, <2>3, <3>2 DEF Matching
    <3> QED
      BY <1>0, <1>3, <2>4, <3>3 DEF AskedFor
  <2>5. CASE f.nonce # 0
    <3>1. Form(q) = "nonce"
      BY <2>2, <2>5 DEF Form
    <3>2. Answers(q) = {{n} : n \in {n \in There : msgs[n].from \in Senders(q)
                                       /\ msgs[n].nonce = q.nonce}}
      BY <3>1 DEF Answers
    <3>3. msgs[m].from = f.from[1] /\ msgs[m].nonce = f.nonce
      BY <2>2, <2>3, <3>2 DEF Senders
    <3>4. f.from[1] \in Range(f.from)
      BY <1>0, <2>3 DEF Range
    <3> QED
      BY <1>0, <1>3, <3>3, <3>4 DEF AskedFor
  <2> QED
    BY <2>4, <2>5
<1>4. CASE f.id = NoId /\ ~f.failed /\ f.nonce = NoNonce /\ f.blocked
  <2>1. q = [AnyMsg EXCEPT !.from = f.from, !.blocked = TRUE]
    BY <1>4 DEF ListQuery
  <2>2. q.id = NoId /\ q.nonce = 0 /\ q.from = f.from /\ q.blocked
    BY <2>1 DEF AnyMsg
  <2>3. Form(q) = "blocked"
    BY <2>2 DEF Form
  <2>4. Answers(q) = SUBSET {n \in There : /\ msgs[n].st \in {"unfill", "fill"}
                                           /\ msgs[n].from \in BlockedSenders(q)}
    BY <2>3 DEF Answers
  <2>5. msgs[m].st \in {"unfill", "fill"} /\ msgs[m].from \in BlockedSenders(q)
    BY <2>4
  <2>6. f.from # <<>> => msgs[m].from \in Range(f.from)
    BY <2>2, <2>5 DEF BlockedSenders
  <2>7. f.time
    BY <1>4 DEF ListRefused
  <2> QED
    BY <1>0, <1>4, <2>5, <2>6, <2>7 DEF AskedFor
<1>5. CASE f.id = NoId /\ ~f.failed /\ f.nonce = NoNonce /\ ~f.blocked
  <2>1. q = [AnyMsg EXCEPT !.from = f.from, !.state = {f.state}, !.paged = f.paged]
    BY <1>5 DEF ListQuery
  <2>2. /\ q.id = NoId /\ q.nonce = 0 /\ q.from = f.from /\ ~q.blocked /\ ~q.failed
        /\ q.state = {f.state}
    BY <2>1 DEF AnyMsg
  <2>3. Form(q) = "all"
    BY <2>2 DEF Form
  <2>4. m \in Matching(q)
    BY <2>3 DEF Answers
  <2>5. /\ f.from # <<>> => msgs[m].from \in Range(f.from)
        /\ FilterOf(msgs[m].st) = f.state
    BY <2>2, <2>4 DEF Matching
  <2> QED
    BY <1>0, <1>5, <2>5 DEF AskedFor
<1> QED
  BY <1>0, <1>1, <1>2, <1>3, <1>4, <1>5

\* The query of msg replace finds a message with the nonce it names.
LEMMA ReplaceAnswers ==
  ASSUME NEW r, r.nonce # 0, NEW S \in Answers(ReplaceQuery(r)), NEW m \in S
  PROVE  msgs[m].nonce = r.nonce
<1> DEFINE q == ReplaceQuery(r)
<1>1. q.id = NoId /\ q.nonce = r.nonce
  BY DEF ReplaceQuery, AnyMsg
<1>2. Form(q) = "nonce"
  BY <1>1 DEF Form
<1>3. Answers(q) = {{n} : n \in {n \in There : msgs[n].from \in Senders(q)
                                   /\ msgs[n].nonce = q.nonce}}
  BY <1>2 DEF Answers
<1> QED
  BY <1>1, <1>3

LEMMA FoundStep == IInv /\ [Next]_vars => Found'
<1> SUFFICES ASSUME IInv, [Next]_vars, NEW c \in Call, NEW m \in got'[c]
             PROVE  /\ pc'[c] \in {"found", "replace", "done"} /\ msgs'[m.id].st # "none"
                    /\ req'[c].kind = "list" => AskedFor(req[c], m)'
                    /\ req'[c].kind = "replace" =>
                         /\ req'[c].id = NoId
                         /\ req'[c].nonce # 0 => msgs'[m.id].nonce = req'[c].nonce
  BY DEF Found
<1>0. TypeOK /\ Goes(c) /\ NoNonce \notin Nat
  BY RequestsStep, MessagerAssumption DEF IInv
<1>1. CASE m \in got[c]
  <2>1. /\ pc[c] \in {"found", "replace", "done"} /\ msgs[m.id].st # "none" /\ m.id \in Slot
        /\ req[c].kind = "list" => AskedFor(req[c], m)
        /\ req[c].kind = "replace" =>
             req[c].id = NoId /\ (req[c].nonce # 0 => msgs[m.id].nonce = req[c].nonce)
    BY <1>0, <1>1 DEF IInv, Found, TypeOK, Copy
  <2>2. Keeps(m.id)
    BY <2>1, MessagesStep
  <2>3. /\ req[c].kind \in {"list", "replace"} => req[c].nonce \in Nat \cup {NoNonce}
        /\ req[c].kind = "replace" => req[c].nonce \in Nat
    BY <1>0, RequestFields DEF TypeOK
  <2>4. req'[c] = req[c] /\ pc'[c] \in {"found", "replace", "done"}
    BY <1>0, <2>1 DEF Goes
  <2>5. req[c].kind = "list" => AskedFor(req[c], m)'
    BY <1>0, <2>1, <2>2, <2>3, <2>4 DEF AskedFor, Keeps
  <2>6. req[c].kind = "replace" /\ req[c].nonce # 0 => msgs'[m.id].nonce = req[c].nonce
    BY <1>0, <2>1, <2>2, <2>3 DEF Keeps
  <2> QED
    BY <2>1, <2>2, <2>4, <2>5, <2>6 DEF Keeps
<1>2. CASE m \notin got[c]
  <2>1. QueryFound(c)
    BY <1>0, <1>2 DEF Goes
  <2>2. PICK S \in Answers(QueryOf(req[c])) :
          got' = [got EXCEPT ![c] = {CopyOf(n) : n \in S}]
    BY <2>1 DEF QueryFound
  <2>a. PICK n \in S : m = CopyOf(n)
    BY <1>0, <2>2 DEF TypeOK
  <2>b. m.id = n /\ m = CopyOf(m.id)
    BY <2>a DEF CopyOf
  <2>3. /\ m.id \in S /\ m.id \in There /\ req' = req /\ msgs' = msgs /\ pc'[c] = "found"
        /\ pc[c] = "find" /\ req[c].kind \in {"list", "replace"}
    BY <1>0, <2>1, <2>2, <2>b, AnswersTypes DEF QueryFound, At, Goto, TypeOK, mvars
  <2>4. \/ req[c].kind = "list" /\ ~ListRefused(req[c])
        \/ req[c].kind = "replace" /\ req[c].id = NoId
    BY <2>3 DEF IInv, Queried
  <2>5. ASSUME req[c].kind = "list" PROVE AskedFor(req[c], m)
    <3>1. req[c] \in ListAsk
      BY <1>0, <2>5 DEF TypeOK, Request, SendAsk, ListAsk, ReplaceAsk, BadAsk, DeleteAsk,
        ActiveAsk, ForbidAsk, SetAsk, AddrsAsk
    <3>2. S \in Answers(ListQuery(req[c]))
      BY <2>2, <2>5 DEF QueryOf
    <3> QED
      BY <1>0, <2>b, <2>3, <2>4, <2>5, <3>1, <3>2, ListAnswers
  <2>6. ASSUME req[c].kind = "replace", req[c].nonce # 0 PROVE msgs[m.id].nonce = req[c].nonce
    <3>1. S \in Answers(ReplaceQuery(req[c]))
      BY <2>2, <2>6 DEF QueryOf
    <3> QED
      BY <2>3, <2>6, <3>1, ReplaceAnswers
  <2>7. AskedFor(req[c], m)' <=> AskedFor(req[c], m)
    BY <2>3 DEF AskedFor
  <2> QED
    BY <2>3, <2>4, <2>5, <2>6, <2>7 DEF There
<1> QED
  BY <1>1, <1>2

LEMMA NamedStep == IInv /\ [Next]_vars => Named'
<1> SUFFICES ASSUME IInv, [Next]_vars, NEW c \in Call, NEW m \in Slot, msgs'[m].price = c
             PROVE  /\ pc'[c] = "done" /\ msgs'[m].st \notin {"none", "unfill"}
                    /\ req'[c].id # NoId => m = req'[c].id
                    /\ req'[c].id = NoId /\ req'[c].nonce # 0 =>
                         msgs'[m].nonce = req'[c].nonce
  BY DEF Named
<1>0. TypeOK /\ Goes(c) /\ NoNonce \notin Nat /\ NoCall \notin Call
  BY RequestsStep, MessagerAssumption DEF IInv
<1>1. msgs[m].price = c =>
        /\ pc[c] = "done" /\ msgs[m].st \notin {"none", "unfill"}
        /\ req[c].id # NoId => m = req[c].id
        /\ req[c].id = NoId /\ req[c].nonce # 0 => msgs[m].nonce = req[c].nonce
  BY DEF IInv, Named
<1>2. CASE msgs[m].st = "none"
  <2>1. msgs'[m] = msgs[m] \/ msgs'[m].price = NoCall
    BY <1>2, MessagesStep
  <2> QED
    BY <1>0, <1>1, <1>2, <2>1
<1>3. CASE msgs[m].st # "none"
  <2>1. Keeps(m) /\ Prices(m)
    BY <1>3, MessagesStep
  <2>2. CASE msgs'[m].price = msgs[m].price
    BY <1>0, <1>1, <2>1, <2>2 DEF Keeps, Goes
  <2>3. CASE msgs'[m].price # msgs[m].price
    <3>1. Replaced(c) /\ m \in Chosen(c) /\ msgs[m].st = "fill"
      BY <1>0, <2>1, <2>3 DEF Prices
    <3>2. pc'[c] = "done" /\ req' = req /\ req[c].kind = "replace"
      BY <1>0, <3>1 DEF Replaced, At, Return, TypeOK
    <3>3. msgs'[m].nonce = msgs[m].nonce /\ msgs'[m].st \notin {"none", "unfill"}
      BY <2>1, <3>1 DEF Keeps
    <3>4. req[c].id # NoId => m = req[c].id
      BY <3>1 DEF Chosen
    <3>5. req[c].id = NoId /\ req[c].nonce # 0 => msgs[m].nonce = req[c].nonce
      BY <3>1, <3>2 DEF Chosen, IInv, Found
    <3> QED
      BY <3>2, <3>3, <3>4, <3>5
  <2> QED
    BY <2>2, <2>3
<1> QED
  BY <1>2, <1>3

\* What one call on an address does to the others that are under way.
LEMMA WriteEffects ==
  ASSUME TypeOK, NEW d \in Call, req[d].kind \in Operating,
         NEW what \in {"spec", "num", "state"}, NEW e \in Entry, Write(d, what, e)
  PROVE  \A c \in Call :
           /\ gone[c] => gone'[c]
           /\ c # d \/ req[d].addr \notin Present => done'[c] = done[c]
           /\ c = d /\ req[d].addr \in Present => done'[c] = done[c] \cup {what}
           /\ Running(c) /\ req[c].kind \in Operating /\ req[c].addr \in Present =>
                gone'[c] \/ req[c].addr \in Present'
           /\ always[c].book \subseteq Present => always'[c].book \subseteq Present'
           /\ always'[c].book \subseteq always[c].book
           /\ always'[c].wallet = always[c].wallet
<1> SUFFICES ASSUME NEW c \in Call
             PROVE  /\ gone[c] => gone'[c]
                    /\ c # d \/ req[d].addr \notin Present => done'[c] = done[c]
                    /\ c = d /\ req[d].addr \in Present => done'[c] = done[c] \cup {what}
                    /\ Running(c) /\ req[c].kind \in Operating /\ req[c].addr \in Present =>
                         gone'[c] \/ req[c].addr \in Present'
                    /\ always[c].book \subseteq Present => always'[c].book \subseteq Present'
                    /\ always'[c].book \subseteq always[c].book
                    /\ always'[c].wallet = always[c].wallet
  OBVIOUS
<1>0. /\ req[d].addr \in Addr /\ book \in [Addr -> Entry] /\ always[c] \in Pair
      /\ done \in [Call -> SUBSET {"spec", "num", "state"}]
  BY RequestFields DEF TypeOK
<1>1. CASE req[d].addr \notin Present
  <2>1. book' = book /\ done' = done /\ gone' = gone /\ always' = always
    BY <1>1 DEF Write
  <2>2. Present' = Present
    BY <2>1 DEF Present
  <2> QED
    BY <1>1, <2>1, <2>2
<1>2. CASE req[d].addr \in Present
  <2>1. /\ book' = [book EXCEPT ![req[d].addr] = e]
        /\ done'[c] = IF c = d THEN done[c] \cup {what} ELSE done[c]
    BY <1>0, <1>2 DEF Write
  <2>2. gone'[c] <=> gone[c] \/ (e.state = "absent" /\ Running(c)
                       /\ req[c].kind \in Operating /\ req[c].addr = req[d].addr)
    <3>1. gone' = [f \in Call |-> gone[f] \/ (e.state = "absent" /\ Running(f)
                     /\ req[f].kind \in Operating /\ req[f].addr = req[d].addr)]
      BY <1>2 DEF Write
    <3> QED
      BY <3>1
  <2>3. /\ always'[c].wallet = always[c].wallet
        /\ always'[c].book = IF e.state = "absent" THEN always[c].book \ {req[d].addr}
                             ELSE always[c].book
    <3>1. always' = [f \in Call |-> [always[f] EXCEPT
                       !.book = IF e.state = "absent" THEN @ \ {req[d].addr} ELSE @]]
      BY <1>2 DEF Write
    <3>2. always'[c] = [always[c] EXCEPT
            !.book = IF e.state = "absent" THEN @ \ {req[d].addr} ELSE @]
      BY <3>1
    <3> QED
      BY <1>0, <3>2 DEF Pair
  <2>4. Present' = IF e.state = "absent" THEN Present \ {req[d].addr} ELSE Present
    BY <1>0, <1>2, <2>1 DEF Present
  <2> QED
    BY <1>2, <2>1, <2>2, <2>3, <2>4
<1> QED
  BY <1>1, <1>2

\* A request that does nothing, while others change the addresses, is as far as
\* it was.
LEMMA StaysAdvanced ==
  ASSUME TypeOK, NEW c \in Call, Advanced(c),
         pc'[c] = pc[c], ans'[c] = ans[c], req'[c] = req[c], done'[c] = done[c],
         gone[c] => gone'[c],
         Running(c) /\ req[c].kind \in Operating /\ req[c].addr \in Present =>
           gone'[c] \/ req[c].addr \in Present'
  PROVE  Advanced(c)'
<1>1. pc[c] \in {"operate", "num"} => Running(c) /\ req[c].kind \in Operating
  BY DEF Advanced, Running, Live, Operating
<1>2. ToSet(c)' <=> ToSet(c)
  BY DEF ToSet
<1> QED
  BY <1>1, <1>2 DEF Advanced

LEMMA ProgressStep == IInv /\ [Next]_vars => Progress'
<1> SUFFICES ASSUME IInv, [Next]_vars, NEW c \in Call PROVE Advanced(c)'
  BY DEF Progress
<1> USE DEF At, Goto, Return
<1>0. TypeOK /\ Progress /\ Advanced(c)
  BY DEF IInv, Progress
<1>t. /\ pc \in [Call -> Live \cup {"idle", "done"}] /\ ans \in [Call -> Answer]
      /\ req \in [Call -> Request]
      /\ pc[c] = "done" <=> ans[c] # "none"
  BY DEF IInv, TypeOK, Sound
<1>1. ASSUME pc'[c] = pc[c], ans'[c] = ans[c], req'[c] = req[c],
             done' = done, gone' = gone, Present \subseteq Present'
      PROVE  Advanced(c)'
  BY <1>0, <1>1, StaysAdvanced
<1>2. ASSUME pc'[c] = "done", ans'[c] # "ok" PROVE Advanced(c)'
  BY <1>2 DEF Advanced
<1>3. ASSUME req'[c] = req[c], req[c].kind \notin Operating,
             pc'[c] \notin {"idle", "begin", "operate", "num"}
      PROVE  Advanced(c)'
  BY <1>3 DEF Advanced
<1>4. ASSUME NEW d \in Call, Begin(d) PROVE Advanced(c)'
  <2>1. CASE c = d
    <3>1. pc'[c] = "begin" /\ done'[c] = {} /\ ans'[c] = "none"
      BY <1>0, <1>t, <1>4, <2>1 DEF Begin, Advanced
    <3> QED
      BY <3>1 DEF Advanced
  <2>2. CASE c # d
    BY <1>1, <1>t, <1>4, <2>2 DEF Begin, Present, avars
  <2> QED
    BY <2>1, <2>2
<1>5. ASSUME NEW d \in Call, c # d, NEW from, NEW kinds, NEW to,
             Pass(d, from, kinds, to) \/ End(d, from, kinds, to)
      PROVE  Advanced(c)'
  BY <1>1, <1>t, <1>5 DEF Pass, End, Present, avars, hist
<1>6. ASSUME NEW d \in Call,
             \/ SendPanics(d) \/ SendRefused(d) \/ SendDecoded(d) \/ Refused(d)
             \/ ToFind(d) \/ QueryFails(d) \/ QueryPanics(d) \/ QueryAnswered(d)
             \/ ToReplace(d) \/ ReplaceFails(d) \/ MarkBadFails(d)
             \/ AddrListFails(d) \/ AddrListPanics(d) \/ AddrListed(d)
      PROVE  Advanced(c)'
  <2>1. \/ \E from, kinds : \E to \in {"push", "find", "replace"} :
             Pass(d, from, kinds, to) /\ req[d].kind \notin Operating
        \/ \E from, kinds, a : End(d, from, kinds, a) /\ req[d].kind \notin Operating
    BY <1>6 DEF SendPanics, SendRefused, SendDecoded, Refused, ToFind, QueryFails,
      QueryPanics, QueryAnswered, ToReplace, ReplaceFails, MarkBadFails,
      AddrListFails, AddrListPanics, AddrListed, Pass, End, Operating
  <2>2. CASE c = d
    BY <1>3, <1>t, <2>1, <2>2 DEF Pass, End
  <2>3. CASE c # d
    BY <1>5, <2>1, <2>3
  <2> QED
    BY <2>2, <2>3
<1>7. ASSUME NEW d \in Call, SetRefused(d) \/ NoAddress(d) \/ OperateFails(d)
      PROVE  Advanced(c)'
  <2>1. \E from, kinds : \E a \in {"refused", "error"} : End(d, from, kinds, a)
    BY <1>7 DEF SetRefused, NoAddress, OperateFails
  <2>2. CASE c = d
    BY <1>2, <1>t, <2>1, <2>2 DEF End
  <2>3. CASE c # d
    BY <1>5, <2>1, <2>3
  <2> QED
    BY <2>2, <2>3
<1>8. ASSUME NEW d \in Call, HasAddress(d) PROVE Advanced(c)'
  <2>1. CASE c # d
    BY <1>5, <1>8, <2>1 DEF HasAddress
  <2>2. CASE c = d
    <3>1. /\ req[c].kind \in Operating /\ req[c].addr \in Present /\ pc[c] = "begin"
          /\ req' = req /\ done' = done /\ book' = book /\ done[c] = {}
      BY <1>0, <1>8, <2>2 DEF HasAddress, Pass, End, Advanced, hist, avars
    <3>2. Present' = Present
      BY <3>1 DEF Present
    <3>3. \/ pc'[c] = "operate" /\ ans'[c] = "none" /\ (req[c].kind = "set" => req[c].spec)
          \/ pc'[c] = "num" /\ ans'[c] = "none" /\ req[c].kind = "set" /\ ~req[c].spec /\ ToSet(c)
          \/ pc'[c] = "done" /\ req[c].kind = "set" /\ ~req[c].spec /\ req[c].num = 0
      BY <1>8, <1>t, <2>2 DEF HasAddress, Pass, End
    <3>4. ToSet(c)' <=> ToSet(c)
      BY <3>1 DEF ToSet
    <3>5. CASE pc'[c] = "operate"
      BY <3>1, <3>2, <3>3, <3>5 DEF Advanced
    <3>6. CASE pc'[c] = "num"
      BY <3>1, <3>2, <3>3, <3>4, <3>6 DEF Advanced
    <3>7. CASE pc'[c] = "done"
      <4>1. ToDo(req[c]) = {}
        BY <3>3, <3>7 DEF ToDo
      <4> QED
        BY <3>1, <3>7, <4>1 DEF Advanced
    <3> QED
      BY <3>3, <3>5, <3>6, <3>7
  <2> QED
    BY <2>1, <2>2
<1>9. ASSUME NEW d \in Call, SendPushed(d) \/ Replaced(d) \/ MarkedBad(d) \/ QueryFound(d)
             \/ BookListed(d) \/ WalletListed(d)
      PROVE  Advanced(c)'
  <2>1. /\ req' = req /\ done' = done /\ gone' = gone /\ book' = book
        /\ req[d].kind \notin Operating
    BY <1>9 DEF SendPushed, Replaced, MarkedBad, QueryFound, BookListed, WalletListed,
      hist, avars, Operating
  <2>2. CASE c = d
    <3>1. pc'[c] \in {"done", "found", "wallet", "actors"}
      BY <1>9, <1>t, <2>2 DEF SendPushed, Replaced, MarkedBad, QueryFound, BookListed, WalletListed
    <3> QED
      BY <1>3, <2>1, <2>2, <3>1
  <2>3. CASE c # d
    <3>1. pc'[c] = pc[c] /\ ans'[c] = ans[c]
      BY <1>9, <1>t, <2>3 DEF SendPushed, Replaced, MarkedBad, QueryFound, BookListed, WalletListed
    <3> QED
      BY <1>1, <2>1, <3>1 DEF Present
  <2> QED
    BY <2>2, <2>3
<1>10. ASSUME NEW d \in Call, Operated(d) \/ SpecSet(d) \/ NumSet(d) PROVE Advanced(c)'
  <2>1. CASE c # d
    <3>1. pc'[c] = pc[c] /\ ans'[c] = ans[c] /\ req'[c] = req[c]
      BY <1>10, <1>t, <2>1 DEF Operated, SpecSet, NumSet
    <3>2. PICK what \in {"spec", "num", "state"}, e \in Entry : Write(d, what, e)
      BY <1>0, <1>10, WritesAddress
    <3>3. req[d].kind \in Operating
      BY <1>0, <1>10, WritesAddress
    <3>4. /\ done'[c] = done[c]
          /\ gone[c] => gone'[c]
          /\ Running(c) /\ req[c].kind \in Operating /\ req[c].addr \in Present =>
               gone'[c] \/ req[c].addr \in Present'
      BY <1>0, <2>1, <3>2, <3>3, WriteEffects
    <3> QED
      BY <1>0, <3>1, <3>4, StaysAdvanced
  <2>2. CASE c = d /\ Operated(c)
    <3>1. PICK e \in Entry : Write(c, "state", e)
      <4>1. NewState(c) \in {"absent", "active", "forbidden"}
        BY <2>2 DEF Operated, NewState, Operating
      <4>2. book[req[c].addr] \in Entry
        BY <1>0, <2>2, RequestFields DEF Operated, TypeOK
      <4> QED
        BY <2>2, <4>1, <4>2 DEF Operated, Entry
    <3>2. /\ req[c].kind \in Operating \ {"set"} /\ pc[c] = "operate" /\ req'[c] = req[c]
          /\ pc'[c] = "done"
      BY <1>t, <2>2 DEF Operated
    <3>3. done[c] = {} /\ (gone[c] \/ req[c].addr \in Present)
      BY <1>0, <3>2 DEF Advanced
    <3>4. gone'[c] \/ done'[c] = {"state"}
      BY <1>0, <3>1, <3>2, <3>3, WriteEffects
    <3>5. ToDo(req[c]) = {"state"}
      BY <3>2 DEF ToDo
    <3> QED
      BY <3>2, <3>4, <3>5 DEF Advanced
  <2>3. CASE c = d /\ SpecSet(c)
    <3>1. PICK e \in Entry : Write(c, "spec", e)
      BY <1>0, <2>3, RequestFields DEF SpecSet, TypeOK, Entry, Operating
    <3>2. /\ req[c].kind = "set" /\ pc[c] = "operate" /\ req'[c] = req[c]
          /\ IF ToSet(c) THEN pc'[c] = "num" /\ ans'[c] = "none" ELSE pc'[c] = "done"
      BY <1>t, <2>3 DEF SpecSet
    <3>3. done[c] = {} /\ (gone[c] \/ req[c].addr \in Present) /\ req[c].spec
      BY <1>0, <3>2 DEF Advanced
    <3>4. /\ gone'[c] \/ done'[c] = {"spec"}
          /\ gone'[c] \/ req[c].addr \in Present'
      <4>1. Running(c) /\ req[c].kind \in Operating
        BY <3>2 DEF Running, Live, Operating
      <4> QED
        BY <1>0, <3>1, <3>3, <4>1, WriteEffects
    <3>5. (ToSet(c)' <=> ToSet(c)) /\ (~ToSet(c) => ToDo(req[c]) = {"spec"})
      BY <3>2, <3>3 DEF ToSet, ToDo
    <3>6. {w \in {"spec"} : req[c].spec} = {"spec"}
      BY <3>3
    <3>7. CASE ToSet(c)
      BY <3>2, <3>4, <3>5, <3>6, <3>7 DEF Advanced
    <3>8. CASE ~ToSet(c)
      BY <3>2, <3>4, <3>5, <3>8 DEF Advanced
    <3> QED
      BY <3>7, <3>8
  <2>4. CASE c = d /\ NumSet(c)
    <3>1. /\ req[c].kind = "set" /\ pc[c] = "num" /\ req'[c] = req[c] /\ pc'[c] = "done"
      BY <1>t, <2>4 DEF NumSet
    <3>2. /\ ToSet(c) /\ (gone[c] \/ req[c].addr \in Present)
          /\ gone[c] \/ done[c] = {w \in {"spec"} : req[c].spec}
      BY <1>0, <3>1 DEF Advanced
    <3>3. PICK e \in Entry : Write(c, "num", e)
      <4>1. req[c].num \in Nat \ {0} /\ req[c].addr \in Addr
        BY <1>0, <3>1, <3>2, RequestFields DEF ToSet, TypeOK, Operating
      <4> QED
        BY <1>0, <2>4, <4>1 DEF NumSet, TypeOK, Entry
    <3>4. gone'[c] \/ done'[c] = {w \in {"spec"} : req[c].spec} \cup {"num"}
      <4>1. req[c].kind \in Operating
        BY <3>1 DEF Operating
      <4> QED
        BY <1>0, <3>2, <3>3, <4>1, WriteEffects
    <3>5. ToDo(req[c]) = {w \in {"spec"} : req[c].spec} \cup {"num"}
      BY <3>1, <3>2 DEF ToDo, ToSet
    <3> QED
      BY <3>1, <3>4, <3>5 DEF Advanced
  <2> QED
    BY <1>10, <2>1, <2>2, <2>3, <2>4
<1>11. CASE MessageMoves \/ UNCHANGED vars
  BY <1>1, <1>11 DEF MessageMoves, vars, hist, avars, Present
<1>12. CASE KeysMove
  <2>1. Present \subseteq Present'
    BY <1>0, <1>12 DEF KeysMove, NewKey, Adopt, Present, TypeOK
  <2> QED
    BY <1>1, <1>12, <2>1 DEF KeysMove, hist
<1>13. CASE Crash
  <2>1. CASE Running(c)
    BY <1>2, <1>13, <2>1 DEF Crash
  <2>2. CASE ~Running(c)
    BY <1>1, <1>t, <1>13, <2>2 DEF Crash, hist, avars, Present
  <2> QED
    BY <2>1, <2>2
<1> QED
  BY <1>4, <1>6, <1>7, <1>8, <1>9, <1>10, <1>11, <1>12, <1>13
     DEF Next, MsgHandler, AddrHandler

\* A request that does not list, or waits, while addresses come, and those that go
\* are taken out of its history.
LEMMA StaysMerged ==
  ASSUME NEW c \in Call, Merged(c),
         pc'[c] = pc[c], ans'[c] = ans[c], req'[c] = req[c], listed'[c] = listed[c],
         always[c].book \subseteq Present => always'[c].book \subseteq Present',
         always'[c].book \subseteq always[c].book,
         always'[c].wallet = always[c].wallet, wallet \subseteq wallet'
  PROVE  Merged(c)'
  BY DEF Merged

LEMMA MergeStep == IInv /\ [Next]_vars => Merge'
<1> SUFFICES ASSUME IInv, [Next]_vars, NEW c \in Call PROVE Merged(c)'
  BY DEF Merge
<1> USE DEF At, Goto, Return
<1>0. TypeOK /\ Progress /\ Merged(c)
  BY DEF IInv, Merge
<1>t. /\ pc \in [Call -> Live \cup {"idle", "done"}] /\ ans \in [Call -> Answer]
      /\ req \in [Call -> Request] /\ listed \in [Call -> Pair] /\ always \in [Call -> Pair]
      /\ pc[c] = "done" <=> ans[c] # "none"
  BY DEF IInv, TypeOK, Sound
<1>1. ASSUME pc'[c] = pc[c], ans'[c] = ans[c], req'[c] = req[c],
             listed' = listed, always' = always, Present \subseteq Present',
             wallet \subseteq wallet'
      PROVE  Merged(c)'
  BY <1>0, <1>1, StaysMerged
\* A step of the request itself, after which it is not a list that is under way.
<1>2. ASSUME pc[c] # "idle", pc'[c] \notin {"wallet", "actors"},
             ans'[c] = "ok" => req'[c].kind # "addrs",
             always[c].book \subseteq Present => always'[c].book \subseteq Present',
             always'[c].wallet = always[c].wallet, wallet \subseteq wallet'
      PROVE  Merged(c)'
  BY <1>0, <1>2 DEF Merged
<1>3. ASSUME NEW d \in Call, c # d, NEW from, NEW kinds, NEW to,
             Pass(d, from, kinds, to) \/ End(d, from, kinds, to)
      PROVE  Merged(c)'
  BY <1>1, <1>t, <1>3 DEF Pass, End, Present, avars, hist
<1>4. ASSUME NEW d \in Call, Begin(d) PROVE Merged(c)'
  <2>1. CASE c = d
    <3>1. /\ pc'[c] = "begin" /\ ans'[c] = "none"
          /\ always'[c].book = Present /\ always'[c].wallet = wallet
          /\ wallet' = wallet /\ book' = book
      BY <1>t, <1>4, <2>1 DEF Begin, avars
    <3> QED
      BY <3>1 DEF Merged, Present
  <2>2. CASE c # d
    <3>1. /\ pc'[c] = pc[c] /\ ans'[c] = ans[c] /\ req'[c] = req[c]
          /\ listed' = listed /\ always'[c] = always[c]
          /\ wallet' = wallet /\ book' = book
      BY <1>t, <1>4, <2>2 DEF Begin, avars
    <3> QED
      BY <1>0, <3>1, StaysMerged DEF Present
  <2> QED
    BY <2>1, <2>2
<1>5. ASSUME NEW d \in Call,
             \/ SendPanics(d) \/ SendRefused(d) \/ SendDecoded(d) \/ Refused(d)
             \/ ToFind(d) \/ QueryFails(d) \/ QueryPanics(d) \/ QueryAnswered(d)
             \/ ToReplace(d) \/ ReplaceFails(d) \/ MarkBadFails(d)
             \/ SetRefused(d) \/ HasAddress(d) \/ NoAddress(d) \/ OperateFails(d)
             \/ AddrListFails(d) \/ AddrListPanics(d)
      PROVE  Merged(c)'
  <2>1. \/ \E from \in Live : \E kinds : \E to \in {"push", "find", "replace", "operate", "num"} :
             Pass(d, from, kinds, to)
        \/ \E from \in Live : \E kinds, a :
             End(d, from, kinds, a) /\ (a = "ok" => req[d].kind # "addrs")
    <3>1. CASE SendPanics(d) \/ SendRefused(d) \/ Refused(d) \/ QueryFails(d) \/ QueryPanics(d)
               \/ ReplaceFails(d) \/ MarkBadFails(d) \/ SetRefused(d) \/ NoAddress(d)
               \/ OperateFails(d) \/ AddrListFails(d) \/ AddrListPanics(d)
      <4>1. \E from \in Live : \E kinds : \E a \in {"panic", "refused", "error"} :
              End(d, from, kinds, a)
        BY <3>1 DEF SendPanics, SendRefused, Refused, QueryFails, QueryPanics, ReplaceFails,
          MarkBadFails, SetRefused, NoAddress, OperateFails, AddrListFails, AddrListPanics, Live
      <4> QED
        BY <4>1
    <3>2. CASE SendDecoded(d) \/ ToFind(d) \/ ToReplace(d)
      BY <3>2 DEF SendDecoded, ToFind, ToReplace, Live
    <3>3. CASE QueryAnswered(d)
      <4>1. req[d].kind # "addrs"
        BY <3>3 DEF QueryAnswered, Pass, End
      <4> QED
        BY <3>3, <4>1 DEF QueryAnswered, Live
    <3>4. CASE HasAddress(d)
      <4>1. req[d].kind # "addrs"
        BY <3>4 DEF HasAddress, Operating
      <4> QED
        BY <3>4, <4>1 DEF HasAddress, Live
    <3> QED
      BY <1>5, <3>1, <3>2, <3>3, <3>4
  <2>2. CASE c = d
    <3>1. /\ pc[c] # "idle" /\ pc'[c] \notin {"wallet", "actors"}
          /\ ans'[c] = "ok" => req'[c].kind # "addrs"
      BY <1>t, <2>1, <2>2 DEF Pass, End, Live
    <3>2. always' = always /\ wallet' = wallet /\ Present' = Present
      BY <2>1 DEF Pass, End, hist, avars, Present
    <3> QED
      BY <1>2, <3>1, <3>2
  <2>3. CASE c # d
    BY <1>3, <2>1, <2>3
  <2> QED
    BY <2>2, <2>3
<1>6. ASSUME NEW d \in Call, SendPushed(d) \/ Replaced(d) \/ MarkedBad(d) \/ QueryFound(d)
      PROVE  Merged(c)'
  <2>1. /\ req' = req /\ listed' = listed /\ always' = always
        /\ wallet' = wallet /\ Present' = Present /\ req[d].kind # "addrs"
    BY <1>6 DEF SendPushed, Replaced, MarkedBad, QueryFound, hist, avars, Present
  <2>2. CASE c = d
    <3>1. pc[c] # "idle" /\ pc'[c] \in {"done", "found"}
      BY <1>6, <1>t, <2>2 DEF SendPushed, Replaced, MarkedBad, QueryFound
    <3> QED
      BY <1>2, <2>1, <2>2, <3>1
  <2>3. CASE c # d
    <3>1. pc'[c] = pc[c] /\ ans'[c] = ans[c]
      BY <1>6, <1>t, <2>3 DEF SendPushed, Replaced, MarkedBad, QueryFound
    <3> QED
      BY <1>1, <2>1, <3>1
  <2> QED
    BY <2>2, <2>3
<1>7. ASSUME NEW d \in Call, Operated(d) \/ SpecSet(d) \/ NumSet(d) PROVE Merged(c)'
  <2>1. PICK what \in {"spec", "num", "state"}, e \in Entry : Write(d, what, e)
    BY <1>0, <1>7, WritesAddress
  <2>2. req[d].kind \in Operating
    BY <1>0, <1>7, WritesAddress
  <2>3. /\ always[c].book \subseteq Present => always'[c].book \subseteq Present'
        /\ always'[c].book \subseteq always[c].book
        /\ always'[c].wallet = always[c].wallet
    BY <1>0, <2>1, <2>2, WriteEffects
  <2>4. req' = req /\ listed' = listed /\ wallet' = wallet
    BY <1>7 DEF Operated, SpecSet, NumSet
  <2>5. CASE c = d
    <3>1. pc[c] # "idle" /\ pc'[c] \in {"done", "num"} /\ req[c].kind # "addrs"
      BY <1>7, <1>t, <2>2, <2>5 DEF Operated, SpecSet, NumSet, Operating
    <3> QED
      BY <1>2, <2>3, <2>4, <3>1
  <2>6. CASE c # d
    <3>1. pc'[c] = pc[c] /\ ans'[c] = ans[c]
      BY <1>7, <1>t, <2>6 DEF Operated, SpecSet, NumSet
    <3> QED
      BY <1>0, <2>3, <2>4, <3>1, StaysMerged
  <2> QED
    BY <2>5, <2>6
<1>8. ASSUME NEW d \in Call, BookListed(d) \/ WalletListed(d) \/ AddrListed(d)
      PROVE  Merged(c)'
  <2>1. /\ req' = req /\ always' = always /\ wallet' = wallet /\ Present' = Present
    BY <1>8 DEF BookListed, WalletListed, AddrListed, End, hist, avars, Present
  <2>2. CASE c # d
    <3>1. pc'[c] = pc[c] /\ ans'[c] = ans[c] /\ listed'[c] = listed[c]
      BY <1>8, <1>t, <2>2 DEF BookListed, WalletListed, AddrListed, End
    <3> QED
      BY <1>0, <2>1, <3>1, StaysMerged
  <2>3. CASE c = d /\ BookListed(c)
    <3>1. /\ pc[c] = "begin" /\ pc'[c] = "wallet" /\ ans'[c] = "none"
          /\ listed'[c].book = Present
      BY <1>t, <2>3 DEF BookListed, Pair
    <3> QED
      BY <1>0, <2>1, <3>1 DEF Merged
  <2>4. CASE c = d /\ WalletListed(c)
    <3>1. /\ pc[c] = "wallet" /\ pc'[c] = "actors" /\ ans'[c] = "none"
          /\ listed'[c].book = listed[c].book
          /\ listed'[c].wallet = wallet \ listed[c].book
      BY <1>t, <2>4 DEF WalletListed, Pair
    <3>2. /\ always[c].book \subseteq listed[c].book /\ always[c].wallet \subseteq wallet
          /\ always[c].book \subseteq Present
      BY <1>0, <3>1 DEF Merged
    <3> QED
      BY <2>1, <3>1, <3>2 DEF Merged
  <2>5. CASE c = d /\ AddrListed(c)
    <3>1. pc[c] = "actors" /\ pc'[c] = "done" /\ listed'[c] = listed[c]
      BY <1>t, <2>5 DEF AddrListed, End
    <3> QED
      BY <1>0, <2>1, <3>1 DEF Merged
  <2> QED
    BY <1>8, <2>2, <2>3, <2>4, <2>5
<1>9. CASE MessageMoves \/ UNCHANGED vars
  BY <1>1, <1>9 DEF MessageMoves, vars, hist, avars, Present
<1>10. CASE KeysMove
  <2>1. Present \subseteq Present' /\ wallet \subseteq wallet'
    BY <1>0, <1>10 DEF KeysMove, NewKey, Adopt, Present, TypeOK
  <2> QED
    BY <1>1, <1>10, <2>1 DEF KeysMove, hist
<1>11. CASE Crash
  <2>1. req' = req /\ listed' = listed /\ always' = always /\ wallet' = wallet /\ Present' = Present
    BY <1>11 DEF Crash, hist, avars, Present
  <2>2. CASE Running(c)
    <3>1. pc[c] # "idle" /\ pc'[c] = "done" /\ ans'[c] = "lost"
      BY <1>11, <2>2 DEF Crash, Running, Live
    <3> QED
      BY <1>2, <2>1, <3>1
  <2>3. CASE ~Running(c)
    BY <1>1, <1>t, <1>11, <2>1, <2>3 DEF Crash
  <2> QED
    BY <2>2, <2>3
<1> QED
  BY <1>4, <1>5, <1>6, <1>7, <1>8, <1>9, <1>10, <1>11 DEF Next, MsgHandler, AddrHandler
-----------------------------------------------------------------------------
(* The invariant, and what follows from it. *)

LEMMA IInvInit == Init => IInv
<1> SUFFICES ASSUME Init PROVE IInv
  OBVIOUS
<1>1. TypeOK
  BY TypeInit
<1>2. Sound /\ Queried /\ Found
  BY MessagerAssumption DEF Init, Sound, Queried, Found
<1>3. Nonces /\ Named
  BY MessagerAssumption DEF Init, Nonces, Named
<1>4. Progress
  BY DEF Init, Progress, Advanced
<1>5. Merge
  BY DEF Init, Merge, Merged
<1> QED
  BY <1>1, <1>2, <1>3, <1>4, <1>5 DEF IInv

LEMMA IInvStep == IInv /\ [Next]_vars => IInv'
<1> SUFFICES ASSUME IInv, [Next]_vars PROVE IInv'
  OBVIOUS
<1>1. TypeOK'
  BY TypeStep DEF IInv
<1>2. Sound' /\ Nonces' /\ Queried' /\ Found' /\ Named'
  BY SoundStep, NoncesStep, QueriedStep, FoundStep, NamedStep
<1>3. Progress' /\ Merge'
  BY ProgressStep, MergeStep
<1> QED
  BY <1>1, <1>2, <1>3 DEF IInv

\* The invariant holds for every set of requests, messages and addresses.
THEOREM Invariance == Spec => []IInv
  BY IInvInit, IInvStep, PTL DEF Spec

\* Requests, messages and addresses keep their types; the number of messages an
\* address selects is never zero.
THEOREM MBTypeCorrect == Spec => []TypeOK
<1>1. IInv => TypeOK
  BY DEF IInv
<1> QED
  BY <1>1, Invariance, PTL

\* The message that msg replace changes is the one it names by ID or nonce, though
\* it is found with one request and replaced with another.
THEOREM MBReplacesNamed == Spec => []ReplacesNamed
<1>1. IInv => ReplacesNamed
  BY DEF IInv, Named, ReplacesNamed
<1> QED
  BY <1>1, Invariance, PTL

\* What msg list shows is what its flags ask for, by ID, sender, nonce and state as
\* the query read them, whatever becomes of the messages meanwhile.
THEOREM MBListedAsAsked == Spec => []ListedAsAsked
<1>1. IInv => ListedAsAsked
  BY DEF IInv, Found, ListedAsAsked
<1> QED
  BY <1>1, Invariance, PTL

\* Success of an operation on an address: all of it was done, or the address was
\* deleted meanwhile.
THEOREM MBDoneOrGone == Spec => []DoneOrGone
<1>1. IInv => DoneOrGone
  BY DEF IInv, Progress, Advanced, DoneOrGone
<1> QED
  BY <1>1, Invariance, PTL

\* The list of addresses names each once, and all that were there throughout.
THEOREM MBListsAddressesOnce == Spec => []ListsAddressesOnce
<1>1. IInv => ListsAddressesOnce
  BY DEF IInv, Merge, Merged, ListsAddressesOnce
<1> QED
  BY <1>1, Invariance, PTL
-----------------------------------------------------------------------------
(* MsgSend implements PushCall: the message of a call and the call's answer. *)

LEMMA SendsStay ==
  ASSUME \A c \in Call : MstOf(c)' = MstOf(c) /\ AnsOf(c)' = AnsOf(c)
  PROVE  UNCHANGED Sends!vars
  BY DEF Sends!vars

\* One message settles, and no answer is given.
LEMMA SendsSettle ==
  ASSUME TypeOK, NEW m \in Slot, msgs[m].st \in {"unfill", "fill"},
         NEW s \in {"ok", "error", "failed"}, msgs' = [msgs EXCEPT ![m].st = s],
         \A c \in Call : AnsOf(c)' = AnsOf(c)
  PROVE  [Sends!Next]_(Sends!vars)
<1>1. \A c \in Call : MstOf(c)' = IF c = m THEN s ELSE MstOf(c)
  BY DEF MstOf, TypeOK, Slot, Message
<1>2. CASE m \in Call
  <2>1. MstOf(m) = "pooled"
    BY DEF MstOf
  <2>2. Sends!Settle(m)
    BY <1>1, <1>2, <2>1 DEF Sends!Settle
  <2> QED
    BY <1>2, <2>2 DEF Sends!Next
<1>3. CASE m \notin Call
  BY <1>1, <1>3, SendsStay
<1> QED
  BY <1>2, <1>3

LEMMA SendsStep == IInv /\ [Next]_vars => [Sends!Next]_(Sends!vars)
<1> SUFFICES ASSUME IInv, [Next]_vars PROVE [Sends!Next]_(Sends!vars)
  OBVIOUS
<1> USE DEF At, Goto, Return
<1>0. /\ TypeOK
      /\ \A c \in Call : pc[c] # "done" => ans[c] = "none" /\ msgs[c].st = "none"
      /\ pc \in [Call -> Live \cup {"idle", "done"}] /\ ans \in [Call -> Answer]
      /\ req \in [Call -> Request]
  BY DEF IInv, TypeOK, Sound
<1>a. \A c \in Call : pc[c] # "done" => AnsOf(c) = "none" /\ MstOf(c) = "none"
  BY <1>0 DEF AnsOf, MstOf
<1>1. ASSUME \A c \in Call : msgs'[c].st = msgs[c].st
      PROVE  \A c \in Call : MstOf(c)' = MstOf(c)
  BY <1>1 DEF MstOf
<1>2. ASSUME req' = req, NEW d \in Call, pc[d] # "done",
             \A c \in Call \ {d} : ans'[c] = ans[c],
             req[d].kind # "send" \/ ans'[d] = ans[d]
      PROVE  \A c \in Call : AnsOf(c)' = AnsOf(c)
  <2>1. ASSUME NEW c \in Call, ans'[c] = ans[c] PROVE AnsOf(c)' = AnsOf(c)
    BY <1>2, <2>1 DEF AnsOf
  <2>2. ASSUME req[d].kind # "send" PROVE AnsOf(d)' = AnsOf(d)
    BY <1>2, <2>2 DEF AnsOf
  <2> QED
    BY <1>2, <2>1, <2>2
<1>3. ASSUME NEW d \in Call, Begin(d) PROVE [Sends!Next]_(Sends!vars)
  <2>1. \A c \in Call : AnsOf(c)' = AnsOf(c)
    <3>1. AnsOf(d) = "none" /\ ans'[d] = "none"
      BY <1>0, <1>a, <1>3 DEF Begin
    <3>2. AnsOf(d)' = "none"
      BY <3>1 DEF AnsOf
    <3>3. \A c \in Call \ {d} : req'[c] = req[c] /\ ans'[c] = ans[c]
      BY <1>0, <1>3 DEF Begin
    <3>4. \A c \in Call \ {d} : AnsOf(c)' = AnsOf(c)
      BY <3>3 DEF AnsOf
    <3> QED
      BY <3>1, <3>2, <3>4
  <2>2. \A c \in Call : MstOf(c)' = MstOf(c)
    BY <1>1, <1>3 DEF Begin, mvars
  <2> QED
    BY <2>1, <2>2, SendsStay
<1>4. ASSUME NEW d \in Call, NEW from, NEW kinds, NEW to, from # "done",
             \/ Pass(d, from, kinds, to)
             \/ End(d, from, kinds, to) /\ "send" \notin kinds
      PROVE  [Sends!Next]_(Sends!vars)
  <2>1. \A c \in Call : AnsOf(c)' = AnsOf(c)
    <3>1. /\ req' = req /\ pc[d] # "done" /\ \A c \in Call \ {d} : ans'[c] = ans[c]
          /\ req[d].kind # "send" \/ ans'[d] = ans[d]
      BY <1>0, <1>4 DEF Pass, End
    <3> QED
      BY <1>2, <3>1
  <2>2. \A c \in Call : MstOf(c)' = MstOf(c)
    BY <1>1, <1>4 DEF Pass, End, mvars
  <2> QED
    BY <2>1, <2>2, SendsStay
<1>5. ASSUME NEW d \in Call,
             \/ SendDecoded(d) \/ Refused(d)
             \/ ToFind(d) \/ QueryFails(d) \/ QueryPanics(d) \/ QueryAnswered(d)
             \/ ToReplace(d) \/ ReplaceFails(d) \/ MarkBadFails(d) \/ SetRefused(d)
             \/ HasAddress(d) \/ NoAddress(d) \/ OperateFails(d) \/ AddrListFails(d)
             \/ AddrListPanics(d) \/ AddrListed(d)
      PROVE  [Sends!Next]_(Sends!vars)
  <2>1. \E from, kinds, to :
          /\ from # "done"
          /\ \/ Pass(d, from, kinds, to)
             \/ End(d, from, kinds, to) /\ "send" \notin kinds
    BY <1>5 DEF SendDecoded, Refused, ToFind, QueryFails, QueryPanics, QueryAnswered,
      ToReplace, ReplaceFails, MarkBadFails, SetRefused, HasAddress, NoAddress,
      OperateFails, AddrListFails, AddrListPanics, AddrListed, Operating
  <2> QED
    BY <1>4, <2>1
<1>6. ASSUME NEW d \in Call, SendPanics(d) \/ SendRefused(d) PROVE [Sends!Next]_(Sends!vars)
  <2>1. /\ req' = req /\ msgs' = msgs /\ pc[d] # "done" /\ req[d].kind = "send"
        /\ \A c \in Call \ {d} : ans'[c] = ans[c]
    BY <1>0, <1>6 DEF SendPanics, SendRefused, End, mvars
  <2>2. \A c \in Call : MstOf(c)' = MstOf(c)
    BY <1>1, <2>1
  <2>3. \A c \in Call \ {d} : AnsOf(c)' = AnsOf(c)
    BY <2>1 DEF AnsOf
  <2>4. AnsOf(d) = "none" /\ MstOf(d) = "none"
    BY <1>a, <2>1
  <2>5. CASE SendPanics(d)
    <3>1. ans'[d] = "panic"
      BY <1>0, <2>5 DEF SendPanics, End
    <3>2. AnsOf(d)' = "panic"
      BY <2>1, <3>1 DEF AnsOf
    <3>3. Sends!LoseTouch({d})
      BY <2>2, <2>3, <2>4, <3>2 DEF Sends!LoseTouch, Sends!Vague
    <3> QED
      BY <3>3 DEF Sends!Next
  <2>6. CASE SendRefused(d)
    <3>1. ans'[d] = "error"
      BY <1>0, <2>6 DEF SendRefused, End
    <3>2. AnsOf(d)' = "unavailable"
      BY <2>1, <3>1 DEF AnsOf
    <3>3. Sends!Decline(d)
      BY <2>2, <2>3, <2>4, <3>2 DEF Sends!Decline, Sends!Declined
    <3> QED
      BY <3>3 DEF Sends!Next
  <2> QED
    BY <1>6, <2>5, <2>6
<1>7. ASSUME NEW d \in Call, SendPushed(d) PROVE [Sends!Next]_(Sends!vars)
  <2>1. /\ req' = req /\ pc[d] # "done" /\ req[d].kind = "send" /\ d \in Slot
        /\ \A c \in Call \ {d} : ans'[c] = ans[c]
        /\ ans'[d] \in {"ok", "doubt"} /\ (ans'[d] = "ok" => Sent(d))
        /\ Sent(d) \/ msgs' = msgs
    BY <1>0, <1>7 DEF SendPushed, Slot
  <2>2. AnsOf(d)' = "doubt"
    BY <2>1 DEF AnsOf
  <2>3. \A c \in Call \ {d} : AnsOf(c)' = AnsOf(c)
    BY <2>1 DEF AnsOf
  <2>4. AnsOf(d) = "none" /\ MstOf(d) = "none"
    BY <1>a, <2>1
  <2>5. CASE Sent(d)
    <3>1. \A c \in Call : MstOf(c)' = IF c = d THEN "pooled" ELSE MstOf(c)
      BY <1>0, <2>1, <2>5 DEF Sent, MstOf, TypeOK, Slot
    <3>2. Sends!Submit(d)
      BY <2>2, <2>3, <2>4, <3>1 DEF Sends!Submit, Sends!Vague
    <3> QED
      BY <3>2 DEF Sends!Next
  <2>6. CASE msgs' = msgs
    <3>1. \A c \in Call : MstOf(c)' = MstOf(c)
      BY <1>1, <2>6
    <3>2. Sends!LoseTouch({d})
      BY <2>2, <2>3, <2>4, <3>1 DEF Sends!LoseTouch, Sends!Vague
    <3> QED
      BY <3>2 DEF Sends!Next
  <2> QED
    BY <2>1, <2>5, <2>6
<1>8. ASSUME NEW d \in Call, \/ Replaced(d) \/ MarkedBad(d) \/ QueryFound(d)
             \/ Operated(d) \/ SpecSet(d) \/ NumSet(d) \/ BookListed(d) \/ WalletListed(d)
      PROVE  [Sends!Next]_(Sends!vars)
  <2>1. \A c \in Call : AnsOf(c)' = AnsOf(c)
    <3>1. /\ req' = req /\ pc[d] # "done" /\ req[d].kind # "send"
          /\ \A c \in Call \ {d} : ans'[c] = ans[c]
      BY <1>0, <1>8 DEF Replaced, MarkedBad, QueryFound, Operated, SpecSet, NumSet,
        BookListed, WalletListed, Operating
    <3> QED
      BY <1>2, <3>1
  <2>2. CASE Replaced(d)
    <3>1. \A c \in Call : msgs'[c].st = msgs[c].st
      <4>1. PICK m \in Chosen(d) : msgs' = [msgs EXCEPT ![m].price = d]
        BY <2>2 DEF Replaced
      <4>2. \A c \in Call : msgs[c] \in Message /\ c \in Slot
        BY <1>0 DEF TypeOK, Slot
      <4> QED
        BY <1>0, <4>1, <4>2 DEF TypeOK, Message
    <3> QED
      BY <1>1, <2>1, <3>1, SendsStay
  <2>3. CASE MarkedBad(d)
    <3>1. req[d].id \in Slot
      BY <1>0, <2>3, RequestFields DEF MarkedBad
    <3> QED
      BY <1>0, <2>1, <2>3, <3>1, SendsSettle DEF MarkedBad
  <2>4. CASE msgs' = msgs
    BY <1>1, <2>1, <2>4, SendsStay
  <2> QED
    BY <1>8, <2>2, <2>3, <2>4 DEF QueryFound, Operated, SpecSet, NumSet, BookListed,
      WalletListed, mvars
<1>9. CASE MessageMoves
  <2>1. PICK m \in Slot : Fill(m) \/ Execute(m) \/ Fail(m)
    BY <1>9 DEF MessageMoves
  <2>2. \A c \in Call : AnsOf(c)' = AnsOf(c)
    BY <1>9 DEF MessageMoves, AnsOf
  <2>3. CASE Fill(m)
    <3>1. \A c \in Call : MstOf(c)' = MstOf(c)
      <4>1. PICK n \in 0..MaxNonce : msgs' = [msgs EXCEPT ![m].st = "fill", ![m].nonce = n]
        BY <2>3 DEF Fill
      <4>2. \A c \in Call : msgs'[c].st = IF c = m THEN "fill" ELSE msgs[c].st
        BY <1>0, <4>1 DEF TypeOK, Slot, Message
      <4> QED
        BY <2>3, <4>2 DEF MstOf, Fill
    <3> QED
      BY <2>2, <3>1, SendsStay
  <2>4. CASE Execute(m)
    BY <1>0, <2>2, <2>4, SendsSettle DEF Execute
  <2>5. CASE Fail(m)
    BY <1>0, <2>2, <2>5, SendsSettle DEF Fail
  <2> QED
    BY <2>1, <2>3, <2>4, <2>5
<1>10. CASE KeysMove \/ UNCHANGED vars
  <2>1. req' = req /\ ans' = ans /\ msgs' = msgs
    BY <1>10 DEF KeysMove, vars, mvars
  <2> QED
    BY <2>1, SendsStay DEF AnsOf, MstOf
<1>11. CASE Crash
  <2> DEFINE S == {c \in Call : Running(c) /\ req[c].kind = "send"}
  <2>1. \A c \in Call : AnsOf(c)' = IF c \in S THEN "lost" ELSE AnsOf(c)
    <3>1. \A c \in Call : /\ req'[c] = req[c]
                           /\ ans'[c] = IF Running(c) THEN "lost" ELSE ans[c]
      BY <1>11 DEF Crash
    <3>2. ASSUME NEW c \in Call, c \in S PROVE AnsOf(c)' = "lost"
      BY <3>1, <3>2 DEF AnsOf
    <3>3. ASSUME NEW c \in Call, c \notin S PROVE AnsOf(c)' = AnsOf(c)
      <4>1. CASE Running(c)
        BY <3>1, <3>3, <4>1 DEF AnsOf
      <4>2. CASE ~Running(c)
        BY <3>1, <4>2 DEF AnsOf
      <4> QED
        BY <4>1, <4>2
    <3> QED
      BY <3>2, <3>3
  <2>2. \A c \in S : AnsOf(c) = "none"
    BY <1>a DEF Running, Live
  <2>3. \A c \in Call : MstOf(c)' = MstOf(c)
    BY <1>1, <1>11 DEF Crash, mvars
  <2>4. Sends!LoseTouch(S)
    BY <2>1, <2>2, <2>3 DEF Sends!LoseTouch, Sends!Vague
  <2> QED
    BY <2>4 DEF Sends!Next
<1> QED
  BY <1>3, <1>5, <1>6, <1>7, <1>8, <1>9, <1>10, <1>11 DEF Next, MsgHandler, AddrHandler

\* A message is sent at most once and one refused never, whatever is answered and
\* whatever happens to the daemon.
THEOREM MBSendsKeepPromise == Spec => SendsKeepPromise
<1>1. Init => Sends!Init
  BY MessagerAssumption DEF Init, Sends!Init, MstOf, AnsOf, Slot
<1> QED
  BY <1>1, SendsStep, Invariance, PTL DEF Spec, SendsKeepPromise, Sends!Spec

\* What msg send says for ever when it ends before its push: after an error of the
\* decoding ("decode params failed"), or a panic of the command, there is no message
\* and there will be none.  Of an error of PushMessage itself ("doubt") nothing like
\* that is so: its message may be there, and may be executed.
UnpushedForGood ==
  \A c \in Call :
    [](req[c].kind = "send" /\ ans[c] \in {"error", "panic"} => [](msgs[c].st = "none"))

THEOREM MBUnpushedForGood == Spec => UnpushedForGood
<1>1. ASSUME NEW c \in Call
      PROVE  Spec => [](req[c].kind = "send" /\ ans[c] \in {"error", "panic"}
                          => [](msgs[c].st = "none"))
  <2> DEFINE Shown == req[c].kind = "send" /\ ans[c] \in {"error", "panic"}
             Unsent == Shown /\ pc[c] = "done" /\ msgs[c].st = "none"
             Ok == Shown => Unsent
  <2>1. Init => Ok
    BY DEF Init
  <2>2. IInv /\ [Next]_vars => (Unsent => Unsent') /\ (Ok => Ok')
    <3> SUFFICES ASSUME IInv, [Next]_vars
                 PROVE  (Unsent => Unsent') /\ (Ok => Ok')
      OBVIOUS
    <3>1. Goes(c) /\ c \in Slot
      BY RequestsStep DEF Slot
    <3>2. msgs[c].st = "none" => msgs'[c] = msgs[c] \/ SendPushed(c)
      BY <3>1, MessagesStep
    <3>3. SendPushed(c) => pc[c] = "push" /\ ans'[c] \in {"ok", "doubt"}
      BY DEF SendPushed, At, Return, IInv, TypeOK
    <3>4. ASSUME Unsent PROVE Unsent'
      BY <3>1, <3>2, <3>3, <3>4 DEF Goes
    <3>5. ASSUME ~Shown, Shown' PROVE Unsent'
      <4>1. pc[c] # "done"
        BY <3>1, <3>5 DEF Goes
      <4>2. msgs[c].st = "none"
        BY <4>1 DEF IInv, Sound
      <4>3. pc'[c] = "done"
        BY <3>1, <3>5 DEF Goes
      <4> QED
        BY <3>2, <3>3, <3>5, <4>2, <4>3
    <3> QED
      BY <3>4, <3>5
  <2>3. Unsent => msgs[c].st = "none"
    OBVIOUS
  <2>4. Shown <=> req[c].kind = "send" /\ ans[c] \in {"error", "panic"}
    OBVIOUS
  <2> HIDE DEF Unsent, Shown
  <2>5. Spec => [](Shown => [](msgs[c].st = "none"))
    BY <2>1, <2>2, <2>3, Invariance, PTL DEF Spec
  <2> QED
    BY <2>5 DEF Shown
<1> QED
  BY <1>1 DEF UnpushedForGood

\* What a command finds a message by stays true of it for ever: it is there, its
\* sender is its sender, and a nonce once assigned is its nonce, whatever is
\* replaced, marked bad or executed between two requests of the command.
NamesLast ==
  \A m \in Slot :
    /\ [](msgs[m].st # "none" => [](msgs[m].st # "none"))
    /\ \A a \in Addr : [](msgs[m].st # "none" /\ msgs[m].from = a => [](msgs[m].from = a))
    /\ \A n \in Nat : [](msgs[m].st # "none" /\ msgs[m].nonce = n => [](msgs[m].nonce = n))

THEOREM MBNamesLast == Spec => NamesLast
<1>1. ASSUME NEW m \in Slot
      PROVE  Spec => [](msgs[m].st # "none" => [](msgs[m].st # "none"))
  <2>1. IInv /\ [Next]_vars => (msgs[m].st # "none" => (msgs[m].st # "none")')
    BY MessagesStep DEF Keeps
  <2> QED
    BY <2>1, Invariance, PTL DEF Spec
<1>2. ASSUME NEW m \in Slot, NEW a \in Addr
      PROVE  Spec => [](msgs[m].st # "none" /\ msgs[m].from = a => [](msgs[m].from = a))
  <2> DEFINE Here == msgs[m].st # "none" /\ msgs[m].from = a
  <2>1. IInv /\ [Next]_vars => (Here => Here')
    BY MessagesStep DEF Keeps
  <2>2. Here => msgs[m].from = a
    OBVIOUS
  <2> HIDE DEF Here
  <2> QED
    BY <2>1, <2>2, Invariance, PTL DEF Spec, Here
<1>3. ASSUME NEW m \in Slot, NEW n \in Nat
      PROVE  Spec => [](msgs[m].st # "none" /\ msgs[m].nonce = n => [](msgs[m].nonce = n))
  <2> DEFINE Here == msgs[m].st # "none" /\ msgs[m].nonce = n
  <2>1. IInv /\ [Next]_vars => (Here => Here')
    BY MessagesStep, MessagerAssumption DEF Keeps
  <2>2. Here => msgs[m].nonce = n
    OBVIOUS
  <2> HIDE DEF Here
  <2> QED
    BY <2>1, <2>2, Invariance, PTL DEF Spec, Here
<1> QED
  BY <1>1, <1>2, <1>3 DEF NamesLast
=============================================================================
