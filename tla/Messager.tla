------------------------------ MODULE Messager ------------------------------
(***************************************************************************)
(* The requests that look after sophon-messager: messages are sent,        *)
(* listed, replaced and marked bad, and the addresses it sends them from   *)
(* are listed, set, activated, forbidden and deleted (service/impl.go),    *)
(* with the commands that make them (cmd/cli/msg.go, cmd/cli/addr.go).     *)
(*                                                                         *)
(* A message that is sent is not waited for.  A command may be several     *)
(* requests (find a message, then replace it), and a request several calls *)
(* to messager, the wallet and the node, which change between them.        *)
(***************************************************************************)
EXTENDS Integers, Sequences, FiniteSets, Functions

CONSTANTS
  Call,       \* the commands, and the requests of the dashboard
  Old,        \* messages that are there at the start
  Addr,       \* the addresses messages are sent from
  Asks,       \* the requests tried
  Msgs0,      \* the messages at the start
  Book0,      \* messager's addresses at the start
  Wallet0,    \* the wallet's addresses at the start
  NoId, NoNonce, NoNum, NoCall,
  MaxNonce,   \* bound: the last nonce messager assigns
  MaxKeys     \* bound: the addresses in the wallet

Slot == Call \cup Old   \* the IDs of messages: a sender has one at most

MState == {"none", "unfill", "fill", "ok", "error", "failed"}
Target == {"known", "fresh"}    \* whether the receiver has an actor already

\* A message: by whom its fees were set last (NoCall: by messager).
Message == [st : MState, from : Addr, to : Target,
            nonce : Nat \cup {NoNonce}, price : Call \cup {NoCall}]

\* An address: who set its fee parameters, and the number of messages to select,
\* which is never zero.
Entry == [state : {"absent", "active", "forbidden"},
          spec : Call \cup {NoCall}, num : (Nat \ {0}) \cup {NoNum}]

\* A message as a query read it.
Copy == [id : Slot, st : MState]

\* The states a list can be asked for (two more, of messages replaced and of
\* senders without wallet, are left out).
Filter == {"unfill", "fill", "onchain", "failed"}

FilterOf(st) == IF st \in {"ok", "error"} THEN "onchain" ELSE st

(* Requests.  Those of "list" are the flags of the command: time is whether a
   residence time is given that parses, state is "unfill" by default, paged is
   whether --page-index or --page-size is given. *)
SendAsk    == [kind : {"send"}, from : Addr, to : Target,
               params : {"none", "good", "bad"}, command : BOOLEAN]
ListAsk    == [kind : {"list"}, id : Slot \cup {NoId}, failed : BOOLEAN,
               from : Seq(Addr), nonce : Nat \cup {NoNonce}, blocked : BOOLEAN,
               time : BOOLEAN, state : Filter, paged : BOOLEAN]
ReplaceAsk == [kind : {"replace"}, id : Slot \cup {NoId}, nonce : Nat, from : BOOLEAN]
BadAsk     == [kind : {"bad"}, id : Slot]
DeleteAsk  == [kind : {"delete"}, addr : Addr]
ActiveAsk  == [kind : {"active"}, addr : Addr]
ForbidAsk  == [kind : {"forbidden"}, addr : Addr]
SetAsk     == [kind : {"set"}, addr : Addr, spec : BOOLEAN,
               num : Nat \cup {NoNum}]
AddrsAsk   == [kind : {"addrs"}]

Request == SendAsk \cup ListAsk \cup ReplaceAsk \cup BadAsk \cup DeleteAsk
           \cup ActiveAsk \cup ForbidAsk \cup SetAsk \cup AddrsAsk

Operating == {"delete", "active", "forbidden", "set"}

ASSUME MessagerAssumption ==
  /\ Asks \subseteq Request /\ Asks # {}
  /\ Msgs0 \in [Slot -> Message] /\ \A c \in Call : Msgs0[c].st = "none"
  /\ \A m \in Slot : /\ Msgs0[m].price = NoCall
                     /\ Msgs0[m].st = "unfill" => Msgs0[m].nonce = NoNonce
  /\ Book0 \in [Addr -> Entry] /\ Wallet0 \subseteq Addr
  /\ Call \cap Old = {} /\ NoCall \notin Call /\ NoId \notin Slot
  /\ NoNonce \notin Nat /\ NoNum \notin Nat
  /\ MaxNonce \in Nat /\ MaxKeys \in Nat

VARIABLES pc,      \* where the command or request is
          req, ans,
          got,     \* the messages its query found, as it read them
          listed,  \* the addresses AddrList has of messager, and of the wallet
          done,    \* history: which calls of an operation on an address worked
          gone,    \* history: its address was deleted while it ran
          always,  \* history: the addresses in messager and in the wallet
                   \* since the list was begun
          msgs, book, wallet,
          fresh    \* whether the fresh receiver has an actor by now

mvars == <<msgs, fresh>>
avars == <<book, wallet>>
hist  == <<done, gone, always>>
vars  == <<pc, req, ans, got, listed, done, gone, always, mvars, avars>>

Live == {"begin", "find", "found", "push", "replace", "bad", "has", "operate",
         "num", "book", "wallet", "each", "actors"}
Answer == {"none", "ok", "refused", "error", "doubt", "panic", "lost"}
Pair == [book : SUBSET Addr, wallet : SUBSET Addr]
Nobody == [book |-> {}, wallet |-> {}]

TypeOK == /\ pc \in [Call -> Live \cup {"idle", "done"}]
          /\ req \in [Call -> Request] /\ ans \in [Call -> Answer]
          /\ got \in [Call -> SUBSET Copy] /\ listed \in [Call -> Pair]
          /\ done \in [Call -> SUBSET {"spec", "num", "state"}]
          /\ gone \in [Call -> BOOLEAN] /\ always \in [Call -> Pair]
          /\ msgs \in [Slot -> Message] /\ fresh \in BOOLEAN
          /\ book \in [Addr -> Entry] /\ wallet \in SUBSET Addr

Init == /\ pc = [c \in Call |-> "idle"] /\ ans = [c \in Call |-> "none"]
        /\ req = [c \in Call |-> CHOOSE r \in Asks : TRUE]
        /\ got = [c \in Call |-> {}] /\ listed = [c \in Call |-> Nobody]
        /\ done = [c \in Call |-> {}] /\ gone = [c \in Call |-> FALSE]
        /\ always = [c \in Call |-> Nobody]
        /\ msgs = Msgs0 /\ fresh = FALSE /\ book = Book0 /\ wallet = Wallet0
-----------------------------------------------------------------------------
Running(c) == pc[c] \in Live

At(c, step, kinds) == pc[c] = step /\ req[c].kind \in kinds

Goto(c, step) == pc' = [pc EXCEPT ![c] = step] /\ UNCHANGED ans

Return(c, a) == pc' = [pc EXCEPT ![c] = "done"] /\ ans' = [ans EXCEPT ![c] = a]

Present == {a \in Addr : book[a].state # "absent"}

Begin(c) ==
  /\ pc[c] = "idle" /\ Goto(c, "begin")
  /\ \E r \in Asks : req' = [req EXCEPT ![c] = r]
  /\ always' = [always EXCEPT ![c] = [book |-> Present, wallet |-> wallet]]
  /\ UNCHANGED <<got, listed, done, gone, mvars, avars>>

\* The request goes on to its next step, and nothing else changes.
Pass(c, from, kinds, to) ==
  /\ At(c, from, kinds) /\ Goto(c, to)
  /\ UNCHANGED <<req, got, listed, hist, mvars, avars>>

End(c, from, kinds, a) ==
  /\ At(c, from, kinds) /\ Return(c, a)
  /\ UNCHANGED <<req, got, listed, hist, mvars, avars>>
-----------------------------------------------------------------------------
(* msg send.  The command writes the parameters through a nil pointer. *)

SendPanics(c) == /\ req[c].kind = "send" /\ req[c].command /\ req[c].params # "none"
                 /\ End(c, "begin", {"send"}, "panic")

SendRefused(c) == /\ req[c].kind = "send" /\ ~req[c].command /\ req[c].params = "bad"
                  /\ End(c, "begin", {"send"}, "error")

SendDecoded(c) == /\ req[c].kind = "send" /\ req[c].params # "bad"
                  /\ req[c].params = "good" => ~req[c].command
                  /\ Pass(c, "begin", {"send"}, "push")

Sent(c) == msgs' = [msgs EXCEPT ![c] =
             [st |-> "unfill", from |-> req[c].from, to |-> req[c].to,
              nonce |-> NoNonce, price |-> NoCall]]

\* Mutant: an error of the push is answered as one of the decoding is.
SendPushedOrNot(c) == /\ At(c, "push", {"send"})
                      /\ \/ Sent(c) /\ Return(c, "ok")
                         \/ Sent(c) /\ Return(c, "error")
                      /\ UNCHANGED <<req, got, listed, hist, fresh, avars>>

\* Messager.PushMessage, whose reply may be lost.
SendPushed(c) == /\ At(c, "push", {"send"})
                 /\ \/ Sent(c) /\ Return(c, "ok")
                    \/ Sent(c) /\ Return(c, "doubt")
                    \/ UNCHANGED msgs /\ Return(c, "doubt")
                 /\ UNCHANGED <<req, got, listed, hist, fresh, avars>>
-----------------------------------------------------------------------------
(* MsgQuery, and the commands that use it. *)

Query == [id : Slot \cup {NoId}, nonce : Nat, from : Seq(Addr), blocked : BOOLEAN,
          failed : BOOLEAN, state : SUBSET Filter, paged : BOOLEAN]
AnyMsg == [id |-> NoId, nonce |-> 0, from |-> <<>>, blocked |-> FALSE, failed |-> FALSE,
           state |-> {}, paged |-> FALSE]

\* msg list: the flags, in the order in which the command looks at them.
\* A nonce wants a sender, --blocked wants --time.
ListRefused(f) == /\ f.id = NoId /\ ~f.failed
                  /\ IF f.nonce # NoNonce THEN f.from = <<>>
                     ELSE f.blocked /\ ~f.time

ListQuery(f) ==
  CASE f.id # NoId        -> [AnyMsg EXCEPT !.id = f.id]
    [] f.id = NoId /\ f.failed -> [AnyMsg EXCEPT !.failed = TRUE]
    [] f.id = NoId /\ ~f.failed /\ f.nonce # NoNonce ->
         [AnyMsg EXCEPT !.from = f.from, !.nonce = f.nonce]
    [] f.id = NoId /\ ~f.failed /\ f.nonce = NoNonce /\ f.blocked ->
         [AnyMsg EXCEPT !.from = f.from, !.blocked = TRUE]
    [] f.id = NoId /\ ~f.failed /\ f.nonce = NoNonce /\ ~f.blocked ->
         [AnyMsg EXCEPT !.from = f.from, !.state = {f.state}, !.paged = f.paged]

\* Mutant: the nonce does not reach the query.
ReplaceQueryOfAll(r) == AnyMsg

\* msg replace --nonce: with --from it takes the nonce for the sender's address.
ReplaceQuery(r) == [AnyMsg EXCEPT !.nonce = r.nonce]

QueryOf(r) == IF r.kind = "list" THEN ListQuery(r) ELSE ReplaceQuery(r)

Refused(c) == /\ \/ req[c].kind = "list" /\ ListRefused(req[c])
                 \/ req[c].kind = "replace" /\ req[c].id = NoId /\ req[c].from
              /\ End(c, "begin", {"list", "replace"}, "refused")

ToFind(c) == /\ \/ req[c].kind = "list" /\ ~ListRefused(req[c])
                \/ req[c].kind = "replace" /\ req[c].id = NoId /\ ~req[c].from
             /\ Pass(c, "begin", {"list", "replace"}, "find")

\* The first form that applies wins: by ID, by nonce, blocked, failed, or all.
Form(q) == CASE q.id # NoId -> "id"
             [] q.id = NoId /\ q.nonce # 0 -> "nonce"
             [] q.id = NoId /\ q.nonce = 0 /\ q.blocked -> "blocked"
             [] q.id = NoId /\ q.nonce = 0 /\ ~q.blocked -> IF q.failed THEN "failed" ELSE "all"

There == {m \in Slot : msgs[m].st # "none"}

\* The messages of the senders and in the states asked for, any if none is given.
Matching(q) == {m \in There : /\ q.from = <<>> \/ msgs[m].from \in Range(q.from)
                              /\ q.state = {} \/ FilterOf(msgs[m].st) \in q.state}

\* Mutant: the sender given with the nonce is not looked at.
SendersByDefault(q) == wallet

\* The senders a nonce may be meant for: the one given, or else the first of the
\* wallet, whose order means nothing.
Senders(q) == IF q.from # <<>> THEN {q.from[1]} ELSE wallet

\* The senders whose blocked messages are asked for.
BlockedSenders(q) == IF q.from = <<>> THEN wallet ELSE Range(q.from)

\* What messager answers: one of these sets of messages.  The blocked ones are
\* asked for sender by sender, and a sender whose list fails is left out; which of
\* the pending ones have been there for the residence time is left open, and so is
\* which of the others are on the page asked for.
Answers(q) ==
  CASE Form(q) = "id"     -> {{m} : m \in There \cap {q.id}}
    [] Form(q) = "nonce"  -> {{m} : m \in {n \in There : msgs[n].from \in Senders(q)
                                             /\ msgs[n].nonce = q.nonce}}
    [] Form(q) = "blocked" ->
         SUBSET {m \in There : /\ msgs[m].st \in {"unfill", "fill"}
                               /\ msgs[m].from \in BlockedSenders(q)}
    [] Form(q) = "failed" -> {{m \in There : msgs[m].st = "failed"}}
    [] Form(q) = "all"    -> IF q.paged THEN SUBSET Matching(q) ELSE {Matching(q)}

CopyOf(m) == [id |-> m, st |-> msgs[m].st]

QueryFound(c) == /\ At(c, "find", {"list", "replace"})
                 /\ \E S \in Answers(QueryOf(req[c])) :
                      got' = [got EXCEPT ![c] = {CopyOf(m) : m \in S}]
                 /\ Goto(c, "found")
                 /\ UNCHANGED <<req, listed, hist, mvars, avars>>

\* Nothing found by ID or nonce, no sender, or a call to messager fails.
QueryFails(c) == End(c, "find", {"list", "replace"}, "error")

HasActor(m) == msgs[m].to = "known" \/ fresh

\* For each message the actor it goes to is read, for the name of the method and
\* the parameters.  An error is only logged, and then the nil actor is used.
QueryPanics(c) == /\ got[c] # {}
                  /\ End(c, "found", {"list", "replace"}, "panic")

QueryAnswered(c) == /\ \A m \in got[c] : HasActor(m.id)
                    /\ \/ End(c, "found", {"list"}, "ok")
                       \/ got[c] # {} /\ Pass(c, "found", {"replace"}, "replace")
                       \/ got[c] = {} /\ End(c, "found", {"replace"}, "panic")

ToReplace(c) == /\ req[c].kind = "replace" /\ req[c].id # NoId
                /\ Pass(c, "begin", {"replace"}, "replace")

\* The message replaced is the first of those found.
Chosen(c) == IF req[c].id # NoId THEN {req[c].id} ELSE {m.id : m \in got[c]}

Replaced(c) == /\ At(c, "replace", {"replace"})
               /\ \E m \in Chosen(c) :
                    /\ msgs[m].st = "fill"
                    /\ msgs' = [msgs EXCEPT ![m].price = c]
               /\ Return(c, "ok")
               /\ UNCHANGED <<req, got, listed, hist, fresh, avars>>

ReplaceFails(c) == End(c, "replace", {"replace"}, "error")

\* msg mark-bad, of the dashboard.
MarkedBad(c) == /\ At(c, "begin", {"bad"})
                /\ msgs[req[c].id].st \in {"unfill", "fill"}
                /\ msgs' = [msgs EXCEPT ![req[c].id].st = "failed"]
                /\ Return(c, "ok")
                /\ UNCHANGED <<req, got, listed, hist, fresh, avars>>

MarkBadFails(c) == End(c, "begin", {"bad"}, "error")
-----------------------------------------------------------------------------
(* AddrOperate: is the address there, then the operation. *)

\* addr set with nothing to set is refused by the command.
SetRefused(c) == /\ req[c].kind = "set" /\ ~req[c].spec /\ req[c].num = NoNum
                 /\ End(c, "begin", {"set"}, "refused")

\* Mutant: zero is a number to set.
ToSetAnything(c) == TRUE

\* SelectMsgNum is zero when the flag is not given: zero is not a number to set.
ToSet(c) == req[c].num \notin {0, NoNum}

HasAddress(c) == /\ req[c].kind \in Operating /\ req[c].addr \in Present
                 /\ \/ /\ req[c].kind = "set" => req[c].spec
                       /\ Pass(c, "begin", Operating, "operate")
                    \/ /\ req[c].kind = "set" /\ ~req[c].spec /\ ToSet(c)
                       /\ Pass(c, "begin", {"set"}, "num")
                    \/ /\ req[c].kind = "set" /\ ~req[c].spec /\ req[c].num = 0
                       /\ End(c, "begin", {"set"}, "ok")

NoAddress(c) == /\ req[c].kind \in Operating /\ req[c].addr \notin Present
                /\ End(c, "begin", Operating, "error")

\* One call of messager on the address: it works, or the address is gone by then
\* and nothing changes.
Write(c, what, e) ==
  IF req[c].addr \in Present
  THEN /\ book' = [book EXCEPT ![req[c].addr] = e]
       /\ done' = [done EXCEPT ![c] = @ \cup {what}]
       /\ gone' = [d \in Call |-> gone[d] \/ (e.state = "absent" /\ Running(d)
                     /\ req[d].kind \in Operating /\ req[d].addr = req[c].addr)]
       /\ always' = [d \in Call |-> [always[d] EXCEPT
                       !.book = IF e.state = "absent" THEN @ \ {req[c].addr} ELSE @]]
  ELSE UNCHANGED <<book, done, gone, always>>

NewState(c) == CASE req[c].kind = "delete"    -> "absent"
                 [] req[c].kind = "active"    -> "active"
                 [] req[c].kind = "forbidden" -> "forbidden"

Operated(c) == /\ At(c, "operate", Operating \ {"set"})
               /\ Write(c, "state", [book[req[c].addr] EXCEPT !.state = NewState(c)])
               /\ Return(c, "ok")
               /\ UNCHANGED <<req, got, listed, mvars, wallet>>

\* Mutant: once the fee parameters are set the handler returns.
SpecSetOnly(c) == /\ At(c, "operate", {"set"})
                  /\ Write(c, "spec", [book[req[c].addr] EXCEPT !.spec = c])
                  /\ Return(c, "ok")
                  /\ UNCHANGED <<req, got, listed, mvars, wallet>>

\* SetFeeParams, and then SetSelectMsgNum.
SpecSet(c) == /\ At(c, "operate", {"set"})
              /\ Write(c, "spec", [book[req[c].addr] EXCEPT !.spec = c])
              /\ IF ToSet(c) THEN Goto(c, "num") ELSE Return(c, "ok")
              /\ UNCHANGED <<req, got, listed, mvars, wallet>>

NumSet(c) == /\ At(c, "num", {"set"})
             /\ Write(c, "num", [book[req[c].addr] EXCEPT !.num = req[c].num])
             /\ Return(c, "ok")
             /\ UNCHANGED <<req, got, listed, mvars, wallet>>

OperateFails(c) == \/ End(c, "begin", Operating, "error")
                   \/ End(c, "operate", Operating, "error")
                   \/ End(c, "num", {"set"}, "error")
-----------------------------------------------------------------------------
(* AddrList: messager's addresses, then those of the wallet that are not among
   them, each looked up in messager again, then the actor of each. *)

BookListed(c) == /\ At(c, "begin", {"addrs"})
                 /\ listed' = [listed EXCEPT ![c].book = Present]
                 /\ Goto(c, "wallet")
                 /\ UNCHANGED <<req, got, hist, mvars, avars>>

\* Mutant: the addresses of the wallet are added as they are.
WalletListedAll(c) == /\ At(c, "wallet", {"addrs"})
                      /\ listed' = [listed EXCEPT ![c].wallet = wallet]
                      /\ Goto(c, "actors")
                      /\ UNCHANGED <<req, got, hist, mvars, avars>>

\* GetAddress gives what messager has by now, or else a blank entry is made: the
\* address is in the list either way.
WalletListed(c) == /\ At(c, "wallet", {"addrs"})
                   /\ listed' = [listed EXCEPT ![c].wallet = wallet \ listed[c].book]
                   /\ Goto(c, "actors")
                   /\ UNCHANGED <<req, got, hist, mvars, avars>>

AddrListFails(c) == \/ End(c, "begin", {"addrs"}, "error")
                    \/ End(c, "wallet", {"addrs"}, "error")

\* An address without an actor is logged, and its nil actor used.
AddrListPanics(c) == /\ listed[c].book \cup listed[c].wallet # {}
                     /\ End(c, "actors", {"addrs"}, "panic")

AddrListed(c) == End(c, "actors", {"addrs"}, "ok")
-----------------------------------------------------------------------------
(* What happens meanwhile: messager assigns nonces to the messages of active
   addresses, messages are executed or fail, keys are added to the wallet and
   messager takes them over. *)

Used(a) == {msgs[m].nonce : m \in {n \in There : msgs[n].from = a}} \ {NoNonce}

IsNext(n, a) == /\ \A u \in Used(a) : u < n
                /\ n = 0 \/ n - 1 \in Used(a)

Fill(m) == /\ msgs[m].st = "unfill" /\ book[msgs[m].from].state = "active"
           /\ \E n \in 0..MaxNonce :
                /\ IsNext(n, msgs[m].from)
                /\ msgs' = [msgs EXCEPT ![m].st = "fill", ![m].nonce = n]
           /\ UNCHANGED fresh

Execute(m) == /\ msgs[m].st = "fill"
              /\ \E s \in {"ok", "error"} : msgs' = [msgs EXCEPT ![m].st = s]
              /\ fresh' = (fresh \/ msgs[m].to = "fresh")

Fail(m) == /\ msgs[m].st = "unfill"
           /\ msgs' = [msgs EXCEPT ![m].st = "failed"]
           /\ UNCHANGED fresh

MessageMoves == /\ \E m \in Slot : Fill(m) \/ Execute(m) \/ Fail(m)
                /\ UNCHANGED <<pc, req, ans, got, listed, hist, avars>>

NewKey == /\ Cardinality(wallet) < MaxKeys
          /\ \E a \in Addr \ wallet : wallet' = wallet \cup {a}
          /\ UNCHANGED book

Adopt == /\ \E a \in wallet \ Present :
              book' = [book EXCEPT ![a] = [state |-> "active", spec |-> NoCall, num |-> NoNum]]
         /\ UNCHANGED wallet

KeysMove == /\ NewKey \/ Adopt
            /\ UNCHANGED <<pc, req, ans, got, listed, hist, mvars>>

\* The daemon stops; who waits for it sees the connection break.
Crash == /\ \E c \in Call : Running(c)
         /\ pc' = [c \in Call |-> IF Running(c) THEN "done" ELSE pc[c]]
         /\ ans' = [c \in Call |-> IF Running(c) THEN "lost" ELSE ans[c]]
         /\ UNCHANGED <<req, got, listed, hist, mvars, avars>>

MsgHandler(c) == \/ SendPanics(c) \/ SendRefused(c) \/ SendDecoded(c) \/ SendPushed(c)
                 \/ Refused(c) \/ ToFind(c) \/ QueryFound(c) \/ QueryFails(c)
                 \/ QueryPanics(c) \/ QueryAnswered(c)
                 \/ ToReplace(c) \/ Replaced(c) \/ ReplaceFails(c)
                 \/ MarkedBad(c) \/ MarkBadFails(c)

AddrHandler(c) == \/ SetRefused(c) \/ HasAddress(c) \/ NoAddress(c) \/ Operated(c)
                  \/ SpecSet(c) \/ NumSet(c) \/ OperateFails(c)
                  \/ BookListed(c) \/ WalletListed(c) \/ AddrListFails(c)
                  \/ AddrListPanics(c) \/ AddrListed(c)

Next == \/ \E c \in Call : Begin(c) \/ MsgHandler(c) \/ AddrHandler(c)
        \/ MessageMoves \/ KeysMove \/ Crash

Spec == Init /\ [][Next]_vars
-----------------------------------------------------------------------------
(* Properties. *)

\* MsgSend as a caller of PushCall, which it is without the wait: the ID it
\* answers with says nothing of what becomes of the message.
MstOf(c) == CASE msgs[c].st \in {"unfill", "fill"} -> "pooled"
              [] OTHER -> msgs[c].st

AnsOf(c) == IF req[c].kind # "send" THEN "none"
            ELSE CASE ans[c] = "error" -> "unavailable"
                   [] ans[c] = "ok"    -> "doubt"
                   [] OTHER            -> ans[c]

Sends == INSTANCE PushCall WITH mst <- [c \in Call |-> MstOf(c)],
                                ans <- [c \in Call |-> AnsOf(c)]

\* A message is sent at most once, an error met before the push is not followed
\* by one, and the answer is given once, whatever happens to the message, to the
\* reply and to the daemon (MsgSend; replacing and marking bad included).
SendsKeepPromise == Sends!Spec

\* Whether a copy m is what the flags of "msg list" ask for.  The command looks at
\* --id first, then at --failed, and both drop all others; a nonce and --blocked
\* drop --state; and the nonce 0 drops itself and leaves the sender's messages.
AskedFor(f, m) ==
  /\ f.id # NoId => m.id = f.id
  /\ f.id = NoId /\ f.failed => m.st = "failed"
  /\ f.id = NoId /\ ~f.failed =>
       /\ f.from # <<>> => msgs[m.id].from \in Range(f.from)
       /\ f.nonce \notin {NoNonce, 0} =>
            msgs[m.id].nonce = f.nonce /\ msgs[m.id].from = f.from[1]
       /\ f.nonce = NoNonce =>
            IF f.blocked THEN f.time /\ m.st \in {"unfill", "fill"}
            ELSE FilterOf(m.st) = f.state

\* A list shows nothing but what its flags ask for, as it was when the query read
\* it: the command and the service agree on which of the flags count (msgListCmd
\* against the five forms of MsgQuery).
ListedAsAsked ==
  \A c \in Call : ans[c] = "ok" /\ req[c].kind = "list" =>
    \A m \in got[c] : AskedFor(req[c], m)

\* The message that is replaced is the one named, though it is found with one
\* request and replaced with another; but the nonce 0 names any message at all
\* (msgReplaceCmd, MsgQuery).
ReplacesNamed ==
  \A c \in Call, m \in Slot : msgs[m].price = c =>
    /\ req[c].id # NoId => m = req[c].id
    /\ req[c].id = NoId /\ req[c].nonce # 0 => msgs[m].nonce = req[c].nonce

\* What an operation on an address asks for.
ToDo(r) == IF r.kind = "set"
           THEN {w \in {"spec", "num"} : (w = "spec" /\ r.spec)
                                       \/ (w = "num" /\ r.num \notin {0, NoNum})}
           ELSE {"state"}

\* An operation on an address that is answered with success has been done, all of
\* it, unless the address was deleted while it ran (AddrOperate: the check, then
\* one call or two).
DoneOrGone ==
  \A c \in Call : ans[c] = "ok" /\ req[c].kind \in Operating =>
    gone[c] \/ done[c] = ToDo(req[c])

\* A list of addresses has each of them once, and every one that was in messager
\* or in the wallet all the while (AddrList, the merge of two lists that change).
ListsAddressesOnce ==
  \A c \in Call : ans[c] = "ok" /\ req[c].kind = "addrs" =>
    /\ listed[c].book \cap listed[c].wallet = {}
    /\ always[c].book \cup always[c].wallet \subseteq
         listed[c].book \cup listed[c].wallet
=============================================================================
