---------------------------- MODULE SectorsProof ----------------------------
(***************************************************************************)
(* What Sectors keeps for every set of calls and of sector numbers and for *)
(* every size of a page.  The argument for the table: allocation only adds *)
(* to the rank of a number, so what is not shown yet stays on the pages to *)
(* come; and when only greater numbers are allocated no rank changes.      *)
(***************************************************************************)
EXTENDS Sectors, PushWaitProof, FiniteSetTheorems

\* A message in flight declares what was asked for.
Declares == \A c \in Call : pc[c] = "push" \/ mst[c] # "none" =>
              Declared(c) = req[c].nums

\* A sector of an extension that is on chain lives at least as long, or is gone.
Reached(c) == \A n \in req[c].nums :
                \/ sector[n].life = "live" /\ sector[n].exp >= req[c].exp
                \/ sector[n].life = "gone" /\ sector[n].exp = 0

AllReached == \A c \in Call : /\ ans[c] = "ok" => mst[c] = "ok"
                              /\ mst[c] = "ok" => Reached(c)

\* And so it was when the page was asked for.
Told == \A c \in board.told :
          /\ mst[c] = "ok"
          /\ \A n \in req[c].nums : board.state[n] = 0 \/ board.state[n] >= req[c].exp

\* The tour of the pages so far.
Known == /\ board.begun \subseteq alloc /\ board.seen \subseteq alloc
         /\ board.total = Cardinality(board.begun)
         /\ board.total = 0 => board.seen = {} /\ board.twice = {}
         /\ board.rising =>
              \A m \in alloc \ board.begun, n \in board.begun : n < m

ToCome == board.total > 0 =>
            \A n \in board.begun \ board.seen : Rank(n) >= Passed * Size

Behind == board.total > 0 /\ board.rising =>
            /\ board.twice = {}
            /\ \A n \in board.seen : Rank(n) < Passed * Size

IInv == /\ TypeOK /\ Phases /\ Declares /\ AllReached /\ Told
        /\ Known /\ ToCome /\ Behind

-----------------------------------------------------------------------------
(* The frame. *)

LEMMA FrameStep == [Next]_vars => [PWNext]_pwvars
<1> SUFFICES ASSUME [Next]_vars PROVE [PWNext]_pwvars
  OBVIOUS
<1>1. ASSUME NEW c \in Call, Begin(c) PROVE PWNext
  BY <1>1 DEF Begin, PWNext
<1>2. ASSUME NEW c \in Call, Handler(c) PROVE [PWNext]_pwvars
  <2>1. \/ \E a \in PC!Declined : Decline(c, a)
        \/ Ready(c)
        \/ PushOk(c) \/ PushFails(c, "doubt")
        \/ WaitOk(c) \/ WaitExit(c) \/ WaitFails(c, "doubt")
        \/ UNCHANGED pwvars
    BY <1>2 DEF Handler, Locate, NotLocated, Unavailable, Located, Push, Wait, PC!Declined
  <2> QED
    BY <2>1 DEF PWNext, Reply, InDoubt
<1>3. CASE Chain \/ Table
  <2>1. (\E c \in Call, s \in PC!MsgState : Settle(c, s)) \/ UNCHANGED pwvars
    BY <1>3 DEF Chain, Table, Sum, ListLoad, ListAnswer, ListFails, NextPage, Extend,
      NotExecuted, Allocate, Prove, Move, Terminate, Become, PC!MsgState
  <2> QED
    BY <2>1 DEF PWNext
<1>4. CASE DaemonCrash
  BY <1>4 DEF DaemonCrash, PWNext
<1>5. CASE UNCHANGED vars
  BY <1>5 DEF vars
<1> QED
  BY <1>1, <1>2, <1>3, <1>4, <1>5 DEF Next

\* SectorExtend keeps the promise of PushCall.
THEOREM SCKeepsPromise == Spec => KeepsPromise
<1>1. Init => PWInit
  BY DEF Init
<1> QED
  BY <1>1, FrameStep, PWKeepsPromise, PTL DEF Spec, PWSpec
-----------------------------------------------------------------------------
(* Type correctness. *)

LEMMA SizeTypes ==
  ASSUME TypeOK
  PROVE  Size \in Nat \ {0} /\ board.total \in Nat /\ board.page \in Nat
         /\ Passed \in Nat
<1>1. board.total \in Nat /\ board.page \in Nat
  BY DEF TypeOK, Board
<1> QED
  BY <1>1, SectorsAssumption DEF Size, Wanted, Passed

LEMMA RankTypes ==
  ASSUME NEW S, S \subseteq Num
  PROVE  IsFiniteSet(S) /\ Cardinality(S) \in Nat
  BY SectorsAssumption, FS_Subset, FS_CardinalityType

LEMMA AskForTypes ==
  ASSUME NEW b \in Board, NEW i \in Nat
  PROVE  AskFor(b, i) \in Board
<1>1. Nothing \in [Num -> Nat]
  BY DEF Nothing
<1> QED
  BY <1>1 DEF AskFor, Board

LEMMA TypeInit == Init => TypeOK
<1> SUFFICES ASSUME Init PROVE TypeOK
  OBVIOUS
<1>1. PWTypeOK
  BY PWInitInv DEF Init, PWInv
<1>2. req \in [Call -> Request] /\ found \in [Call -> [Num -> Loc \cup {NoLoc}]]
  BY DEF Init, Request, NoRequest, Nowhere
<1>3. board \in Board
  BY DEF Init, Board, Nothing
<1> QED
  BY <1>1, <1>2, <1>3, SectorsAssumption DEF Init, TypeOK

LEMMA TypeStep == TypeOK /\ Phases /\ [Next]_vars => TypeOK'
<1> SUFFICES ASSUME TypeOK, Phases, [Next]_vars PROVE TypeOK'
  OBVIOUS
<1>1. PWTypeOK'
  BY FrameStep, PWStepInv DEF PWInv, TypeOK
<1> USE <1>1
<1>2. ASSUME NEW c \in Call, Begin(c) PROVE TypeOK'
  BY <1>2, SectorsAssumption DEF Begin, TypeOK, Request
<1>3. ASSUME NEW c \in Call, Locate(c) PROVE TypeOK'
  <2>1. PICK n \in req[c].nums : found' = [found EXCEPT ![c][n] = sector[n].loc]
    BY <1>3 DEF Locate, Unlocated
  <2>2. n \in Num /\ sector[n].loc \in Loc
    BY DEF TypeOK, Request, Sector
  <2>3. found' \in [Call -> [Num -> Loc \cup {NoLoc}]]
    BY <2>1, <2>2 DEF TypeOK
  <2> QED
    BY <1>3, <2>3 DEF Locate, TypeOK
<1>4. ASSUME NEW c \in Call, Located(c) PROVE TypeOK'
  <2>1. \A n \in req[c].nums : n \in Num /\ found[c][n] \in Loc
    BY <1>4 DEF Located, Unlocated, TypeOK, Request
  <2>2. Grouped(found[c], req[c].nums) \in SUBSET [loc : Loc, nums : SUBSET Num]
    BY <2>1 DEF Grouped, At
  <2> QED
    BY <1>4, <2>2 DEF Located, TypeOK
<1>5. ASSUME NEW c \in Call, Extend(c) PROVE TypeOK'
  <2>1. \A n \in Num : [sector[n] EXCEPT !.exp = req[c].exp] \in Sector
    BY DEF TypeOK, Sector, Request
  <2>2. sector' \in [Num -> Sector]
    BY <1>5, <2>1 DEF Extend, TypeOK
  <2> QED
    BY <1>5, <2>2 DEF Extend, TypeOK
<1>6. ASSUME NEW n \in Num, Allocate(n) PROVE TypeOK'
  <2>1. board' \in Board
    BY <1>6 DEF Allocate, TypeOK, Board
  <2> QED
    BY <1>6, <2>1 DEF Allocate, TypeOK
<1>7. ASSUME NEW n \in Num, NEW s \in Sector, Become(n, s) PROVE TypeOK'
  BY <1>7 DEF Become, TypeOK
<1>8. ASSUME NEW n \in Restless, Prove(n) \/ Move(n) \/ Terminate(n) PROVE TypeOK'
  <2>1. n \in Num
    BY SectorsAssumption
  <2>2. sector[n] \in Sector
    BY <2>1 DEF TypeOK
  <2>3. \E s \in Sector : Become(n, s)
    BY <1>8, <2>2, SectorsAssumption DEF Prove, Move, Terminate, Sector, Life
  <2> QED
    BY <1>7, <2>1, <2>3
<1>9. CASE Table
  <2>1. UNCHANGED <<pwvars, req, found, decl, alloc, sector>>
    BY <1>9 DEF Table, Sum, ListLoad, ListAnswer, ListFails, NextPage
  <2> SUFFICES board' \in Board
    BY <2>1 DEF TypeOK
  <2>2. board \in Board /\ board.page \in Nat /\ board.page + 1 \in Nat
    BY DEF TypeOK, Board
  <2>3. CASE Sum
    <3>1. AskFor(board, 0) \in Board
      BY <2>2, AskForTypes
    <3>2. Cardinality(alloc) \in Nat
      BY RankTypes DEF TypeOK
    <3> QED
      BY <2>3, <3>1, <3>2 DEF Sum, Board, TypeOK
  <2>4. CASE ListLoad
    <3>1. [n \in Num |-> sector[n].exp] \in [Num -> Nat]
      BY DEF TypeOK, Sector
    <3> QED
      BY <2>2, <2>4, <3>1 DEF ListLoad, Board
  <2>5. CASE ListAnswer
    <3> DEFINE rows == Page(board.page, Size)
               tour == IF board.total = 0 THEN {} ELSE rows
    <3>1. rows \subseteq Num /\ tour \subseteq Num
      BY DEF Page, TypeOK
    <3>2. board' = [board EXCEPT !.at = "shown", !.rows = rows,
                                 !.seen = @ \cup tour,
                                 !.twice = @ \cup (board.seen \cap tour)]
      BY <2>5 DEF ListAnswer
    <3> HIDE DEF rows, tour
    <3> QED
      BY <2>2, <3>1, <3>2 DEF Board
  <2>6. CASE ListFails \/ NextPage
    BY <2>2, <2>6, AskForTypes DEF ListFails, NextPage
  <2> QED
    BY <1>9, <2>3, <2>4, <2>5, <2>6 DEF Table
<1>10. CASE UNCHANGED scvars
  BY <1>10 DEF scvars, TypeOK
<1> QED
  BY <1>2, <1>3, <1>4, <1>5, <1>6, <1>8, <1>9, <1>10
     DEF Next, Handler, NotLocated, Unavailable, Push, Wait, Chain, NotExecuted,
       DaemonCrash, vars
-----------------------------------------------------------------------------
(* The extensions. *)

LEMMA GroupedDeclares ==
  ASSUME NEW f, NEW S
  PROVE  UNION {d.nums : d \in Grouped(f, S)} = S
<1>1. ASSUME NEW n \in S PROVE \E d \in Grouped(f, S) : n \in d.nums
  <2>1. [loc |-> f[n], nums |-> At(f, f[n], S)] \in Grouped(f, S)
    BY DEF Grouped
  <2> QED
    BY <2>1 DEF At
<1>2. ASSUME NEW d \in Grouped(f, S) PROVE d.nums \subseteq S
  BY DEF Grouped, At
<1> QED
  BY <1>1, <1>2

LEMMA DeclaresStep == IInv /\ [Next]_vars => Declares'
<1> SUFFICES ASSUME IInv, [Next]_vars PROVE Declares'
  OBVIOUS
<1> USE DEF IInv, TypeOK, PWTypeOK, Phases, Declares, Goto, Return
<1>1. ASSUME NEW c \in Call, Begin(c) PROVE Declares'
  BY <1>1 DEF Begin, Start, Declared
<1>2. ASSUME NEW c \in Call, Located(c) PROVE Declares'
  <2>1. Declared(c)' = req[c].nums
    <3>1. decl'[c] = Grouped(found[c], req[c].nums)
      BY <1>2 DEF Located
    <3> QED
      BY <3>1, GroupedDeclares DEF Declared
  <2>2. ASSUME NEW d \in Call, d # c PROVE Declared(d)' = Declared(d)
    BY <1>2, <2>2 DEF Located, Declared
  <2> QED
    BY <1>2, <2>1, <2>2 DEF Located, Ready
<1>3. ASSUME UNCHANGED <<req, decl>>,
             \A c \in Call : pc'[c] = "push" \/ mst'[c] # "none" =>
                               pc[c] = "push" \/ mst[c] # "none"
      PROVE  Declares'
  BY <1>3 DEF Declared
<1>4. ASSUME NEW c \in Call, \/ Locate(c) \/ NotLocated(c) \/ Unavailable(c)
                             \/ Push(c) \/ Wait(c)
      PROVE  Declares'
  BY <1>3, <1>4 DEF Locate, NotLocated, Unavailable, Decline, Push, PushOk, PushFails,
    Wait, WaitOk, WaitExit, WaitFails, scvars, pwvars
<1>5. CASE Chain
  BY <1>3, <1>5 DEF Chain, Extend, NotExecuted, Settle, Allocate, Prove, Move,
    Terminate, Become, scvars, pwvars
<1>6. CASE Table
  BY <1>3, <1>6 DEF Table, Sum, ListLoad, ListAnswer, ListFails, NextPage, pwvars
<1>7. CASE DaemonCrash
  BY <1>3, <1>7 DEF DaemonCrash, Crash, scvars
<1>8. CASE UNCHANGED vars
  BY <1>3, <1>8 DEF vars, pwvars, scvars
<1> QED
  BY <1>1, <1>2, <1>4, <1>5, <1>6, <1>7, <1>8 DEF Next, Handler

\* What an execution does, by the declarations of its message.
LEMMA ExtendFacts ==
  ASSUME IInv, NEW c \in Call, Extend(c)
  PROVE  /\ \A n \in Num : sector'[n] = IF n \in req[c].nums
                                          THEN [sector[n] EXCEPT !.exp = req[c].exp]
                                          ELSE sector[n]
         /\ \A n \in req[c].nums : /\ n \in Num /\ sector[n].life = "live"
                                   /\ sector[n].exp <= req[c].exp
<1>1. mst[c] = "pooled" /\ Declared(c) = req[c].nums
  BY DEF Extend, Settle, IInv, Declares
<1>2. \A n \in req[c].nums : sector[n].life = "live" /\ sector[n].exp <= req[c].exp
  BY <1>1 DEF Declared, Extend, Accepted
<1> QED
  BY <1>1, <1>2 DEF Extend, IInv, TypeOK, Request

LEMMA ReachedStep == IInv /\ [Next]_vars => AllReached'
<1> SUFFICES ASSUME IInv, [Next]_vars, NEW c \in Call
             PROVE  /\ ans'[c] = "ok" => mst'[c] = "ok"
                    /\ mst'[c] = "ok" => Reached(c)'
  BY DEF AllReached
<1> DEFINE Goal == /\ ans'[c] = "ok" => mst'[c] = "ok"
                   /\ mst'[c] = "ok" => Reached(c)'
<1> USE DEF IInv, TypeOK, PWTypeOK, AllReached
<1>1. ASSUME req' = req, sector' = sector, mst'[c] = "ok" => mst[c] = "ok",
             ans'[c] = "ok" => mst'[c] = "ok"
      PROVE  Goal
  BY <1>1 DEF Reached
<1>2. ASSUME NEW d \in Call, Begin(d) PROVE Goal
  BY <1>2 DEF Begin, Start, Goto, Phases, Reached
<1>3. ASSUME NEW d \in Call, Handler(d) PROVE Goal
  BY <1>1, <1>3 DEF Handler, Locate, NotLocated, Unavailable, Located, Decline, Ready,
    Push, PushOk, PushFails, Wait, WaitOk, WaitExit, WaitFails, Goto, Return, Phases,
    scvars, pwvars
<1>4. ASSUME NEW d \in Call, Extend(d) PROVE Goal
  <2>1. /\ \A n \in Num : sector'[n] = IF n \in req[d].nums
                                         THEN [sector[n] EXCEPT !.exp = req[d].exp]
                                         ELSE sector[n]
        /\ \A n \in req[d].nums : /\ n \in Num /\ sector[n].life = "live"
                                  /\ sector[n].exp <= req[d].exp
    BY <1>4, ExtendFacts
  <2>2. /\ UNCHANGED <<req, ans>> /\ mst[d] = "pooled"
        /\ \A e \in Call : mst'[e] = IF e = d THEN "ok" ELSE mst[e]
    BY <1>4 DEF Extend, Settle
  <2>3. \A e \in Call : req[e].nums \subseteq Num /\ req[e].exp \in Nat
    BY DEF Request
  <2>4. \A n \in Num : sector[n].exp \in Nat /\ sector[n] \in Sector
    BY DEF Sector
  <2>5. \A n \in req[d].nums : sector'[n].life = "live" /\ sector'[n].exp = req[d].exp
    BY <2>1, <2>4 DEF Sector
  <2>6. \A n \in Num : n \notin req[d].nums => sector'[n] = sector[n]
    BY <2>1
  <2>7. ASSUME mst[c] = "ok" PROVE Reached(c)'
    <3> SUFFICES ASSUME NEW n \in req[c].nums
                 PROVE  \/ sector'[n].life = "live" /\ sector'[n].exp >= req[c].exp
                        \/ sector'[n].life = "gone" /\ sector'[n].exp = 0
      BY <2>2 DEF Reached
    <3>1. \/ sector[n].life = "live" /\ sector[n].exp >= req[c].exp
          \/ sector[n].life = "gone" /\ sector[n].exp = 0
      BY <2>7 DEF Reached
    <3> HIDE DEF IInv, TypeOK, PWTypeOK, AllReached
    <3>2. CASE n \in req[d].nums
      BY <2>1, <2>3, <2>4, <2>5, <3>1, <3>2
    <3>3. CASE n \notin req[d].nums
      BY <2>3, <2>6, <3>1, <3>3
    <3> QED
      BY <3>2, <3>3
  <2>8. ASSUME c = d PROVE Reached(c)'
    BY <2>2, <2>3, <2>5, <2>8 DEF Reached
  <2> QED
    BY <2>2, <2>7, <2>8
<1>5. ASSUME NEW n \in Num, UNCHANGED <<req, ans, mst>>,
             \A m \in Num : m # n => sector'[m] = sector[m],
             sector[n].life # "gone",
             sector[n].life = "live" =>
               \/ sector'[n].life = "gone" /\ sector'[n].exp = 0
               \/ sector'[n].life = "live" /\ sector'[n].exp = sector[n].exp
      PROVE  Goal
  <2>1. req[c].nums \subseteq Num
    BY DEF Request
  <2> QED
    BY <1>5, <2>1 DEF Reached
<1>6. ASSUME NEW n \in Restless, Prove(n) \/ Move(n) \/ Terminate(n) PROVE Goal
  <2>1. n \in Num /\ sector[n] \in Sector
    BY SectorsAssumption
  <2>2. UNCHANGED <<req, ans, mst>> /\ \A m \in Num : m # n => sector'[m] = sector[m]
    BY <1>6 DEF Prove, Move, Terminate, Become, pwvars
  <2>3. CASE Prove(n)
    BY <1>5, <2>1, <2>2, <2>3 DEF Prove
  <2>4. CASE Move(n)
    <3>1. /\ sector[n].life = "live" /\ sector'[n].life = "live"
          /\ sector'[n].exp = sector[n].exp
      BY <2>1, <2>4 DEF Move, Become, Sector
    <3> QED
      BY <1>5, <2>1, <2>2, <3>1
  <2>5. CASE Terminate(n)
    <3>1. sector[n].life = "live" /\ sector'[n].life = "gone" /\ sector'[n].exp = 0
      BY <2>1, <2>5 DEF Terminate, Become, Sector
    <3> QED
      BY <1>5, <2>1, <2>2, <3>1
  <2> QED
    BY <1>6, <2>3, <2>4, <2>5
<1>7. CASE \/ \E d \in Call : NotExecuted(d) \/ \E n \in Num : Allocate(n)
           \/ Table \/ DaemonCrash
  BY <1>1, <1>7 DEF NotExecuted, Settle, Allocate, Table, Sum, ListLoad, ListAnswer,
    ListFails, NextPage, DaemonCrash, Crash, scvars, pwvars
<1>8. CASE UNCHANGED vars
  BY <1>1, <1>8 DEF vars, pwvars, scvars
<1> QED
  BY <1>2, <1>3, <1>4, <1>6, <1>7, <1>8 DEF Next, Chain

LEMMA ToldStep == IInv /\ [Next]_vars => Told'
<1> SUFFICES ASSUME IInv, [Next]_vars PROVE Told'
  OBVIOUS
<1> USE DEF IInv, TypeOK, PWTypeOK, Told
<1>0. board \in Board /\ board.told \subseteq Call
  BY DEF Board
<1>1. ASSUME UNCHANGED <<board, req>>, \A c \in Call : mst[c] = "ok" => mst'[c] = "ok"
      PROVE  Told'
  BY <1>0, <1>1
<1>2. ASSUME NEW c \in Call, Begin(c) PROVE Told'
  <2>1. UNCHANGED <<board, mst>> /\ mst[c] = "none"
        /\ \A d \in Call : d # c => req'[d] = req[d]
    BY <1>2 DEF Begin, Start, Goto, Phases
  <2> QED
    BY <1>0, <2>1
<1>3. ASSUME NEW c \in Call, Handler(c) PROVE Told'
  BY <1>1, <1>3 DEF Handler, Locate, NotLocated, Unavailable, Located, Decline, Ready,
    Push, PushOk, PushFails, Wait, WaitOk, WaitExit, WaitFails, Goto, Return, Phases,
    scvars, pwvars
<1>4. CASE Chain
  <2>1. CASE \E n \in Num : Allocate(n)
    BY <1>0, <2>1 DEF Allocate, Board, pwvars
  <2>2. CASE ~\E n \in Num : Allocate(n)
    BY <1>1, <1>4, <2>2 DEF Chain, Extend, NotExecuted, Settle, Prove, Move, Terminate,
      Become, scvars, pwvars
  <2> QED
    BY <2>1, <2>2
<1>5. CASE ListLoad
  <2>1. board'.told = {c \in Call : ans[c] = "ok"} /\ UNCHANGED <<req, mst>>
        /\ board'.state = [n \in Num |-> sector[n].exp]
    BY <1>0, <1>5 DEF ListLoad, Board, pwvars
  <2>2. \A c \in Call : /\ ans[c] = "ok" => mst[c] = "ok" /\ Reached(c)
                        /\ req[c].nums \subseteq Num
    BY DEF AllReached, Request
  <2> QED
    BY <2>1, <2>2 DEF Reached
<1>6. CASE Sum \/ ListFails \/ NextPage
  <2>1. board'.told = {}
    BY <1>0, <1>6 DEF Sum, ListFails, NextPage, AskFor, Board
  <2> QED
    BY <2>1
<1>7. CASE ListAnswer
  <2>1. board'.told = board.told /\ board'.state = board.state /\ UNCHANGED <<req, mst>>
    BY <1>0, <1>7 DEF ListAnswer, Board, pwvars
  <2> QED
    BY <2>1
<1>8. CASE DaemonCrash
  BY <1>1, <1>8 DEF DaemonCrash, Crash, scvars
<1>9. CASE UNCHANGED vars
  BY <1>1, <1>9 DEF vars, pwvars, scvars
<1> QED
  BY <1>2, <1>3, <1>4, <1>5, <1>6, <1>7, <1>8, <1>9 DEF Next, Table
-----------------------------------------------------------------------------
(* The table. *)

LEMMA Pages ==
  ASSUME NEW i \in Nat, NEW k \in Nat
  PROVE  k * i = i * k /\ (i + 1) * k = i * k + k /\ i * k \in Nat
  OBVIOUS

LEMMA DivBound ==
  ASSUME NEW a \in Nat, NEW b \in Nat \ {0}, NEW q \in Nat, q > a \div b
  PROVE  q * b > a
<1> DEFINE d == a \div b
           r == a % b
<1>1. d \in Nat /\ a = b * d + r /\ r < b
  OBVIOUS
<1> HIDE DEF d, r
<1>2. d < q
  BY DEF d
<1>3. PICK k \in Nat : q = (d + k) + 1
  <2>1. q - d - 1 \in Nat
    BY <1>1, <1>2
  <2> QED
    BY <1>1, <2>1
<1>4. q * b = (d + k) * b + b
  BY <1>1, <1>3, Pages
<1>5. (d + k) * b = b * d + b * k /\ b * k \in Nat /\ b * d \in Nat
  BY <1>1
<1> QED
  BY <1>1, <1>4, <1>5

\* Ranks only grow, and not at all when the number allocated is the greatest.
LEMMA RankGrows ==
  ASSUME TypeOK, NEW n \in Num, alloc' = alloc \cup {n}, NEW m \in Num
  PROVE  /\ Rank(m) \in Nat /\ Rank(m)' \in Nat /\ Rank(m)' >= Rank(m)
         /\ ~(n < m) => Rank(m)' = Rank(m)
<1> DEFINE S == {k \in alloc : k < m}
           T == {k \in alloc' : k < m}
<1>1. S \subseteq T /\ T \subseteq Num /\ S \subseteq Num
  BY DEF TypeOK
<1>2. IsFiniteSet(T) /\ Cardinality(T) \in Nat /\ Cardinality(S) \in Nat
  BY <1>1, RankTypes
<1>3. Cardinality(S) <= Cardinality(T)
  BY <1>1, <1>2, FS_Subset
<1>4. ~(n < m) => T = S
  OBVIOUS
<1>5. Rank(m) = Cardinality(S) /\ Rank(m)' = Cardinality(T)
  BY DEF Rank
<1> QED
  BY <1>2, <1>3, <1>4, <1>5

\* While only greater numbers are allocated, what was counted comes first.
LEMMA RankBelowTotal ==
  ASSUME TypeOK, Known, board.rising, NEW n \in board.begun
  PROVE  Rank(n) < board.total
<1> DEFINE S == {k \in alloc : k < n}
<1>1. /\ board.begun \subseteq alloc /\ alloc \subseteq Num /\ Num \subseteq Nat
      /\ board.total = Cardinality(board.begun)
      /\ \A m \in alloc \ board.begun : n < m
  BY SectorsAssumption DEF Known, TypeOK
<1>2. n \notin S /\ \A k \in S : k \in board.begun
  <2>1. n \in Nat /\ \A k \in S : k \in Nat /\ k \in alloc /\ k < n
    BY <1>1
  <2>2. \A k \in S : ~(n < k)
    BY <2>1
  <2> QED
    BY <1>1, <2>1, <2>2
<1>3. IsFiniteSet(board.begun) /\ Cardinality(board.begun) \in Nat
  BY <1>1, RankTypes
<1>4. Cardinality(S) <= Cardinality(board.begun) /\ S # board.begun
      /\ (Cardinality(S) = Cardinality(board.begun) => S = board.begun)
      /\ Cardinality(S) \in Nat
  BY <1>2, <1>3, FS_Subset, FS_CardinalityType
<1> QED
  BY <1>1, <1>3, <1>4 DEF Rank

TourGoes == Known' /\ ToCome' /\ Behind'

LEMMA AllocateTour ==
  ASSUME IInv, NEW n \in Num, Allocate(n)
  PROVE  TourGoes
<1> USE DEF IInv
<1>1. /\ n \notin alloc /\ alloc' = alloc \cup {n}
      /\ board'.begun = board.begun /\ board'.seen = board.seen
      /\ board'.total = board.total /\ board'.twice = board.twice
      /\ board'.page = board.page /\ board'.at = board.at
      /\ board'.rising <=> (board.rising /\ \A m \in alloc : m < n)
  BY DEF Allocate, TypeOK, Board
<1>2. Size' = Size /\ Passed' = Passed /\ Size \in Nat /\ Passed \in Nat
  BY <1>1, SizeTypes DEF Size, Wanted, Passed
<1>3. \A m \in Num : /\ Rank(m) \in Nat /\ Rank(m)' \in Nat /\ Rank(m)' >= Rank(m)
                     /\ ~(n < m) => Rank(m)' = Rank(m)
  BY <1>1, RankGrows
<1>4. Num \subseteq Nat /\ alloc \subseteq Num
  BY SectorsAssumption DEF TypeOK
<1>5. PICK bound \in Nat : bound = Passed * Size
  BY <1>2, Pages
<1>6. Known'
  BY <1>1, <1>4 DEF Known
<1>7. ToCome'
  <2> SUFFICES ASSUME board.total > 0, NEW m \in board.begun \ board.seen
               PROVE  Rank(m)' >= bound
    BY <1>1, <1>2, <1>5 DEF ToCome
  <2>1. m \in Num /\ Rank(m) >= bound
    BY <1>4, <1>5 DEF ToCome, Known
  <2> QED
    BY <2>1, <1>3
<1>8. Behind'
  <2> SUFFICES ASSUME board.total > 0, board.rising, \A m \in alloc : m < n
               PROVE  board.twice = {} /\ \A m \in board.seen : Rank(m)' < bound
    BY <1>1, <1>2, <1>5 DEF Behind
  <2>1. ASSUME NEW m \in board.seen PROVE Rank(m)' < bound
    <3>1. m \in alloc /\ Rank(m) < bound
      BY <1>5 DEF Behind, Known
    <3>2. m \in Nat /\ n \in Nat /\ m < n
      BY <1>4, <3>1
    <3> QED
      BY <1>3, <1>4, <3>1, <3>2
  <2> QED
    BY <2>1 DEF Behind
<1> QED
  BY <1>6, <1>7, <1>8 DEF TourGoes

LEMMA AnswerTour ==
  ASSUME IInv, ListAnswer
  PROVE  TourGoes
<1> USE DEF IInv
<1> DEFINE rows == Page(board.page, Size)
           tour == IF board.total = 0 THEN {} ELSE rows
<1>1. /\ board.at = "loaded" /\ alloc' = alloc
      /\ board'.at = "shown" /\ board'.page = board.page
      /\ board'.total = board.total /\ board'.begun = board.begun
      /\ board'.rising = board.rising
      /\ board'.seen = board.seen \cup tour
      /\ board'.twice = board.twice \cup (board.seen \cap tour)
  BY DEF ListAnswer, TypeOK, Board
<1>2. /\ Size' = Size /\ Size \in Nat /\ board.page \in Nat
      /\ Passed = board.page /\ Passed' = board.page + 1
  BY <1>1, SizeTypes DEF Size, Wanted, Passed
<1>3. PICK low \in Nat : /\ low = Passed * Size /\ low = Size * board.page
                         /\ low + Size = Passed' * Size'
  BY <1>2, Pages
<1>4. \A m \in alloc : Rank(m)' = Rank(m) /\ Rank(m) \in Nat
  BY <1>1, RankGrows DEF Rank, TypeOK
<1>5. rows = {m \in alloc : low <= Rank(m) /\ Rank(m) < low + Size}
  BY <1>3 DEF Page
<1> HIDE DEF rows
<1>6. Known'
  BY <1>1, <1>5 DEF Known
<1>7. ToCome'
  <2> SUFFICES ASSUME board.total > 0, NEW m \in board.begun \ board'.seen
               PROVE  Rank(m)' >= low + Size
    BY <1>1, <1>3 DEF ToCome
  <2>1. m \in alloc /\ m \notin rows /\ Rank(m) >= low
    BY <1>1, <1>3 DEF ToCome, Known, TypeOK, Board
  <2> QED
    BY <1>2, <1>4, <1>5, <2>1
<1>8. Behind'
  <2> SUFFICES ASSUME board.total > 0, board.rising
               PROVE  /\ board'.twice = {}
                      /\ \A m \in board'.seen : Rank(m)' < low + Size
    BY <1>1, <1>3 DEF Behind
  <2>1. \A m \in board.seen : m \in alloc /\ Rank(m) < low
    BY <1>3 DEF Behind, Known
  <2>2. board.seen \cap rows = {}
    BY <1>4, <1>5, <2>1
  <2>3. board.twice = {}
    BY DEF Behind
  <2> QED
    BY <1>1, <1>2, <1>4, <1>5, <2>1, <2>2, <2>3
<1> QED
  BY <1>6, <1>7, <1>8 DEF TourGoes

LEMMA SumTour ==
  ASSUME IInv, Sum
  PROVE  TourGoes
<1> USE DEF IInv
<1>1. /\ board.total = 0 /\ alloc' = alloc
      /\ board'.at = "ask" /\ board'.page = 0 /\ board'.total = Cardinality(alloc)
      /\ board'.begun = alloc /\ board'.rising
      /\ board'.seen = board.seen /\ board'.twice = board.twice
  BY DEF Sum, AskFor, TypeOK, Board
<1>2. board.seen = {} /\ board.twice = {}
  BY <1>1 DEF Known
<1>3. Cardinality(alloc) \in Nat
  BY RankTypes DEF TypeOK
<1>4. Passed' = 0 /\ Size' \in Nat
  BY <1>1, <1>3, SectorsAssumption DEF Passed, Size, Wanted
<1>5. Passed' * Size' = 0
  <2>1. PICK k \in Nat : k = Size'
    BY <1>4
  <2>2. 0 * k = 0
    OBVIOUS
  <2> QED
    BY <1>4, <2>1, <2>2
<1>6. \A m \in alloc : Rank(m)' \in Nat
  <2>1. ASSUME NEW m \in alloc PROVE Cardinality({k \in alloc : k < m}) \in Nat
    BY RankTypes DEF TypeOK
  <2> QED
    BY <1>1, <2>1 DEF Rank
<1>7. Known' /\ ToCome' /\ Behind'
  BY <1>1, <1>2, <1>5, <1>6 DEF Known, ToCome, Behind
<1> QED
  BY <1>7 DEF TourGoes

\* The other steps leave the tour where it is.
LEMMA TourStays ==
  ASSUME IInv, alloc' = alloc, board'.begun = board.begun, board'.seen = board.seen,
         board'.total = board.total, board'.twice = board.twice,
         board'.rising = board.rising, Passed' = Passed
  PROVE  TourGoes
<1>1. Size' = Size /\ \A m : Rank(m)' = Rank(m)
  BY DEF Size, Wanted, Rank
<1> QED
  BY <1>1 DEF TourGoes, Known, ToCome, Behind, IInv

LEMMA TourStep == IInv /\ [Next]_vars => TourGoes
<1> SUFFICES ASSUME IInv, [Next]_vars PROVE TourGoes
  OBVIOUS
<1>0. board \in Board /\ board.page \in Nat
  BY DEF IInv, TypeOK, Board
<1>1. ASSUME UNCHANGED <<alloc, board>> PROVE TourGoes
  BY <1>1, TourStays DEF Passed
<1>2. ASSUME NEW c \in Call, Begin(c) \/ Handler(c) PROVE TourGoes
  BY <1>1, <1>2 DEF Begin, Handler, Locate, NotLocated, Unavailable, Located, Push, Wait,
    scvars
<1>3. CASE Chain
  BY <1>1, <1>3, AllocateTour DEF Chain, Extend, NotExecuted, Prove, Move, Terminate,
    Become, scvars
<1>4. CASE ListLoad
  BY <1>0, <1>4, TourStays DEF ListLoad, Passed, Board
<1>5. CASE ListFails
  BY <1>0, <1>5, TourStays DEF ListFails, AskFor, Passed, Board
<1>6. CASE NextPage
  BY <1>0, <1>6, TourStays DEF NextPage, AskFor, Passed, Board
<1>7. CASE Sum \/ ListAnswer
  BY <1>7, SumTour, AnswerTour
<1>8. CASE DaemonCrash \/ UNCHANGED vars
  BY <1>1, <1>8 DEF DaemonCrash, scvars, vars
<1> QED
  BY <1>2, <1>3, <1>4, <1>5, <1>6, <1>7, <1>8 DEF Next, Table
-----------------------------------------------------------------------------
LEMMA IInvInit == Init => IInv
<1> SUFFICES ASSUME Init PROVE IInv
  OBVIOUS
<1>1. TypeOK /\ Phases
  BY TypeInit, PWInitInv DEF Init, PWInv
<1>2. Declares /\ AllReached /\ Told
  BY DEF Init, PWInit, Declares, AllReached, Told
<1>3. Known /\ ToCome /\ Behind
  BY FS_EmptySet DEF Init, Known, ToCome, Behind
<1> QED
  BY <1>1, <1>2, <1>3 DEF IInv

LEMMA IInvStep == IInv /\ [Next]_vars => IInv'
<1> SUFFICES ASSUME IInv, [Next]_vars PROVE IInv'
  OBVIOUS
<1>1. TypeOK' /\ Phases'
  BY TypeStep, FrameStep, PWStepInv DEF IInv, PWInv, TypeOK
<1> QED
  BY <1>1, DeclaresStep, ReachedStep, ToldStep, TourStep DEF IInv, TourGoes

\* Sectors: everything the properties below follow from.
THEOREM Invariance == Spec => []IInv
  BY IInvInit, IInvStep, PTL DEF Spec
-----------------------------------------------------------------------------
(* The properties. *)

\* The states stay what they are said to be.
THEOREM SCTypeCorrect == Spec => []TypeOK
<1>1. IInv => TypeOK
  BY DEF IInv
<1> QED
  BY <1>1, Invariance, PTL

\* An extension extends what was asked for and nothing else.
THEOREM SCExtendsWhatWasAsked == Spec => ExtendsWhatWasAsked
<1>1. IInv /\ [Next]_vars => [\A c \in Call : ExtendStep(c)]_vars
  <2> SUFFICES ASSUME IInv, [Next]_vars, NEW c \in Call, mst[c] = "pooled", mst'[c] = "ok"
               PROVE  Extend(c)
    BY ExtendFacts DEF ExtendStep
  <2> USE DEF IInv, TypeOK, PWTypeOK, Phases
  <2>1. ASSUME NEW d \in Call, Begin(d) \/ Handler(d) PROVE mst'[c] = "pooled"
    BY <2>1 DEF Begin, Start, Handler, Locate, NotLocated, Unavailable, Located, Decline,
      Ready, Push, PushOk, PushFails, Wait, WaitOk, WaitExit, WaitFails, Goto, pwvars
  <2>2. ASSUME NEW d \in Call, Extend(d) \/ NotExecuted(d) PROVE Extend(c)
    BY <2>2 DEF Extend, NotExecuted, Settle
  <2> QED
    BY <2>1, <2>2 DEF Next, Table, Sum, ListLoad, ListAnswer, ListFails, NextPage, Chain,
      Allocate, Prove, Move, Terminate, Become, DaemonCrash, Crash, vars, pwvars
<1> QED
  BY <1>1, Invariance, PTL DEF Spec, ExtendsWhatWasAsked

\* A page asked for after a success shows it.
THEOREM SCExtendedIsListed == Spec => []ExtendedIsListed
<1>1. IInv => ExtendedIsListed
  BY DEF IInv, Told, ExtendedIsListed
<1> QED
  BY <1>1, Invariance, PTL

\* Behind the last page of the table there is nothing of what was counted.
LEMMA PastLast ==
  ASSUME TypeOK, board.total > 0, NEW k \in Nat, k > LastPage
  PROVE  k * Size > board.total - 1 /\ k * Size \in Nat
<1>1. Size \in Nat \ {0} /\ board.total \in Nat /\ board.total - 1 \in Nat
  BY SizeTypes
<1>2. CASE board.total > BoardSize
  <2>1. Size = BoardSize /\ BoardSize \in Nat \ {0}
    BY <1>2, SectorsAssumption DEF Size, Wanted
  <2> QED
    BY <1>1, <2>1, DivBound, Pages DEF LastPage
<1>3. CASE ~(board.total > BoardSize)
  <2>1. Size = board.total
    BY <1>1, <1>3 DEF Size, Wanted
  <2>2. LastPage \in Nat
    BY <1>1, SectorsAssumption DEF LastPage
  <2>3. PICK j \in Nat : k = j + 1
    <3>1. k - 1 \in Nat /\ k = (k - 1) + 1
      BY <2>2
    <3> QED
      BY <3>1
  <2>4. k * Size = j * Size + Size /\ j * Size \in Nat
    BY <1>1, <2>3, Pages
  <2> QED
    BY <1>1, <2>1, <2>4
<1> QED
  BY <1>2, <1>3

\* The rank of a number that was counted: the counted ones before it, which are
\* not all, and the ones allocated since.
LEMMA RankSince ==
  ASSUME TypeOK, Known, NEW n \in board.begun
  PROVE  /\ Rank(n) \in Nat
         /\ Cardinality({m \in alloc \ board.begun : m < n}) \in Nat
         /\ Rank(n) <= board.total - 1 + Cardinality({m \in alloc \ board.begun : m < n})
<1> DEFINE S == {m \in board.begun : m < n}
           T == {m \in alloc \ board.begun : m < n}
<1>1. /\ board.begun \subseteq alloc /\ alloc \subseteq Num /\ Num \subseteq Nat
      /\ board.total = Cardinality(board.begun)
  BY SectorsAssumption DEF Known, TypeOK
<1>2. S \cup T = {m \in alloc : m < n} /\ S \cap T = {}
  BY <1>1
<1>3. /\ IsFiniteSet(S) /\ IsFiniteSet(T) /\ IsFiniteSet(board.begun)
      /\ Cardinality(S) \in Nat /\ Cardinality(T) \in Nat
      /\ Cardinality(board.begun) \in Nat
  <2>1. S \subseteq Num /\ T \subseteq Num /\ board.begun \subseteq Num
    BY <1>1
  <2> HIDE DEF S, T
  <2> QED
    BY <2>1, RankTypes
<1>4. Cardinality(S \cup T) = Cardinality(S) + Cardinality(T)
  <2>1. Cardinality(S \cap T) = 0
    BY <1>2, FS_EmptySet
  <2>2. Cardinality(S \cup T) = Cardinality(S) + Cardinality(T) - Cardinality(S \cap T)
    <3> HIDE DEF S, T
    <3> QED
      BY <1>3, FS_Union
  <2> QED
    BY <1>3, <2>1, <2>2
<1>5. Cardinality(S) <= board.total - 1
  <2>1. S \subseteq board.begun /\ n \notin S
    <3>1. n \in Nat
      BY <1>1
    <3> QED
      BY <3>1
  <2>2. Cardinality(S) <= Cardinality(board.begun) /\ Cardinality(S) # Cardinality(board.begun)
    <3> HIDE DEF S
    <3> QED
      BY <1>3, <2>1, FS_Subset
  <2> QED
    BY <1>1, <1>3, <2>2
<1>6. Rank(n) = Cardinality(S) + Cardinality(T)
  BY <1>2, <1>4 DEF Rank
<1> HIDE DEF S
<1>7. /\ Rank(n) \in Nat /\ Cardinality(T) \in Nat
      /\ Rank(n) <= board.total - 1 + Cardinality(T)
  <2> HIDE DEF T
  <2> QED
    BY <1>1, <1>3, <1>5, <1>6
<1> QED
  BY <1>7

\* The pages of the table in order miss, of the numbers counted when its total was
\* taken, only those that more smaller numbers have pushed out at the end since
\* than the last page had room for.
THEOREM SCPagesMissNothing == Spec => []PagesMissNothing
<1>1. ASSUME IInv PROVE PagesMissNothing
  <2> SUFFICES ASSUME board.total > 0 PROVE PagesMissNothing
    BY DEF PagesMissNothing
  <2> DEFINE New(n) == Cardinality({m \in alloc \ board.begun : m < n})
  <2>1. /\ Size \in Nat \ {0} /\ Passed \in Nat /\ board.total \in Nat
        /\ LastPage \in Nat
    BY <1>1, SizeTypes, SectorsAssumption DEF IInv, LastPage
  <2>2. ASSUME NEW n \in board.begun, n \notin board.seen PROVE Rank(n) >= Passed * Size
    BY <1>1, <2>2 DEF IInv, ToCome
  <2>3. ASSUME NEW n \in board.begun
        PROVE  Rank(n) < (LastPage + 1) * Size \/ New(n) > Room
    <3>1. /\ Rank(n) \in Nat /\ New(n) \in Nat
          /\ Rank(n) <= board.total - 1 + New(n)
      BY <1>1, RankSince DEF IInv
    <3>2. (LastPage + 1) * Size \in Nat
      BY <1>1, <2>1, PastLast DEF IInv
    <3>3. PICK bound \in Nat : bound = (LastPage + 1) * Size
      BY <3>2
    <3> HIDE DEF New
    <3> QED
      BY <2>1, <3>1, <3>3 DEF Room
  <2>4. ASSUME board.rising, Passed > LastPage, NEW n \in board.begun, n \notin board.seen
        PROVE  FALSE
    <3>1. Rank(n) >= Passed * Size /\ Rank(n) < board.total /\ Rank(n) \in Nat
      BY <1>1, <2>2, <2>4, RankBelowTotal, RankSince DEF IInv
    <3>2. Passed * Size > board.total - 1 /\ Passed * Size \in Nat
      BY <1>1, <2>1, <2>4, PastLast DEF IInv
    <3> QED
      BY <2>1, <3>1, <3>2
  <2> QED
    BY <2>2, <2>3, <2>4 DEF PagesMissNothing
<1> QED
  BY <1>1, Invariance, PTL

\* And repeat nothing while only greater numbers are allocated.
THEOREM SCPagesRepeatNothing == Spec => []PagesRepeatNothing
<1>1. ASSUME IInv PROVE PagesRepeatNothing
  <2>1. board.total \in Nat
    BY <1>1, SizeTypes DEF IInv
  <2> QED
    BY <1>1, <2>1 DEF IInv, Known, Behind, PagesRepeatNothing
<1> QED
  BY <1>1, Invariance, PTL

\* An extension that was answered with success stays: from then on each of its
\* sectors lives as long as it was asked for or longer, or is terminated, whatever
\* other extensions do and however its partition is compacted.
ExtendedStays ==
  \A c \in Call, r \in Request :
    [](ans[c] = "ok" /\ req[c] = r =>
         [](\A n \in r.nums : \/ sector[n].life = "live" /\ sector[n].exp >= r.exp
                              \/ sector[n].life = "gone" /\ sector[n].exp = 0))

\* An answer and what was asked for stay as they are.
LEMMA AnswerStays ==
  ASSUME IInv, [Next]_vars, NEW c \in Call, ans[c] # "none"
  PROVE  ans'[c] = ans[c] /\ req'[c] = req[c]
<1>1. pc[c] # "idle"
  BY DEF IInv, Phases
<1>2. req'[c] = req[c]
  <2>1. CASE \E d \in Call : Begin(d)
    <3>1. PICK d \in Call : Begin(d)
      BY <2>1
    <3>2. pc[d] = "idle" /\ \E r \in Asked : req' = [req EXCEPT ![d] = r]
      BY <3>1 DEF Begin, Start, Goto
    <3> QED
      BY <1>1, <3>2 DEF IInv, TypeOK
  <2>2. CASE ~\E d \in Call : Begin(d)
    BY <2>2 DEF Next, Handler, Locate, NotLocated, Unavailable, Located, Push, Wait, Table,
      Sum, ListLoad, ListAnswer, ListFails, NextPage, Chain, Extend, NotExecuted, Allocate,
      Prove, Move, Terminate, Become, DaemonCrash, scvars, vars
  <2> QED
    BY <2>1, <2>2
<1>3. [PC!Next]_(PC!vars) /\ PC!TypeOK
  BY FrameStep, PWStepPromise DEF IInv, TypeOK, PWInv, PWTypeOK, PC!TypeOK
<1> QED
  BY <1>2, <1>3, PCAnswersOnce

THEOREM SCExtendedStays == Spec => ExtendedStays
<1>1. ASSUME NEW c \in Call, NEW r \in Request
      PROVE  Spec => [](ans[c] = "ok" /\ req[c] = r =>
               [](\A n \in r.nums : \/ sector[n].life = "live" /\ sector[n].exp >= r.exp
                                    \/ sector[n].life = "gone" /\ sector[n].exp = 0))
  <2> DEFINE Success == ans[c] = "ok" /\ req[c] = r
             Extended == \A n \in r.nums :
                           \/ sector[n].life = "live" /\ sector[n].exp >= r.exp
                           \/ sector[n].life = "gone" /\ sector[n].exp = 0
  <2>1. IInv /\ [Next]_vars => (Success => Success')
    BY AnswerStays
  <2>2. IInv => (Success => Extended)
    BY DEF IInv, AllReached, Reached
  <2> HIDE DEF Success, Extended
  <2>3. Spec => [](Success => []Extended)
    BY <2>1, <2>2, Invariance, PTL DEF Spec
  <2> QED
    BY <2>3 DEF Success, Extended
<1> QED
  BY <1>1 DEF ExtendedStays

\* The declarations of the message of an extension: each partition is declared
\* once and with sectors, and no sector is declared twice (the map from locations
\* to sectors in SectorExtend).
DeclaredOnce ==
  \A c \in Call : pc[c] = "push" \/ mst[c] # "none" =>
    \A d, e \in decl[c] : /\ d.nums # {}
                          /\ d.loc = e.loc \/ d.nums \cap e.nums # {} => d = e

LEMMA GroupedOnce ==
  ASSUME NEW f, NEW S, NEW d \in Grouped(f, S), NEW e \in Grouped(f, S)
  PROVE  /\ d.nums # {}
         /\ d.loc = e.loc \/ d.nums \cap e.nums # {} => d = e
<1>1. PICK m \in S : d = [loc |-> f[m], nums |-> At(f, f[m], S)]
  BY DEF Grouped
<1>2. PICK n \in S : e = [loc |-> f[n], nums |-> At(f, f[n], S)]
  BY DEF Grouped
<1>3. m \in d.nums /\ d.loc = f[m] /\ e.loc = f[n]
  BY <1>1, <1>2 DEF At
<1>4. ASSUME NEW k \in d.nums \cap e.nums PROVE f[m] = f[n]
  BY <1>1, <1>2 DEF At
<1> QED
  BY <1>1, <1>2, <1>3, <1>4

\* Where the declarations of a message come from.
LEMMA DeclMade ==
  ASSUME IInv, [Next]_vars, NEW c \in Call, pc'[c] = "push" \/ mst'[c] # "none"
  PROVE  \/ Located(c)
         \/ decl'[c] = decl[c] /\ (pc[c] = "push" \/ mst[c] # "none")
<1> DEFINE Goal == \/ Located(c)
                   \/ decl'[c] = decl[c] /\ (pc[c] = "push" \/ mst[c] # "none")
<1> USE DEF IInv, TypeOK, PWTypeOK, Phases, Goto, Return
<1>1. ASSUME NEW d \in Call, Begin(d) PROVE Goal
  BY <1>1 DEF Begin, Start
<1>2. ASSUME NEW d \in Call, Located(d) PROVE Goal
  BY <1>2 DEF Located, Ready
<1>3. ASSUME NEW d \in Call, \/ Locate(d) \/ NotLocated(d) \/ Unavailable(d)
                             \/ Push(d) \/ Wait(d)
      PROVE  Goal
  BY <1>3 DEF Locate, NotLocated, Unavailable, Decline, Push, PushOk, PushFails,
    Wait, WaitOk, WaitExit, WaitFails, scvars, pwvars
<1>4. CASE Chain
  BY <1>4 DEF Chain, Extend, NotExecuted, Settle, Allocate, Prove, Move,
    Terminate, Become, scvars, pwvars
<1>5. CASE Table
  BY <1>5 DEF Table, Sum, ListLoad, ListAnswer, ListFails, NextPage, pwvars
<1>6. CASE DaemonCrash
  BY <1>6 DEF DaemonCrash, Crash, scvars
<1>7. CASE UNCHANGED vars
  BY <1>7 DEF vars, pwvars, scvars
<1> QED
  BY <1>1, <1>2, <1>3, <1>4, <1>5, <1>6, <1>7 DEF Next, Handler

THEOREM SCDeclaredOnce == Spec => []DeclaredOnce
<1>1. Init => DeclaredOnce
  BY DEF Init, PWInit, DeclaredOnce
<1>2. ASSUME IInv, DeclaredOnce, [Next]_vars PROVE DeclaredOnce'
  <2> SUFFICES ASSUME NEW c \in Call, pc'[c] = "push" \/ mst'[c] # "none",
                      NEW d \in decl'[c], NEW e \in decl'[c]
               PROVE  /\ d.nums # {}
                      /\ d.loc = e.loc \/ d.nums \cap e.nums # {} => d = e
    BY DEF DeclaredOnce
  <2>1. CASE Located(c)
    <3>1. decl'[c] = Grouped(found[c], req[c].nums)
      BY <1>2, <2>1 DEF Located, IInv, TypeOK
    <3> QED
      BY <3>1, GroupedOnce
  <2>2. CASE decl'[c] = decl[c] /\ (pc[c] = "push" \/ mst[c] # "none")
    BY <1>2, <2>2 DEF DeclaredOnce
  <2> QED
    BY <1>2, <2>1, <2>2, DeclMade
<1> QED
  BY <1>1, <1>2, Invariance, PTL DEF Spec

\* What SectorExtend has answered stays true.
THEOREM SCAnswersLast == Spec => PC!Lasting
  BY SCKeepsPromise, PromiseLasts DEF KeepsPromise
-----------------------------------------------------------------------------
(* Pages by rank. *)

LEMMA RankOrders ==
  ASSUME TypeOK, NEW m \in alloc, NEW n \in alloc, m # n
  PROVE  Rank(m) \in Nat /\ Rank(m) # Rank(n)
<1>1. /\ alloc \subseteq Num /\ Num \subseteq Nat
      /\ \A k \in alloc : Rank(k) \in Nat
  <2>1. alloc \subseteq Num /\ Num \subseteq Nat
    BY SectorsAssumption DEF TypeOK
  <2> QED
    BY <2>1, RankTypes DEF Rank
<1>2. ASSUME NEW a \in alloc, NEW b \in alloc, a < b PROVE Rank(a) < Rank(b)
  <2> DEFINE S == {k \in alloc : k < a}
             T == {k \in alloc : k < b}
  <2>1. S \subseteq T /\ T \subseteq Num /\ a \in T /\ a \notin S
    <3>1. a \in Nat /\ b \in Nat /\ \A k \in alloc : k \in Nat
      BY <1>1
    <3>2. \A k \in alloc : k < a => k < b
      BY <1>2, <3>1
    <3>3. ~(a < a)
      BY <3>1
    <3>4. S \subseteq T
      BY <3>2
    <3>5. T \subseteq alloc
      OBVIOUS
    <3> QED
      BY <1>1, <1>2, <3>3, <3>4, <3>5
  <2>2. IsFiniteSet(T) /\ Cardinality(T) \in Nat /\ Cardinality(S) \in Nat
    BY <2>1, RankTypes
  <2>3. Cardinality(S) <= Cardinality(T) /\ Cardinality(S) # Cardinality(T)
    BY <2>1, <2>2, FS_Subset
  <2> QED
    BY <2>2, <2>3 DEF Rank
<1>3. m < n \/ n < m
  BY <1>1
<1> QED
  BY <1>1, <1>2, <1>3

\* For every size of a page, whatever the numbers allocated, each of them is on one
\* page, and no page has more rows than its size (Nth and Next of the iterator in
\* SectorList, at the offset PageIndex * PageSize).
PagesPartition ==
  \A k \in Nat \ {0} :
    /\ \A n \in alloc : \E i \in Nat : n \in Page(i, k) /\ \A j \in Nat : n \in Page(j, k) => j = i
    /\ \A i \in Nat : Cardinality(Page(i, k)) <= k

THEOREM SCPagesPartition == Spec => []PagesPartition
<1>1. ASSUME TypeOK, NEW k \in Nat \ {0}, NEW n \in alloc
      PROVE  \E i \in Nat : n \in Page(i, k) /\ \A j \in Nat : n \in Page(j, k) => j = i
  <2> DEFINE r == Rank(n)
             i == r \div k
  <2>1. r \in Nat
    <3>1. {m \in alloc : m < n} \subseteq Num
      BY <1>1 DEF TypeOK
    <3> QED
      BY <3>1, RankTypes DEF Rank
  <2> HIDE DEF r
  <2>2. i \in Nat /\ k * i <= r /\ r < k * i + k
    <3> DEFINE q == r % k
    <3>1. i \in Nat /\ r = k * i + q /\ q \in Nat /\ q < k
      BY <2>1
    <3> HIDE DEF i, q
    <3>2. k * i \in Nat
      BY <3>1, Pages
    <3> QED
      BY <2>1, <3>1, <3>2
  <2> HIDE DEF i
  <2>3. n \in Page(i, k)
    BY <2>2 DEF Page, r
  <2>4. ASSUME NEW j \in Nat, n \in Page(j, k) PROVE j = i
    <3>1. k * j <= r /\ r < k * j + k
      BY <2>4 DEF Page, r
    <3>2. ASSUME NEW a \in Nat, NEW b \in Nat, a < b PROVE k * a + k <= k * b
      <4>1. PICK d \in Nat : b = (a + d) + 1
        <5>1. b - a - 1 \in Nat
          BY <3>2
        <5> QED
          BY <5>1
      <4>2. k * b = k * (a + d) + k
        BY <4>1, Pages
      <4>3. k * (a + d) = k * a + k * d /\ k * d \in Nat /\ k * a \in Nat
        BY <4>1
      <4> QED
        BY <4>2, <4>3
    <3>3. k * j \in Nat /\ k * i \in Nat
      BY <2>2
    <3>4. ~(j < i) /\ ~(i < j)
      BY <2>1, <2>2, <3>1, <3>2, <3>3
    <3> QED
      BY <2>2, <3>4
  <2> QED
    BY <2>2, <2>3, <2>4
<1>2. ASSUME TypeOK, NEW k \in Nat \ {0}, NEW i \in Nat
      PROVE  Cardinality(Page(i, k)) <= k
  <2> DEFINE lo == k * i
             Places == lo .. lo + k - 1
             place == [n \in Page(i, k) |-> Rank(n)]
  <2>1. lo \in Nat
    OBVIOUS
  <2> HIDE DEF lo
  <2>2. Page(i, k) \subseteq alloc /\ Page(i, k) \subseteq Num
    BY <1>2 DEF Page, TypeOK
  <2>3. \A n \in Page(i, k) : Rank(n) \in Places
    <3> SUFFICES ASSUME NEW n \in Page(i, k) PROVE Rank(n) \in Places
      OBVIOUS
    <3>1. {m \in alloc : m < n} \subseteq Num
      BY <1>2 DEF TypeOK
    <3>2. Rank(n) \in Nat
      BY <3>1, RankTypes DEF Rank
    <3>3. lo <= Rank(n) /\ Rank(n) < lo + k
      BY DEF Page, lo
    <3> QED
      BY <2>1, <3>2, <3>3
  <2>4. IsFiniteSet(Places) /\ Cardinality(Places) = k
    BY <2>1, FS_Interval
  <2>5. place \in Injection(Page(i, k), Places)
    <3>1. place \in [Page(i, k) -> Places]
      BY <2>3
    <3>2. \A m, n \in Page(i, k) : place[m] = place[n] => m = n
      BY <1>2, <2>2, RankOrders
    <3> QED
      BY <3>1, <3>2 DEF Injection, IsInjective
  <2> QED
    BY <2>4, <2>5, FS_Injection DEF ExistsInjection
<1>3. IInv => PagesPartition
  BY <1>1, <1>2 DEF IInv, PagesPartition
<1> QED
  BY <1>3, Invariance, PTL
=============================================================================
