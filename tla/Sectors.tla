------------------------------ MODULE Sectors ------------------------------
(***************************************************************************)
(* Sectors of one miner: SectorExtend, SectorList and SectorSum            *)
(* (service/impl_miner.go) with the extend command (cmd/cli/sector.go) and *)
(* the table of the dashboard (dashboard/src/component/sector-list.js).    *)
(*                                                                         *)
(* An extension finds the partition of each sector with a call of its own, *)
(* each at the head of its moment, and sends one message for all of them.  *)
(* The table asks for one page after the other, while numbers are          *)
(* allocated in any order: a page is a range of RANKS among the numbers    *)
(* allocated, so what is behind a page may move to the next one.           *)
(***************************************************************************)
EXTENDS PushWait, Integers, FiniteSets

CONSTANTS
  Num,         \* sector numbers
  Loc,         \* deadline and partition of a sector
  NoLoc,       \* not located
  Exp,         \* expirations
  Asked,       \* the extensions tried
  Alloc0, Sector0,  \* the numbers allocated and the sectors at the start
  Restless,    \* bound: the sectors that are proven, moved and terminated
  DefaultSize, \* rows of a page when none is asked for: 20
  BoardSize    \* rows of a page of the table: 100

Life == {"unproven", "live", "gone"}
Sector == [life : Life, exp : Nat, loc : Loc]

ASSUME SectorsAssumption ==
  /\ Num \subseteq Nat /\ IsFiniteSet(Num)
  /\ Exp \subseteq Nat
  /\ NoLoc \notin Loc
  /\ Asked \subseteq [nums : SUBSET Num, exp : Nat]
  /\ Alloc0 \subseteq Num /\ Restless \subseteq Num
  /\ Sector0 \in [Num -> Sector]
  /\ DefaultSize \in Nat \ {0} /\ BoardSize \in Nat \ {0}

Request == [nums : SUBSET Num, exp : Nat]
NoRequest == [nums |-> {}, exp |-> 0]

VARIABLES
  req,     \* the extension each call asks for
  found,   \* where its handler has found each of its sectors
  decl,    \* the declarations of its message
  alloc,   \* numbers allocated, which are never given back
  sector,  \* what the chain knows of each number
  board    \* the table of the dashboard

scvars == <<req, found, decl, alloc, sector, board>>
vars == <<pwvars, scvars>>

\* The table: the total it has got, 0 before; the page it is at, and whether it
\* has asked for it, got it, or is waiting for an answer whose handler has
\* loaded the state; the rows of that answer.  History: the numbers that were
\* allocated when the total was taken, those shown since, those shown on two
\* pages, whether only greater numbers have been allocated, and the extensions
\* that had been answered with success when the page was asked for.
Board == [at : {"ask", "loaded", "shown"}, total : Nat, page : Nat,
          state : [Num -> Nat], rows : SUBSET Num,
          begun : SUBSET Num, seen : SUBSET Num, twice : SUBSET Num,
          rising : BOOLEAN, told : SUBSET Call]

TypeOK == /\ PWTypeOK
          /\ req \in [Call -> Request]
          /\ found \in [Call -> [Num -> Loc \cup {NoLoc}]]
          /\ decl \in [Call -> SUBSET [loc : Loc, nums : SUBSET Num]]
          /\ alloc \subseteq Num
          /\ sector \in [Num -> Sector]
          /\ board \in Board

Nowhere == [n \in Num |-> NoLoc]
Nothing == [n \in Num |-> 0]

\* The table asks for page i.
AskFor(b, i) == [b EXCEPT !.at = "ask", !.page = i, !.state = Nothing,
                          !.rows = {}, !.told = {}]

Init == /\ PWInit
        /\ req = [c \in Call |-> NoRequest]
        /\ found = [c \in Call |-> Nowhere]
        /\ decl = [c \in Call |-> {}]
        /\ alloc = Alloc0
        /\ sector = Sector0
        /\ board = [at |-> "ask", total |-> 0, page |-> 0,
                    state |-> Nothing, rows |-> {},
                    begun |-> {}, seen |-> {}, twice |-> {},
                    rising |-> TRUE, told |-> {}]
-----------------------------------------------------------------------------
(* SectorExtend. *)

Begin(c) == /\ Start(c)
            /\ \E r \in Asked : req' = [req EXCEPT ![c] = r]
            /\ UNCHANGED <<found, decl, alloc, sector, board>>

Unlocated(c) == {n \in req[c].nums : found[c][n] = NoLoc}

\* StateSectorPartition: a terminated sector stays in its partition until the
\* partition is compacted.
Locate(c) == /\ pc[c] = "read"
             /\ \E n \in Unlocated(c) :
                  /\ sector[n].life # "unproven"
                  /\ found' = [found EXCEPT ![c][n] = sector[n].loc]
             /\ UNCHANGED <<pwvars, req, decl, alloc, sector, board>>

NotLocated(c) == /\ \E n \in Unlocated(c) : sector[n].life # "live"
                 /\ Decline(c, "refused")
                 /\ UNCHANGED scvars

Unavailable(c) == Decline(c, "unavailable") /\ UNCHANGED scvars

At(f, l, S) == {n \in S : f[n] = l}

\* Mutant: a sector takes the place of the one before it at its location.
GroupedLast(f, S) == {[loc |-> f[n], nums |-> {n}] :
                        n \in {m \in S : \A o \in At(f, f[m], S) : o <= m}}

\* One declaration for each location.
Grouped(f, S) == {[loc |-> l, nums |-> At(f, l, S)] : l \in {f[n] : n \in S}}

\* Mutant: a partition that is not found is not an error.
LocatedNowhere(c) == /\ pc[c] = "read"
                     /\ decl' = [decl EXCEPT ![c] = Grouped(found[c], req[c].nums)]
                     /\ Ready(c)
                     /\ UNCHANGED <<req, found, alloc, sector, board>>

\* All are located, and StateMinerInfo has named the worker.
Located(c) == /\ pc[c] = "read" /\ Unlocated(c) = {}
              /\ decl' = [decl EXCEPT ![c] = Grouped(found[c], req[c].nums)]
              /\ Ready(c)
              /\ UNCHANGED <<req, found, alloc, sector, board>>

\* The errors of PushMessageAndWait are returned as they are.
Push(c) == (PushOk(c) \/ PushFails(c, "doubt")) /\ UNCHANGED scvars

\* Mutant: the exit code is not looked at.
WaitAnswered(c) == /\ WaitOk(c) \/ WaitAnyExit(c) \/ WaitFails(c, "doubt")
                   /\ UNCHANGED scvars

Wait(c) == /\ WaitOk(c) \/ WaitExit(c) \/ WaitFails(c, "doubt")
           /\ UNCHANGED scvars
-----------------------------------------------------------------------------
(* SectorList and SectorSum, as the table uses them. *)

\* PageSize of the request: all of them when one page holds the total, and 0
\* before there is one.
Wanted == IF board.total > BoardSize THEN BoardSize ELSE board.total

Size == IF Wanted = 0 THEN DefaultSize ELSE Wanted

Rank(n) == Cardinality({m \in alloc : m < n})

\* Mutant: the page starts one number late.
PageShifted(i, k) == {n \in alloc : k * i < Rank(n) /\ Rank(n) <= k * i + k}

\* Mutant: the page takes one number more.
PageLonger(i, k) == {n \in alloc : k * i <= Rank(n) /\ Rank(n) <= k * i + k}

\* Nth and Next of the iterator over the numbers allocated.
Page(i, k) == {n \in alloc : k * i <= Rank(n) /\ Rank(n) < k * i + k}

\* The total of the table is set once, when SectorSum answers and it has none;
\* the page it has asked for meanwhile is asked for again.  Nothing is shown
\* while there are no sectors.
Sum == /\ board.total = 0 /\ alloc # {}
       /\ board' = [AskFor(board, 0) EXCEPT !.total = Cardinality(alloc),
                                            !.begun = alloc, !.rising = TRUE]
       /\ UNCHANGED <<pwvars, req, found, decl, alloc, sector>>

\* StateGetActor: from here on the sectors are those of this state ...
ListLoad == /\ board.at = "ask"
            /\ board' = [board EXCEPT !.at = "loaded",
                                      !.state = [n \in Num |-> sector[n].exp],
                                      !.told = {c \in Call : ans[c] = "ok"}]
            /\ UNCHANGED <<pwvars, req, found, decl, alloc, sector>>

\* ... and StateMinerAllocated is of a later one: a number without a sector in
\* the first is a row that says nothing else.  What is shown before the total
\* is known is not part of the tour of the pages.
ListAnswer ==
  /\ board.at = "loaded"
  /\ LET rows == Page(board.page, Size)
         tour == IF board.total = 0 THEN {} ELSE rows
     IN  board' = [board EXCEPT !.at = "shown", !.rows = rows,
                                !.seen = @ \cup tour,
                                !.twice = @ \cup (board.seen \cap tour)]
  /\ UNCHANGED <<pwvars, req, found, decl, alloc, sector>>

\* The answer is an error, and the page is asked for again.
ListFails == /\ board.at = "loaded"
             /\ board' = AskFor(board, board.page)
             /\ UNCHANGED <<pwvars, req, found, decl, alloc, sector>>

LastPage == (board.total - 1) \div BoardSize

\* The reader goes to the next page of the table.
NextPage == /\ board.at = "shown" /\ board.total > 0 /\ board.page < LastPage
            /\ board' = AskFor(board, board.page + 1)
            /\ UNCHANGED <<pwvars, req, found, decl, alloc, sector>>

Table == Sum \/ ListLoad \/ ListAnswer \/ ListFails \/ NextPage
-----------------------------------------------------------------------------
(* The chain. *)

\* ExtendSectorExpiration takes all of its declarations or none: each names a
\* partition, and sectors that are live there and expire no later.
Accepted(c) == \A d \in decl[c] : \A n \in d.nums :
                 /\ sector[n].life = "live" /\ sector[n].loc = d.loc
                 /\ sector[n].exp <= req[c].exp

Declared(c) == UNION {d.nums : d \in decl[c]}

Extend(c) == /\ Accepted(c)
             /\ Settle(c, "ok")
             /\ sector' = [n \in Num |-> IF n \in Declared(c)
                                           THEN [sector[n] EXCEPT !.exp = req[c].exp]
                                           ELSE sector[n]]
             /\ UNCHANGED <<req, found, decl, alloc, board>>

NotExecuted(c) == /\ Settle(c, "error") \/ Settle(c, "failed")
                  /\ UNCHANGED scvars

\* The miner allocates a number of its choice.
Allocate(n) == /\ n \notin alloc
               /\ alloc' = alloc \cup {n}
               /\ board' = [board EXCEPT !.rising = @ /\ \A m \in alloc : m < n]
               /\ UNCHANGED <<pwvars, req, found, decl, sector>>

Become(n, s) == /\ sector' = [sector EXCEPT ![n] = s]
                /\ UNCHANGED <<pwvars, req, found, decl, alloc, board>>

Prove(n) == /\ n \in alloc /\ sector[n].life = "unproven"
            /\ \E e \in Exp, l \in Loc :
                 Become(n, [life |-> "live", exp |-> e, loc |-> l])

\* A partition is compacted.
Move(n) == /\ sector[n].life = "live"
           /\ \E l \in Loc : Become(n, [sector[n] EXCEPT !.loc = l])

Terminate(n) == /\ sector[n].life = "live"
                /\ Become(n, [sector[n] EXCEPT !.life = "gone", !.exp = 0])

DaemonCrash == Crash /\ UNCHANGED scvars
-----------------------------------------------------------------------------
Handler(c) == \/ Locate(c) \/ NotLocated(c) \/ Unavailable(c) \/ Located(c)
              \/ Push(c) \/ Wait(c)

Chain == \/ \E c \in Call : Extend(c) \/ NotExecuted(c)
         \/ \E n \in Num : Allocate(n)
         \/ \E n \in Restless : Prove(n) \/ Move(n) \/ Terminate(n)

Next == \/ \E c \in Call : Begin(c) \/ Handler(c)
        \/ Table \/ Chain \/ DaemonCrash

Spec == Init /\ [][Next]_vars
-----------------------------------------------------------------------------
(* Properties. *)

\* The message of an extension extends every sector asked for and nothing else,
\* however its sectors were found: one at a time, at different heads, in
\* partitions that may have changed by the time it is executed (SectorExtend
\* grouping by location).
ExtendStep(c) ==
  mst[c] = "pooled" /\ mst'[c] = "ok" =>
    \A n \in Num : sector'[n] = IF n \in req[c].nums
                                  THEN [sector[n] EXCEPT !.exp = req[c].exp]
                                  ELSE sector[n]

ExtendsWhatWasAsked == [][\A c \in Call : ExtendStep(c)]_vars

\* A page asked for after an extension was answered with success does not show
\* a sector of it with an earlier expiration (PushMessageAndWait before the
\* answer, SectorList loading the state after the request).
ExtendedIsListed ==
  board.at = "shown" =>
    \A c \in board.told : \A n \in board.rows \cap req[c].nums :
      board.state[n] = 0 \/ board.state[n] >= req[c].exp

Passed == IF board.at = "shown" THEN board.page + 1 ELSE board.page

\* The rows left on the pages of the table when its total was taken.
Room == (LastPage + 1) * Size - board.total

\* Whoever goes through the pages in order, which are as many as there were when
\* the total was taken, misses of the numbers allocated then only what is pushed
\* out at the end.  A number not shown yet is on a page the table still offers,
\* unless more smaller numbers have been allocated since than its last page had
\* room for; on a page left behind it never is.  So whoever has seen the last page
\* while only greater numbers were allocated has seen them all.
PagesMissNothing ==
  board.total > 0 =>
    /\ \A n \in board.begun \ board.seen :
         /\ Rank(n) >= Passed * Size
         /\ \/ Rank(n) < (LastPage + 1) * Size
            \/ Cardinality({m \in alloc \ board.begun : m < n}) > Room
    /\ board.rising /\ Passed > LastPage => board.begun \subseteq board.seen

\* While only greater numbers are allocated no sector is shown on two pages.
PagesRepeatNothing == board.rising => board.twice = {}
=============================================================================
