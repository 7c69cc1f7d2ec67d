--------------------------- MODULE MultisigProof ---------------------------
(***************************************************************************)
(* What Multisig keeps for every set of calls, of signers and of requests, *)
(* and for any number of reorganisations.  The argument: every state of    *)
(* the multisig from the final one to the head comes from the one before   *)
(* it by a message of somebody, so whatever is in it was asked for by a    *)
(* message executed up to there, and stays asked for when it gets final.   *)
(***************************************************************************)
EXTENDS Multisig, PushWaitProof, FiniteSetTheorems, SequenceTheorems

\* The multisig as the k-th message after the final state leaves it.
At(k) == IF k = 0 THEN msig ELSE tip[k].after

Height == 0..Len(tip)

\* The message of c was executed, at the latest by the k-th.
Done(c, k) == /\ rcpt[c].code = "ok"
              /\ mst[c] = "ok" \/ \E j \in 1..k : tip[j].by = c

\* Numbers are given in order, to operations.
Numbered(s) == \A n \in Num :
                 /\ s.txns[n].fate # "none" => n < s.next
                 /\ n < s.next => s.txns[n].op \in Op
                 /\ n >= s.next => \A i \in Id : s.txns[n].votes[i] = 0

\* An operation keeps its number.
Later(s, t) == /\ s.next <= t.next
               /\ \A n \in Num : n < s.next => t.txns[n].op = s.txns[n].op

\* Who voted, and what would change the signers, as asked for by then.
VotesAsked(k) == \A n \in Num, i \in Id \ Outside :
                   At(k).txns[n].votes[i] > 0 =>
                     \E c \in Call : Done(c, k) /\ Asked(c, i, n)

OpsAsked(k) == \A n \in Num :
                 n < At(k).next =>
                   \/ At(k).txns[n].op.do = "send"
                   \/ \E c \in Call : /\ Done(c, k) /\ req[c].kind \in Proposing
                                      /\ At(k).txns[n].op = OpOf(req[c])

StepAsked(k) == \/ SignersSame(At(k - 1), At(k))
                \/ \E c \in Call : Done(c, k) /\ Change(req[c], At(k - 1), At(k))

Own(k) == \A c \in Call :
            Done(c, k) /\ req[c].kind \in Proposing =>
              /\ rcpt[c].num < At(k).next
              /\ At(k).txns[rcpt[c].num].op = OpOf(req[c])

Holds(k) == /\ Numbered(At(k)) /\ VotesAsked(k) /\ OpsAsked(k) /\ Own(k)
            /\ k > 0 => StepAsked(k)
            /\ \A j \in 0..k : Later(At(j), At(k))

Chained == \A k \in Height : Holds(k)

\* A receipt is of a message that is in a block, or final.
Received ==
  /\ \A k \in 1..Len(tip), c \in Call : tip[k].by = c => rcpt[c].code # "none"
  /\ \A c \in Call :
       /\ rcpt[c].code # "none" => /\ mst[c] \in {"pooled", rcpt[c].code}
                                  /\ req[c].kind # "create"
       /\ rcpt[c].code = "ok" => Done(c, Len(tip))
       /\ mst[c] \in {"ok", "error"} /\ req[c].kind # "create" =>
            rcpt[c].code = mst[c]
       /\ ans[c] = "ok" /\ req[c].kind \in Proposing =>
            mst[c] = "ok" /\ told[c] = rcpt[c]

\* The messages in flight are what the handlers checked.
Committed(c) == pc[c] = "push" \/ mst[c] # "none"

TooMany(r) == Len(r.signers) > MaxSigners

Checked == \A c \in Call : Committed(c) =>
             /\ req[c].kind = "create" /\ ~TooMany(req[c]) => CreateTakes(req[c])
             /\ req[c].kind \in {"add", "remove"} => IdOf[req[c].signer] # NoAddr

\* Two proposals have two numbers.
Distinct == \A c, d \in Call :
              (/\ c # d /\ rcpt[c].code = "ok" /\ rcpt[d].code = "ok"
               /\ req[c].kind \in Proposing /\ req[d].kind \in Proposing)
              => rcpt[c].num # rcpt[d].num

\* What the operator saw under a number still has it.
SawRight ==
  \A c \in Call : steady[c] /\ saw[c] # NoOp /\ req[c].kind \in Voting =>
    /\ rcpt[c].code = "none" => /\ req[c].tx < Latest.next
                                /\ Latest.txns[req[c].tx].op = saw[c]
    /\ rcpt[c].code = "ok" => rcpt[c].op = saw[c]

IInv == TypeOK /\ Phases /\ Chained /\ Received /\ Checked /\ Distinct /\ SawRight

-----------------------------------------------------------------------------
(* The actor: what a message makes of a multisig. *)

\* Nothing new: the operations have their numbers, and nobody has voted.
Keeps(s, t) ==
  /\ t \in Msig /\ t.next = s.next
  /\ \A n \in Num :
       /\ t.txns[n].op = s.txns[n].op
       /\ t.txns[n].fate # "none" => s.txns[n].fate # "none"
       /\ \A i \in Id : t.txns[n].votes[i] > 0 => s.txns[n].votes[i] > 0

\* t has the signers that op makes of those of s.
Gives(op, s, t) ==
  \/ op.do = "send" /\ SignersSame(s, t)
  \/ /\ op.do = "add" /\ op.who \notin s.signers
     /\ t.signers = s.signers \cup {op.who}
     /\ t.threshold = IF op.alter THEN s.threshold + 1 ELSE s.threshold
  \/ /\ op.do = "remove" /\ Acceptable(s, op) /\ op.who \in s.signers
     /\ t.signers = s.signers \ {op.who}
     /\ t.threshold = IF op.alter THEN s.threshold - 1 ELSE s.threshold
  \/ /\ op.do = "swap" /\ op.old \in s.signers /\ op.new \notin s.signers
     /\ t.signers = (s.signers \ {op.old}) \cup {op.new}
     /\ t.threshold = s.threshold

LEMMA NumInt == Num \subseteq Nat
  BY MultisigAssumption DEF Num

LEMMA VotesCounted ==
  ASSUME NEW s \in Msig, NEW n \in Num
  PROVE  Cardinality(Votes(s.txns[n])) \in Nat
<1>1. IsFiniteSet(Votes(s.txns[n]))
  BY FS_Subset, MultisigAssumption DEF Votes
<1> QED
  BY <1>1, FS_CardinalityType

LEMMA WithoutKeeps ==
  ASSUME NEW s \in Msig, NEW i \in Id
  PROVE  /\ Keeps(s, Without(s, i))
         /\ Without(s, i).signers = s.signers \ {i}
         /\ Without(s, i).threshold = s.threshold
<1>1. ASSUME NEW n \in Num
      PROVE  /\ Purge(s.txns[n], i) \in Txn
             /\ Purge(s.txns[n], i).op = s.txns[n].op
             /\ Purge(s.txns[n], i).fate # "none" => s.txns[n].fate # "none"
             /\ \A j \in Id : Purge(s.txns[n], i).votes[j] > 0
                             => s.txns[n].votes[j] > 0
  <2> DEFINE t == s.txns[n]
             v == [j \in Id |-> CASE j = i -> 0
                                  [] t.votes[j] > t.votes[i] -> t.votes[j] - 1
                                  [] OTHER -> t.votes[j]]
             f == IF \A j \in Id : v[j] = 0 THEN "dropped" ELSE "open"
  <2>1. t \in Txn
    BY DEF Msig
  <2>2. t.votes \in [Id -> Nat] /\ t.fate \in Fate /\ t.op \in Op \cup {NoOp}
    BY <2>1 DEF Txn
  <2>3. \A j \in Id : v[j] \in Nat /\ (v[j] > 0 => t.votes[j] > 0)
    BY <2>2
  <2>4. v \in [Id -> Nat]
    BY <2>3
  <2>5. Purge(t, i) = IF t.fate # "open" \/ t.votes[i] = 0 THEN t
                      ELSE [t EXCEPT !.votes = v, !.fate = f]
    BY DEF Purge
  <2>6. CASE t.fate # "open" \/ t.votes[i] = 0
    BY <2>1, <2>5, <2>6
  <2>7. CASE ~(t.fate # "open" \/ t.votes[i] = 0)
    <3> HIDE DEF v, t
    <3>1. Purge(t, i) = [t EXCEPT !.votes = v, !.fate = f] /\ t.fate = "open"
      BY <2>5, <2>7
    <3>2. f \in Fate
      BY DEF Fate
    <3>3. Purge(t, i) \in Txn /\ Purge(t, i).op = t.op /\ Purge(t, i).votes = v
      BY <3>1, <3>2, <2>1, <2>4 DEF Txn
    <3> QED
      BY <3>1, <3>3, <2>3 DEF t
  <2> QED
    BY <2>6, <2>7
<1>2. \A n \in Num : Without(s, i).txns[n] = Purge(s.txns[n], i)
  BY DEF Without, Msig
<1>3. /\ Without(s, i).signers = s.signers \ {i}
      /\ Without(s, i).threshold = s.threshold
      /\ Without(s, i).next = s.next
  BY DEF Without, Msig
<1>4. Without(s, i) \in Msig
  BY <1>1 DEF Without, Msig
<1> QED
  BY <1>1, <1>2, <1>3, <1>4 DEF Keeps

LEMMA EffectKeeps ==
  ASSUME NEW s \in Msig, NEW op \in Op, Acceptable(s, op)
  PROVE  Keeps(s, Effect(s, op)) /\ Gives(op, s, Effect(s, op))
<1>1. s.signers \in SUBSET Id /\ s.threshold \in Nat
  BY DEF Msig
<1>2. CASE op.do = "send"
  <2>1. Effect(s, op) = s
    BY <1>2 DEF Effect
  <2> QED
    BY <1>2, <2>1 DEF Keeps, Gives, SignersSame
<1>3. CASE op.do = "add"
  <2>1. op.who \in Id /\ op.who \notin s.signers
    BY <1>3 DEF Op, Acceptable
  <2>2. Effect(s, op) = [s EXCEPT !.signers = @ \cup {op.who},
                                  !.threshold = IF op.alter THEN @ + 1 ELSE @]
    BY <1>3 DEF Effect
  <2> DEFINE h == IF op.alter THEN s.threshold + 1 ELSE s.threshold
  <2>3. h \in Nat /\ s.signers \cup {op.who} \in SUBSET Id
    BY <1>1, <2>1
  <2>4. Effect(s, op) = [s EXCEPT !.signers = s.signers \cup {op.who}, !.threshold = h]
    BY <2>2
  <2> HIDE DEF h
  <2>5. Effect(s, op) \in Msig
    BY <2>3, <2>4 DEF Msig
  <2>6. /\ Effect(s, op).txns = s.txns /\ Effect(s, op).next = s.next
        /\ Effect(s, op).signers = s.signers \cup {op.who}
        /\ Effect(s, op).threshold = h
    BY <2>4 DEF Msig
  <2> QED
    BY <1>3, <2>1, <2>5, <2>6 DEF Keeps, Gives, h
<1>4. CASE op.do = "remove"
  <2>1. op.who \in Id /\ op.who \in s.signers /\ (op.alter => s.threshold > 1)
    BY <1>4 DEF Op, Acceptable
  <2> DEFINE w == Without(s, op.who)
  <2>2. Effect(s, op) = [w EXCEPT !.threshold = IF op.alter THEN @ - 1 ELSE @]
    BY <1>4 DEF Effect
  <2>3. /\ Keeps(s, w) /\ w.signers = s.signers \ {op.who}
        /\ w.threshold = s.threshold
    BY <2>1, WithoutKeeps
  <2> HIDE DEF w
  <2>4. w \in Msig
    BY <2>3 DEF Keeps
  <2>5. Effect(s, op) \in Msig
    BY <1>1, <2>1, <2>2, <2>3, <2>4 DEF Msig
  <2>6. /\ Effect(s, op).txns = w.txns /\ Effect(s, op).next = w.next
        /\ Effect(s, op).signers = w.signers
        /\ Effect(s, op).threshold = IF op.alter THEN s.threshold - 1 ELSE s.threshold
    BY <2>2, <2>3, <2>4 DEF Msig
  <2> QED
    BY <1>4, <2>1, <2>3, <2>5, <2>6 DEF Keeps, Gives
<1>5. CASE op.do = "swap"
  <2>1. op.old \in Id /\ op.new \in Id /\ op.old \in s.signers /\ op.new \notin s.signers
    BY <1>5 DEF Op, Acceptable
  <2> DEFINE w == Without(s, op.old)
  <2>2. Effect(s, op) = [w EXCEPT !.signers = @ \cup {op.new}]
    BY <1>5 DEF Effect
  <2>3. /\ Keeps(s, w) /\ w.signers = s.signers \ {op.old}
        /\ w.threshold = s.threshold
    BY <2>1, WithoutKeeps
  <2> HIDE DEF w
  <2>4. w \in Msig
    BY <2>3 DEF Keeps
  <2>5. Effect(s, op) \in Msig
    BY <1>1, <2>1, <2>2, <2>3, <2>4 DEF Msig
  <2>6. /\ Effect(s, op).txns = w.txns /\ Effect(s, op).next = w.next
        /\ Effect(s, op).signers = w.signers \cup {op.new}
        /\ Effect(s, op).threshold = s.threshold
    BY <2>2, <2>3, <2>4 DEF Msig
  <2> QED
    BY <1>5, <2>1, <2>3, <2>5, <2>6 DEF Keeps, Gives
<1> QED
  BY <1>2, <1>3, <1>4, <1>5 DEF Op

LEMMA EndKeeps ==
  ASSUME NEW s \in Msig, NEW n \in Num, NEW f \in Fate, s.txns[n].fate # "none"
  PROVE  Keeps(s, End(s, n, f)) /\ SignersSame(s, End(s, n, f))
<1>1. s.txns \in [Num -> Txn]
  BY DEF Msig
<1> DEFINE t == [s.txns[n] EXCEPT !.fate = f]
<1>2. t \in Txn /\ t.op = s.txns[n].op /\ t.votes = s.txns[n].votes /\ t.fate = f
  BY <1>1 DEF Txn
<1>3. End(s, n, f) = [s EXCEPT !.txns = [s.txns EXCEPT ![n] = t]]
  BY DEF End
<1> HIDE DEF t
<1>4. End(s, n, f) \in Msig
  BY <1>1, <1>2, <1>3 DEF Msig
<1>5. /\ End(s, n, f).next = s.next /\ SignersSame(s, End(s, n, f))
      /\ \A k \in Num : End(s, n, f).txns[k] = IF k = n THEN t ELSE s.txns[k]
  BY <1>1, <1>3 DEF Msig, SignersSame
<1> QED
  BY <1>2, <1>4, <1>5 DEF Keeps

LEMMA KeepsBoth == ASSUME NEW s, NEW t, NEW u, Keeps(s, t), Keeps(t, u)
                   PROVE  Keeps(s, u)
  BY DEF Keeps

LEMMA RunKeeps ==
  ASSUME NEW s \in Msig, NEW n \in Num, s.txns[n].fate # "none", s.txns[n].op \in Op
  PROVE  /\ Keeps(s, Run(s, n))
         /\ SignersSame(s, Run(s, n)) \/ Gives(s.txns[n].op, s, Run(s, n))
<1> DEFINE op == s.txns[n].op
<1>1. CASE ~Enough(s, n)
  <2>1. Run(s, n) = s
    BY <1>1 DEF Run
  <2> QED
    BY <2>1 DEF Keeps, SignersSame
<1>2. CASE Enough(s, n) /\ ~Acceptable(s, op)
  <2>1. Run(s, n) = End(s, n, "refused")
    BY <1>2 DEF Run
  <2> QED
    BY <2>1, EndKeeps DEF Fate
<1>3. CASE Enough(s, n) /\ Acceptable(s, op)
  <2> DEFINE e == End(s, n, "applied")
  <2>1. Run(s, n) = Effect(e, op)
    BY <1>3 DEF Run
  <2>2. Keeps(s, e) /\ SignersSame(s, e)
    BY EndKeeps DEF Fate
  <2> HIDE DEF e
  <2>3. e \in Msig /\ Acceptable(e, op)
    BY <1>3, <2>2 DEF Keeps, Acceptable, SignersSame
  <2>4. Keeps(e, Effect(e, op)) /\ Gives(op, e, Effect(e, op))
    BY <2>3, EffectKeeps
  <2>5. Gives(op, s, Effect(e, op))
    BY <2>2, <2>4 DEF Gives, SignersSame, Acceptable
  <2> QED
    BY <2>1, <2>2, <2>4, <2>5, KeepsBoth
<1> QED
  BY <1>1, <1>2, <1>3

\* t comes from s by a message of i about the proposal n.
Moves(s, t, n, i) ==
  /\ t \in Msig /\ Numbered(t) /\ Later(s, t) /\ n < t.next
  /\ \A k \in Num, j \in Id :
       t.txns[k].votes[j] > 0 => s.txns[k].votes[j] > 0 \/ (k = n /\ j = i)
  /\ \A k \in Num : k < t.next /\ k # n => k < s.next
  /\ SignersSame(s, t) \/ Gives(t.txns[n].op, s, t)

LEMMA VoteAdds ==
  ASSUME NEW s \in Msig, NEW n \in Num, NEW i \in Id
  PROVE  LET t == Vote(s, n, i)
         IN  /\ t \in Msig /\ t.next = s.next /\ SignersSame(s, t)
             /\ \A k \in Num :
                  /\ t.txns[k].op = s.txns[k].op
                  /\ t.txns[k].fate = s.txns[k].fate
                  /\ \A j \in Id : t.txns[k].votes[j] > 0
                                  => s.txns[k].votes[j] > 0 \/ (k = n /\ j = i)
<1> DEFINE size == Cardinality(Votes(s.txns[n])) + 1
           v == [s.txns[n].votes EXCEPT ![i] = size]
           x == [s.txns[n] EXCEPT !.votes = v]
<1>1. size \in Nat
  BY VotesCounted
<1>2. s.txns \in [Num -> Txn] /\ s.txns[n].votes \in [Id -> Nat]
  BY DEF Msig, Txn
<1>3. Vote(s, n, i) = [s EXCEPT !.txns = [s.txns EXCEPT ![n] = x]]
  BY DEF Vote
<1> HIDE DEF size
<1>4. v \in [Id -> Nat] /\ \A j \in Id : j # i => v[j] = s.txns[n].votes[j]
  BY <1>1, <1>2
<1> HIDE DEF v
<1>5. x \in Txn /\ x.votes = v /\ x.op = s.txns[n].op /\ x.fate = s.txns[n].fate
  BY <1>2, <1>4 DEF Txn
<1> HIDE DEF x
<1>6. Vote(s, n, i) \in Msig
  BY <1>2, <1>3, <1>5 DEF Msig
<1>7. /\ Vote(s, n, i).next = s.next /\ SignersSame(s, Vote(s, n, i))
      /\ \A k \in Num : Vote(s, n, i).txns[k] = IF k = n THEN x ELSE s.txns[k]
  BY <1>2, <1>3 DEF Msig, SignersSame
<1> QED
  BY <1>4, <1>5, <1>6, <1>7

LEMMA ProposeMoves ==
  ASSUME NEW s \in Msig, Numbered(s), NEW i \in Id, NEW op \in Op, s.next \in Num
  PROVE  LET t == Propose(s, i, op)
         IN  Moves(s, t, s.next, i) /\ t.txns[s.next].op = op /\ t.next = s.next + 1
<1> DEFINE n == s.next
           x == [op |-> op, votes |-> [j \in Id |-> 0], fate |-> "open"]
           a == [s EXCEPT !.next = @ + 1, !.txns[s.next] = x]
           b == Vote(a, n, i)
           t == Run(b, n)
<1>1. Propose(s, i, op) = t
  BY DEF Propose
<1>2. n \in Nat /\ s.txns \in [Num -> Txn]
  BY NumInt DEF Msig
<1>3. x \in Txn /\ x.op = op /\ x.fate = "open" /\ \A j \in Id : x.votes[j] = 0
  BY DEF Txn, Fate
<1>4. a = [s EXCEPT !.next = n + 1, !.txns = [s.txns EXCEPT ![n] = x]]
  OBVIOUS
<1> HIDE DEF x, a
<1>5. a \in Msig /\ a.next = n + 1 /\ SignersSame(s, a)
      /\ \A k \in Num : a.txns[k] = IF k = n THEN x ELSE s.txns[k]
  <2> DEFINE z == [s.txns EXCEPT ![n] = x]
  <2>1. z \in [Num -> Txn] /\ \A k \in Num : z[k] = IF k = n THEN x ELSE s.txns[k]
    BY <1>2, <1>3
  <2> HIDE DEF z
  <2>2. n + 1 \in Nat /\ a = [s EXCEPT !.next = n + 1, !.txns = z]
    BY <1>2, <1>4 DEF z
  <2> HIDE DEF n
  <2> QED
    BY <2>1, <2>2 DEF Msig, SignersSame
<1>7. /\ b \in Msig /\ b.next = n + 1 /\ SignersSame(s, b)
      /\ b.txns[n].op = op /\ b.txns[n].fate = "open"
      /\ \A k \in Num : k # n => /\ b.txns[k].op = s.txns[k].op
                                /\ b.txns[k].fate = s.txns[k].fate
      /\ \A k \in Num, j \in Id :
           b.txns[k].votes[j] > 0 =>
             (k # n /\ s.txns[k].votes[j] > 0) \/ (k = n /\ j = i)
  <2>1. /\ b \in Msig /\ b.next = a.next /\ SignersSame(a, b)
        /\ \A k \in Num :
             /\ b.txns[k].op = a.txns[k].op
             /\ b.txns[k].fate = a.txns[k].fate
             /\ \A j \in Id : b.txns[k].votes[j] > 0
                             => a.txns[k].votes[j] > 0 \/ (k = n /\ j = i)
    <3> HIDE DEF n
    <3>1. n \in Num
      BY DEF n
    <3> QED
      BY <1>5, <3>1, VoteAdds
  <2> HIDE DEF b
  <2> QED
    BY <2>1, <1>3, <1>5 DEF SignersSame
<1> HIDE DEF b
<1>8. Keeps(b, t) /\ (SignersSame(b, t) \/ Gives(op, b, t))
  BY <1>7, RunKeeps
<1> HIDE DEF t
<1>9. SignersSame(s, t) \/ Gives(op, s, t)
  BY <1>7, <1>8 DEF SignersSame, Gives, Acceptable
<1>10. t \in Msig /\ t.next = n + 1 /\ t.txns[n].op = op
  BY <1>7, <1>8 DEF Keeps
<1>11. Num \subseteq Nat
  BY NumInt
<1>12. Later(s, t)
  BY <1>2, <1>7, <1>8, <1>10, <1>11 DEF Later, Keeps
<1>13. \A k \in Num : k < n + 1 /\ k # n => k < n
  BY <1>2, <1>11
<1>14. Numbered(t)
  <2>1. ASSUME NEW k \in Num, t.txns[k].fate # "none" PROVE k < n + 1
    BY <2>1, <1>2, <1>7, <1>8, <1>11 DEF Keeps, Numbered
  <2>2. ASSUME NEW k \in Num, k < n + 1 PROVE t.txns[k].op \in Op
    BY <2>2, <1>7, <1>8, <1>10, <1>13 DEF Keeps, Numbered
  <2>3. ASSUME NEW k \in Num, k >= n + 1, NEW j \in Id PROVE t.txns[k].votes[j] = 0
    <3>1. k # n /\ k >= n
      BY <2>3, <1>2, <1>11
    <3>2. s.txns[k].votes[j] = 0 /\ t.txns[k].votes[j] \in Nat
      BY <3>1, <1>10 DEF Numbered, Msig, Txn
    <3> QED
      BY <3>1, <3>2, <1>7, <1>8 DEF Keeps
  <2> QED
    BY <2>1, <2>2, <2>3, <1>10 DEF Numbered
<1>15. \A k \in Num, j \in Id :
         t.txns[k].votes[j] > 0 => s.txns[k].votes[j] > 0 \/ (k = n /\ j = i)
  BY <1>7, <1>8 DEF Keeps
<1>16. n < t.next
  BY <1>2, <1>10
<1> QED
  BY <1>1, <1>9, <1>10, <1>12, <1>13, <1>14, <1>15, <1>16 DEF Moves

\* What keeps everything but one vote is a move.
LEMMA KeptMoves ==
  ASSUME NEW s \in Msig, Numbered(s), NEW n \in Num, n < s.next, NEW i \in Id,
         NEW t \in Msig, t.next = s.next,
         \A k \in Num : /\ t.txns[k].op = s.txns[k].op
                        /\ t.txns[k].fate # "none" => s.txns[k].fate # "none"
                        /\ \A j \in Id : t.txns[k].votes[j] > 0
                             => s.txns[k].votes[j] > 0 \/ (k = n /\ j = i),
         SignersSame(s, t) \/ Gives(s.txns[n].op, s, t)
  PROVE  Moves(s, t, n, i)
<1>1. s.next \in Nat /\ Num \subseteq Nat
  BY NumInt DEF Msig
<1>2. Later(s, t)
  BY <1>1 DEF Later
<1>3. ASSUME NEW k \in Num, k >= s.next, NEW j \in Id PROVE t.txns[k].votes[j] = 0
  <2>1. k # n /\ s.txns[k].votes[j] = 0 /\ t.txns[k].votes[j] \in Nat
    BY <1>1, <1>3 DEF Numbered, Msig, Txn
  <2> QED
    BY <2>1
<1>4. Numbered(t)
  BY <1>3 DEF Numbered
<1> QED
  BY <1>2, <1>4 DEF Moves

LEMMA ApproveMoves ==
  ASSUME NEW s \in Msig, Numbered(s), NEW i \in Id, NEW n \in Num, Open(s, n)
  PROVE  Moves(s, Approve(s, i, n), n, i) /\ Approve(s, i, n).next = s.next
<1>1. n < s.next /\ s.txns[n].fate = "open" /\ s.txns[n].op \in Op
  BY DEF Open, Numbered
<1>2. CASE Enough(s, n)
  <2>1. Approve(s, i, n) = Run(s, n)
    BY <1>2 DEF Approve
  <2>2. /\ Keeps(s, Run(s, n))
        /\ SignersSame(s, Run(s, n)) \/ Gives(s.txns[n].op, s, Run(s, n))
    BY <1>1, RunKeeps
  <2> QED
    BY <2>1, <2>2, <1>1, KeptMoves DEF Keeps
<1>3. CASE ~Enough(s, n)
  <2> DEFINE b == Vote(s, n, i)
             t == Run(b, n)
  <2>1. Approve(s, i, n) = t
    BY <1>3 DEF Approve
  <2>2. /\ b \in Msig /\ b.next = s.next /\ SignersSame(s, b)
        /\ \A k \in Num :
             /\ b.txns[k].op = s.txns[k].op
             /\ b.txns[k].fate = s.txns[k].fate
             /\ \A j \in Id : b.txns[k].votes[j] > 0
                             => s.txns[k].votes[j] > 0 \/ (k = n /\ j = i)
    BY VoteAdds
  <2> HIDE DEF b
  <2>3. Keeps(b, t) /\ (SignersSame(b, t) \/ Gives(s.txns[n].op, b, t))
    BY <1>1, <2>2, RunKeeps
  <2> HIDE DEF t
  <2>4. SignersSame(s, t) \/ Gives(s.txns[n].op, s, t)
    BY <2>2, <2>3 DEF SignersSame, Gives, Acceptable
  <2>5. /\ t \in Msig /\ t.next = s.next
        /\ \A k \in Num : /\ t.txns[k].op = s.txns[k].op
                          /\ t.txns[k].fate # "none" => s.txns[k].fate # "none"
                          /\ \A j \in Id : t.txns[k].votes[j] > 0
                               => s.txns[k].votes[j] > 0 \/ (k = n /\ j = i)
    BY <2>2, <2>3 DEF Keeps
  <2> QED
    BY <1>1, <2>1, <2>4, <2>5, KeptMoves
<1> QED
  BY <1>2, <1>3

ProposeMsgs == [do : {"propose"}, from : Id, op : Op]
VoteMsgs    == [do : Voting, from : Id, tx : Num]

\* What the actor makes of any message it takes.
LEMMA AfterMoves ==
  ASSUME NEW s \in Msig, Numbered(s), NEW m \in ProposeMsgs \cup VoteMsgs,
         Takes(s, m), About(s, m) \in Num
  PROVE  LET t == After(s, m)
             n == About(s, m)
         IN  /\ Moves(s, t, n, m.from)
             /\ m.do = "propose" => /\ n = s.next /\ t.next = s.next + 1
                                    /\ t.txns[n].op = m.op
             /\ m.do # "propose" => n = m.tx /\ t.next = s.next
             /\ m.do = "cancel" =>
                  \A k \in Num, j \in Id : t.txns[k].votes[j] > 0
                                          => s.txns[k].votes[j] > 0
<1>1. CASE m \in ProposeMsgs
  <2>1. m.do = "propose" /\ m.from \in Id /\ m.op \in Op
    BY <1>1 DEF ProposeMsgs
  <2>2. About(s, m) = s.next /\ After(s, m) = Propose(s, m.from, m.op)
    BY <2>1 DEF About, After
  <2> QED
    BY <2>1, <2>2, ProposeMoves
<1>2. CASE m \in VoteMsgs /\ m.do = "approve"
  <2>1. m.from \in Id /\ m.tx \in Num /\ Open(s, m.tx)
    BY <1>2 DEF VoteMsgs, Takes
  <2>2. About(s, m) = m.tx /\ After(s, m) = Approve(s, m.from, m.tx)
    BY <1>2 DEF About, After
  <2> QED
    BY <1>2, <2>1, <2>2, ApproveMoves
<1>3. CASE m \in VoteMsgs /\ m.do = "cancel"
  <2>1. m.from \in Id /\ m.tx \in Num /\ Open(s, m.tx)
    BY <1>3 DEF VoteMsgs, Takes
  <2>2. About(s, m) = m.tx /\ After(s, m) = End(s, m.tx, "dropped")
    BY <1>3 DEF About, After
  <2>3. m.tx < s.next /\ s.txns[m.tx].fate # "none"
    BY <2>1 DEF Open
  <2> DEFINE t == End(s, m.tx, "dropped")
  <2>4. Keeps(s, t) /\ SignersSame(s, t)
    BY <2>1, <2>3, EndKeeps DEF Fate
  <2> HIDE DEF t
  <2>5. Moves(s, t, m.tx, m.from) /\ t.next = s.next
    BY <2>1, <2>3, <2>4, KeptMoves DEF Keeps
  <2> QED
    BY <1>3, <2>2, <2>4, <2>5 DEF Keeps, t
<1> QED
  BY <1>1, <1>2, <1>3 DEF VoteMsgs, Voting
-----------------------------------------------------------------------------
(* The frame: every step of Multisig is one of PushWait. *)

LEMMA FrameStep == [Next]_vars => [PWNext]_pwvars
<1> SUFFICES ASSUME [Next]_vars PROVE [PWNext]_pwvars
  OBVIOUS
<1>1. ASSUME NEW c \in Call, Begin(c) PROVE PWNext
  BY <1>1 DEF Begin, PWNext
<1>2. ASSUME NEW c \in Call, Handler(c) PROVE PWNext
  <2>1. \/ \E a \in PC!Declined : Decline(c, a)
        \/ Ready(c)
        \/ PushOk(c) \/ PushFails(c, "doubt")
        \/ WaitOk(c) \/ WaitOkThen(c) \/ WaitExit(c) \/ WaitFails(c, "doubt")
        \/ AnswerAfter(c) \/ AfterFails(c)
    BY <1>2 DEF Handler, CreateRefused, CreateChecked, ProposeRefused,
         ProposeChecked, LookedUp, Unavailable, Push, Wait, Answered, PC!Declined
  <2> QED
    BY <2>1 DEF PWNext, Reply, InDoubt
<1>3. CASE Chain
  <2>1. (\E c \in Call, s \in PC!MsgState : Settle(c, s)) \/ UNCHANGED pwvars
    BY <1>3 DEF Chain, Include, Create, NotExecuted, IncludeOther, Confirm,
         Reorganise, Settle, PC!MsgState
  <2> QED
    BY <2>1 DEF PWNext
<1>4. CASE DaemonCrash
  BY <1>4 DEF DaemonCrash, PWNext
<1>5. CASE UNCHANGED vars
  BY <1>5 DEF vars
<1> QED
  BY <1>1, <1>2, <1>3, <1>4, <1>5 DEF Next

\* The multisig handlers keep the promise of PushCall.
THEOREM MSKeepsPromise == Spec => KeepsPromise
<1>1. Init => PWInit
  BY DEF Init
<1> QED
  BY <1>1, FrameStep, PWKeepsPromise, PTL DEF Spec, PWSpec
-----------------------------------------------------------------------------
(* Type correctness. *)

LEMMA BlockTypes ==
  ASSUME TypeOK
  PROVE  /\ Len(tip) \in Nat /\ \A k \in 1..Len(tip) : tip[k] \in Block
         /\ \A k \in Height : At(k) \in Msig
         /\ Latest = At(Len(tip)) /\ Latest \in Msig
         /\ tip # <<>> => Len(tip) >= 1
<1>1. Len(tip) \in Nat /\ \A k \in 1..Len(tip) : tip[k] \in Block
  BY ElementOfSeq, LenProperties DEF TypeOK
<1>2. tip = <<>> <=> Len(tip) = 0
  BY EmptySeq DEF TypeOK
<1>3. Latest = At(Len(tip))
  BY <1>1, <1>2 DEF Latest, At
<1>4. ASSUME NEW k \in Height PROVE At(k) \in Msig
  <2>1. CASE k = 0
    BY <2>1 DEF At, TypeOK
  <2>2. CASE k # 0
    <3>1. k \in 1..Len(tip)
      BY <1>1, <2>2 DEF Height
    <3> QED
      BY <3>1, <1>1, <2>2 DEF At, Block
  <2> QED
    BY <2>1, <2>2
<1>5. Len(tip) \in Height
  BY <1>1 DEF Height
<1> QED
  BY <1>1, <1>2, <1>3, <1>4, <1>5

LEMMA RequestFields ==
  ASSUME NEW r \in Request
  PROVE  /\ r.kind \in {"create"} \cup Proposing \cup Voting
         /\ r.kind # "create" => r.from \in Address
         /\ r.kind = "create" => /\ r.signers \in Seq(Address) /\ r.threshold \in Nat
                                 /\ r.negative \in BOOLEAN
         /\ r.kind = "propose" => r.to \in Payee
         /\ r.kind \in {"add", "remove"} => r.signer \in Address /\ r.alter \in BOOLEAN
         /\ r.kind = "swap" => r.old \in Known /\ r.new \in Known
         /\ r.kind \in Voting => r.tx \in Num
  BY DEF Request, CreateAsk, ProposeAsk, AddAsk, RemoveAsk, SwapAsk, ApproveAsk,
       CancelAsk, Proposing, Voting

LEMMA OpOfType ==
  ASSUME NEW r \in Request, r.kind \in Proposing,
         r.kind \in {"add", "remove"} => IdOf[r.signer] # NoAddr
  PROVE  OpOf(r) \in Op
<1>1. \A x \in Address : IdOf[x] # NoAddr => IdOf[x] \in Id
  BY AddressAssumption
<1>2. CASE r.kind = "propose"
  BY <1>2, RequestFields DEF OpOf, SendOp, Op
<1>3. CASE r.kind = "add"
  BY <1>1, <1>3, RequestFields DEF OpOf, AddOp, Op
<1>4. CASE r.kind = "remove"
  BY <1>1, <1>4, RequestFields DEF OpOf, RemoveOp, Op
<1>5. CASE r.kind = "swap"
  BY <1>1, <1>5, RequestFields DEF OpOf, SwapOp, Op, Known
<1> QED
  BY <1>2, <1>3, <1>4, <1>5 DEF Proposing

\* The message of a call whose handler has checked it.
LEMMA MessageOf ==
  ASSUME TypeOK, Checked, NEW c \in Call, mst[c] # "none",
         req[c].kind # "create", IdOf[req[c].from] # NoAddr
  PROVE  LET m == Message(req[c])
         IN  /\ m \in ProposeMsgs \cup VoteMsgs /\ m.from = IdOf[req[c].from]
             /\ req[c].kind \in Proposing => /\ m.do = "propose"
                                             /\ m.op = OpOf(req[c])
             /\ req[c].kind \in Voting => m.do = req[c].kind /\ m.tx = req[c].tx
<1> DEFINE r == req[c]
<1>1. r \in Request
  BY DEF TypeOK
<1>2. IdOf[r.from] \in Id
  BY <1>1, RequestFields, AddressAssumption
<1>3. CASE r.kind \in Proposing
  <2>1. OpOf(r) \in Op
    BY <1>1, <1>3, OpOfType DEF Checked, Committed
  <2>2. Message(r) = [do |-> "propose", from |-> IdOf[r.from], op |-> OpOf(r)]
    BY <1>3 DEF Message, ProposeMsg
  <2> QED
    BY <1>2, <1>3, <2>1, <2>2 DEF ProposeMsgs, Proposing, Voting
<1>4. CASE r.kind \in Voting
  <2>1. Message(r) = [do |-> r.kind, from |-> IdOf[r.from], tx |-> r.tx]
    BY <1>4 DEF Message, ApproveOrCancel, VoteMsg, Proposing, Voting
  <2> QED
    BY <1>1, <1>2, <1>4, <2>1, RequestFields DEF VoteMsgs, Proposing, Voting
<1> QED
  BY <1>1, <1>3, <1>4, RequestFields

LEMMA OutsideMessage ==
  OutsideMsg \subseteq ProposeMsgs \cup VoteMsgs
<1>1. ASSUME NEW i \in Outside, NEW p \in Payee
      PROVE  ProposeMsg(i, [do |-> "send", to |-> p]) \in ProposeMsgs
  BY <1>1, MultisigAssumption DEF ProposeMsg, ProposeMsgs, Op
<1>2. ASSUME NEW i \in Outside, NEW d \in Voting, NEW n \in Num
      PROVE  VoteMsg(i, d, n) \in VoteMsgs
  BY <1>2, MultisigAssumption DEF VoteMsg, VoteMsgs
<1> SUFFICES ASSUME NEW m \in OutsideMsg PROVE m \in ProposeMsgs \cup VoteMsgs
  OBVIOUS
<1>3. \/ \E i \in Outside, p \in Payee : m = ProposeMsg(i, [do |-> "send", to |-> p])
      \/ \E i \in Outside, d \in Voting, n \in Num : m = VoteMsg(i, d, n)
  BY DEF OutsideMsg
<1> QED
  BY <1>1, <1>2, <1>3

LEMMA ReceiptOf ==
  ASSUME NEW k \in {"none", "ok", "error"}, NEW n \in Num, NEW x \in Op \cup {NoOp}
  PROVE  [code |-> k, num |-> n, op |-> x] \in Receipt
  BY DEF Receipt

LEMMA TypeInit == Init => TypeOK
  BY PWInitInv, MultisigAssumption, EmptySeq
     DEF Init, TypeOK, PWInv, Num, Receipt, NoReceipt

\* What an executed message leaves in the chain and in the receipt.
LEMMA IncludeTypes ==
  ASSUME TypeOK, Chained, Checked, NEW c \in Call, Include(c)
  PROVE  tip' \in Seq(Block) /\ rcpt' \in [Call -> Receipt]
<1> DEFINE m == Message(req[c])
           n == About(Latest, m)
           t == After(Latest, m)
<1>1. /\ Latest \in Msig /\ Numbered(Latest)
  BY BlockTypes DEF Chained, Holds, Height
<1>2. m \in ProposeMsgs \cup VoteMsgs
  BY MessageOf DEF Include
<1>3. CASE Takes(Latest, m)
  <2>1. /\ n \in Num
        /\ rcpt' = [rcpt EXCEPT ![c] = [code |-> "ok", num |-> n, op |-> t.txns[n].op]]
        /\ tip' = Append(tip, [by |-> c, after |-> t])
    BY <1>3 DEF Include
  <2>2. t \in Msig
    BY <1>1, <1>2, <1>3, <2>1, AfterMoves DEF Moves
  <2> HIDE DEF m, n, t
  <2>3. [by |-> c, after |-> t] \in Block
    BY <2>2 DEF Block
  <2>4. t.txns[n].op \in Op \cup {NoOp} /\ n \in Num
    BY <2>1, <2>2 DEF Msig, Txn
  <2>5. [code |-> "ok", num |-> n, op |-> t.txns[n].op] \in Receipt
    BY <2>4, ReceiptOf
  <2> QED
    BY <2>1, <2>3, <2>5, AppendProperties DEF TypeOK
<1>4. CASE ~Takes(Latest, m)
  <2>1. /\ rcpt' = [rcpt EXCEPT ![c].code = "error"]
        /\ tip' = Append(tip, [by |-> c, after |-> Latest])
    BY <1>4 DEF Include
  <2>2. [by |-> c, after |-> Latest] \in Block
    BY <1>1 DEF Block
  <2>3. rcpt' \in [Call -> Receipt]
    BY <2>1 DEF TypeOK, Receipt
  <2> QED
    BY <2>1, <2>2, <2>3, AppendProperties DEF TypeOK
<1> QED
  BY <1>3, <1>4

LEMMA TypeStep ==
  TypeOK /\ Phases /\ Chained /\ Checked /\ [Next]_vars => TypeOK'
<1> SUFFICES ASSUME TypeOK, Phases, Chained, Checked, [Next]_vars PROVE TypeOK'
  OBVIOUS
<1>1. PWTypeOK'
  BY FrameStep, PWStepInv DEF PWInv, TypeOK
<1> USE <1>1
<1>2. ASSUME NEW c \in Call, Begin(c) PROVE TypeOK'
  <2>1. PICK r \in Asks :
          /\ req' = [req EXCEPT ![c] = r]
          /\ saw' = [saw EXCEPT ![c] =
               IF r.kind \in Voting /\ \E l \in Listing : l.id = r.tx
               THEN (CHOOSE l \in Listing : l.id = r.tx).op ELSE NoOp]
    BY <1>2 DEF Begin
  <2>2. \A l \in Listing : l.op \in Op \cup {NoOp}
    BY BlockTypes DEF Listing, Msig, Txn
  <2>3. (\E l \in Listing : l.id = r.tx) =>
          (CHOOSE l \in Listing : l.id = r.tx) \in Listing
    OBVIOUS
  <2>4. saw' \in [Call -> Op \cup {NoOp}]
    BY <2>1, <2>2, <2>3 DEF TypeOK
  <2> QED
    BY <1>2, <2>1, <2>4, MultisigAssumption DEF Begin, TypeOK
<1>3. ASSUME NEW c \in Call, Include(c) PROVE TypeOK'
  BY <1>3, IncludeTypes DEF Include, TypeOK
<1>4. CASE IncludeOther
  <2>1. PICK m \in OutsideMsg :
          /\ Takes(Latest, m) /\ About(Latest, m) \in Num
          /\ tip' = Append(tip, [by |-> NoCall, after |-> After(Latest, m)])
    BY <1>4 DEF IncludeOther
  <2>2. After(Latest, m) \in Msig
    BY <2>1, AfterMoves, OutsideMessage, BlockTypes DEF Moves, Chained, Holds, Height
  <2>3. [by |-> NoCall, after |-> After(Latest, m)] \in Block
    BY <2>2 DEF Block
  <2>4. tip' \in Seq(Block)
    BY <2>1, <2>3, AppendProperties DEF TypeOK
  <2> QED
    BY <1>4, <2>4, MultisigAssumption DEF IncludeOther, TypeOK
<1>5. CASE Confirm
  <2>1. tip # <<>> /\ msig' = tip[1].after /\ tip' = Tail(tip)
    BY <1>5 DEF Confirm
  <2>2. tip[1] \in Block
    BY <2>1, BlockTypes
  <2>3. msig' \in Msig /\ tip' \in Seq(Block)
    BY <2>1, <2>2, HeadTailProperties DEF Block, TypeOK
  <2> QED
    BY <1>5, <2>3 DEF Confirm, TypeOK
<1>6. CASE Reorganise
  <2>1. rcpt' \in [Call -> Receipt]
    <3>1. NoReceipt \in Receipt
      BY ReceiptOf, MultisigAssumption DEF NoReceipt, Num
    <3> QED
      BY <1>6, <3>1 DEF Reorganise, TypeOK
  <2>2. steady' \in [Call -> BOOLEAN]
    BY <1>6 DEF Reorganise, TypeOK
  <2>3. tip' \in Seq(Block)
    BY <1>6, EmptySeq DEF Reorganise
  <2> QED
    BY <1>6, <2>1, <2>2, <2>3, MultisigAssumption DEF Reorganise, TypeOK
<1>7. ASSUME NEW c \in Call, Answered(c) PROVE TypeOK'
  BY <1>7 DEF Answered, TypeOK
<1>8. CASE UNCHANGED msvars
  BY <1>8 DEF msvars, TypeOK
<1> QED
  BY <1>2, <1>3, <1>4, <1>5, <1>6, <1>7, <1>8
     DEF Next, Handler, CreateRefused, CreateChecked, ProposeRefused,
       ProposeChecked, LookedUp, Unavailable, Push, Wait, Chain, Create,
       NotExecuted, DaemonCrash, vars
-----------------------------------------------------------------------------
(* What the chain of states holds, when it stays, grows and shrinks. *)

LEMMA HoldsOn ==
  ASSUME NEW k \in Nat, NEW h \in Nat, Holds(h), At(k)' = At(h),
         k > 0 => h > 0 /\ At(k - 1)' = At(h - 1),
         \A j \in 0..k : \E l \in 0..h : At(j)' = At(l),
         \A c \in Call : Done(c, k)' <=> Done(c, h),
         \A c \in Call : Done(c, h) => rcpt'[c] = rcpt[c] /\ req'[c] = req[c]
  PROVE  Holds(k)'
<1>1. Numbered(At(k))'
  BY DEF Holds, Numbered
<1>2. VotesAsked(k)'
  BY DEF Holds, VotesAsked, Asked
<1>3. OpsAsked(k)'
  BY DEF Holds, OpsAsked
<1>4. Own(k)'
  BY DEF Holds, Own
<1>5. (k > 0 => StepAsked(k))'
  BY DEF Holds, StepAsked
<1>6. (\A j \in 0..k : Later(At(j), At(k)))'
  BY DEF Holds
<1> QED
  BY <1>1, <1>2, <1>3, <1>4, <1>5, <1>6 DEF Holds

LEMMA ChainedStays ==
  ASSUME TypeOK, Chained, UNCHANGED <<msig, tip, rcpt>>,
         \A c \in Call : rcpt[c].code = "ok" => mst'[c] = mst[c] /\ req'[c] = req[c]
  PROVE  Chained'
<1> SUFFICES ASSUME NEW k \in Height PROVE Holds(k)'
  BY DEF Chained, Height
<1>1. k \in Nat /\ Holds(k)
  BY BlockTypes DEF Chained, Height
<1>2. \A j : At(j)' = At(j)
  BY DEF At
<1>3. \A c \in Call : Done(c, k)' <=> Done(c, k)
  BY DEF Done
<1>4. \A c \in Call : Done(c, k) => rcpt'[c] = rcpt[c] /\ req'[c] = req[c]
  BY DEF Done
<1> QED
  BY <1>1, <1>2, <1>3, <1>4, HoldsOn

LEMMA GivesChange ==
  ASSUME NEW r \in Request, r.kind \in Proposing, NEW s, NEW t, Gives(OpOf(r), s, t)
  PROVE  SignersSame(s, t) \/ Change(r, s, t)
<1>1. CASE r.kind = "propose"
  BY <1>1 DEF OpOf, SendOp, Gives
<1>2. CASE r.kind = "add"
  BY <1>2 DEF OpOf, AddOp, Gives, Change
<1>3. CASE r.kind = "remove"
  BY <1>3 DEF OpOf, RemoveOp, Gives, Change
<1>4. CASE r.kind = "swap"
  BY <1>4 DEF OpOf, SwapOp, Gives, Change
<1> QED
  BY <1>1, <1>2, <1>3, <1>4 DEF Proposing

LEMMA Grown ==
  ASSUME TypeOK, NEW b \in Block, tip' = Append(tip, b), msig' = msig
  PROVE  /\ Len(tip') = Len(tip) + 1
         /\ \A k \in 1..Len(tip) : tip'[k] = tip[k]
         /\ tip'[Len(tip) + 1] = b
         /\ \A k \in Height : At(k)' = At(k)
         /\ \A k \in Nat : k = Len(tip) + 1 => At(k)' = b.after
         /\ Latest' = b.after
<1>1. /\ tip' # <<>> /\ Len(tip') = Len(tip) + 1
      /\ \A k \in 1..Len(tip) : tip'[k] = tip[k]
      /\ tip'[Len(tip) + 1] = b
  BY AppendProperties DEF TypeOK
<1>2. Len(tip) \in Nat
  BY BlockTypes
<1>3. ASSUME NEW k \in Nat, k = Len(tip) + 1 PROVE At(k)' = b.after
  <2>1. k # 0 /\ tip'[k] = b
    BY <1>1, <1>2, <1>3
  <2> QED
    BY <2>1 DEF At
<1>4. Latest' = b.after
  BY <1>1 DEF Latest
<1>5. ASSUME NEW k \in Height PROVE At(k)' = At(k)
  BY <1>1, <1>2, <1>5 DEF At, Height
<1> QED
  BY <1>1, <1>3, <1>4, <1>5

LEMMA Shrunk ==
  ASSUME TypeOK, tip # <<>>, tip' = Tail(tip), msig' = tip[1].after
  PROVE  /\ Len(tip') = Len(tip) - 1
         /\ \A k \in 1..Len(tip') : tip'[k] = tip[k + 1]
         /\ \A k \in Height' : At(k)' = At(k + 1)
         /\ Latest' = Latest
<1>1. /\ Len(tip') = Len(tip) - 1 /\ Len(tip) \in Nat /\ Len(tip) >= 1
      /\ \A k \in 1..Len(tip') : tip'[k] = tip[k + 1]
  BY HeadTailProperties, BlockTypes DEF TypeOK
<1>2. ASSUME NEW k \in Height' PROVE At(k)' = At(k + 1)
  <2>1. k \in Nat /\ k + 1 # 0
    BY <1>1, <1>2 DEF Height
  <2>2. CASE k = 0
    BY <2>1, <2>2 DEF At
  <2>3. CASE k # 0
    <3>1. k \in 1..Len(tip')
      BY <1>1, <2>1, <2>3 DEF Height
    <3>2. tip'[k] = tip[k + 1]
      BY <1>1, <3>1
    <3> QED
      BY <2>1, <2>3, <3>2 DEF At
  <2> QED
    BY <2>2, <2>3
<1>3. Latest' = Latest
  <2>1. tip' \in Seq(Block)
    BY HeadTailProperties DEF TypeOK
  <2>2. CASE Len(tip) = 1
    <3>1. tip' = <<>>
      BY <1>1, <2>1, <2>2, EmptySeq
    <3> QED
      BY <2>2, <3>1 DEF Latest
  <2>3. CASE Len(tip) # 1
    <3> DEFINE k == Len(tip')
    <3>1. k \in 1..Len(tip') /\ k + 1 = Len(tip)
      BY <1>1, <2>3
    <3>2. tip'[k] = tip[Len(tip)]
      BY <1>1, <3>1
    <3>3. tip' # <<>>
      BY <3>1, EmptySeq
    <3> QED
      BY <3>2, <3>3 DEF Latest
  <2> QED
    BY <2>2, <2>3
<1> QED
  BY <1>1, <1>2, <1>3

\* A message executed at the head: by a call, or by somebody else.
LEMMA ChainedGrows ==
  ASSUME TypeOK, Chained, Received, UNCHANGED <<msig, req, mst>>,
         NEW t \in Msig, NEW by \in Call \cup {NoCall},
         tip' = Append(tip, [by |-> by, after |-> t]),
         \A d \in Call : d # by => rcpt'[d] = rcpt[d],
         by \in Call => rcpt[by].code = "none" /\ mst[by] = "pooled",
         Numbered(t), Later(Latest, t),
         \A n \in Num, i \in Id \ Outside :
           t.txns[n].votes[i] > 0 =>
             Latest.txns[n].votes[i] > 0 \/ (by \in Call /\ Asked(by, i, n)'),
         \A n \in Num : n < t.next =>
           \/ n < Latest.next \/ t.txns[n].op.do = "send"
           \/ /\ by \in Call /\ rcpt'[by].code = "ok" /\ req[by].kind \in Proposing
              /\ t.txns[n].op = OpOf(req[by]),
         by \in Call /\ rcpt'[by].code = "ok" /\ req[by].kind \in Proposing =>
           /\ rcpt'[by].num < t.next
           /\ t.txns[rcpt'[by].num].op = OpOf(req[by]),
         \/ SignersSame(Latest, t)
         \/ \E n \in Num : n < t.next /\ Gives(t.txns[n].op, Latest, t)
  PROVE  Chained'
<1>0. PICK len \in Nat : len = Len(tip)
  BY BlockTypes
<1>a. PICK top \in Nat : top = len + 1
  OBVIOUS
<1>1. /\ len \in Nat /\ top \in Nat /\ top # 0 /\ top - 1 = len
      /\ len \in Height /\ Latest = At(len) /\ Holds(len)
  BY <1>0, <1>a, BlockTypes DEF Chained, Height
<1>2. /\ Len(tip') = top
      /\ \A k \in 1..len : tip'[k] = tip[k]
      /\ tip'[top].by = by
      /\ \A k \in Height : At(k)' = At(k)
      /\ At(top)' = t
  <2>1. [by |-> by, after |-> t] \in Block
    BY DEF Block
  <2> QED
    BY <1>0, <1>a, <2>1, Grown
<1>3. ASSUME NEW k \in Height, NEW d \in Call
      PROVE  /\ Done(d, k)' <=> Done(d, k)
             /\ Done(d, k) => rcpt'[d] = rcpt[d]
  <2>1. \A j \in 1..k : tip'[j] = tip[j]
    BY <1>0, <1>a, <1>1, <1>2 DEF Height
  <2>2. CASE d # by
    BY <2>1, <2>2 DEF Done
  <2>3. CASE d = by
    <3>1. rcpt[d].code = "none" /\ mst'[d] = "pooled"
      BY <2>3
    <3>2. \A j \in 1..k : tip[j].by # d
      BY <1>0, <1>a, <1>1, <3>1 DEF Received, Height
    <3> QED
      BY <2>1, <3>1, <3>2 DEF Done
  <2> QED
    BY <2>2, <2>3
<1>4. ASSUME NEW d \in Call
      PROVE  /\ Done(d, len) => Done(d, top)'
             /\ by = d /\ rcpt'[d].code = "ok" => Done(d, top)'
             /\ Done(d, top)' => Done(d, len) \/ (by = d /\ rcpt'[d].code = "ok")
  <2>1. \A j : j \in 1..top <=> (j \in 1..len \/ j = top)
    BY <1>a
  <2>2. Done(d, len)' <=> Done(d, len)
    BY <1>1, <1>3
  <2>3. Done(d, top)' <=> Done(d, len)' \/ (by = d /\ rcpt'[d].code = "ok")
    BY <1>2, <2>1 DEF Done
  <2> QED
    BY <2>2, <2>3
<1>5. ASSUME NEW k \in Height PROVE Holds(k)'
  <2>1. k \in Nat /\ Holds(k)
    BY <1>1, <1>5 DEF Chained, Height
  <2>2. \A j \in 0..k : j \in Height
    BY <1>0, <1>a, <1>1 DEF Height
  <2>3. k > 0 => k - 1 \in Height
    BY <1>0, <1>a, <1>1 DEF Height
  <2> QED
    BY <2>1, <2>2, <2>3, <1>2, <1>3, HoldsOn
<1>6. VotesAsked(top)'
  <2> SUFFICES ASSUME NEW n \in Num, NEW i \in Id \ Outside, t.txns[n].votes[i] > 0
               PROVE  \E c \in Call : Done(c, top)' /\ Asked(c, i, n)'
    BY <1>2 DEF VotesAsked
  <2>1. CASE At(len).txns[n].votes[i] > 0
    <3>1. PICK c \in Call : Done(c, len) /\ Asked(c, i, n)
      BY <1>1, <2>1 DEF Holds, VotesAsked
    <3>2. rcpt'[c] = rcpt[c]
      BY <1>1, <1>3, <3>1
    <3>3. Asked(c, i, n)'
      BY <3>1, <3>2 DEF Asked
    <3> QED
      BY <1>4, <3>1, <3>3
  <2>2. CASE by \in Call /\ Asked(by, i, n)'
    BY <1>4, <2>2 DEF Asked
  <2> QED
    BY <1>1, <2>1, <2>2
<1>7. ASSUME NEW n \in Num, n < t.next
      PROVE  \/ t.txns[n].op.do = "send"
             \/ \E c \in Call : /\ Done(c, top)' /\ req[c].kind \in Proposing
                                /\ t.txns[n].op = OpOf(req[c])
  <2>1. CASE n < Latest.next
    <3>1. t.txns[n].op = At(len).txns[n].op
      BY <1>1, <2>1 DEF Later
    <3> QED
      BY <1>1, <1>4, <2>1, <3>1 DEF Holds, OpsAsked
  <2>2. CASE /\ by \in Call /\ rcpt'[by].code = "ok" /\ req[by].kind \in Proposing
             /\ t.txns[n].op = OpOf(req[by])
    BY <1>4, <2>2
  <2> QED
    BY <1>7, <2>1, <2>2
<1>8. OpsAsked(top)'
  BY <1>2, <1>7 DEF OpsAsked
<1>9. Own(top)'
  <2> SUFFICES ASSUME NEW c \in Call, Done(c, top)', req[c].kind \in Proposing
               PROVE  rcpt'[c].num < t.next /\ t.txns[rcpt'[c].num].op = OpOf(req[c])
    BY <1>2 DEF Own
  <2>1. CASE Done(c, len)
    <3>1. rcpt'[c] = rcpt[c] /\ rcpt[c].num \in Num
      BY <1>1, <1>3, <2>1 DEF TypeOK, Receipt
    <3>2. rcpt[c].num < Latest.next /\ Latest.txns[rcpt[c].num].op = OpOf(req[c])
      BY <1>1, <2>1 DEF Holds, Own
    <3>3. Latest.next \in Nat /\ t.next \in Nat /\ rcpt[c].num \in Nat
      BY <3>1, NumInt, BlockTypes DEF Msig
    <3> QED
      BY <3>1, <3>2, <3>3 DEF Later
  <2>2. CASE by = c /\ rcpt'[c].code = "ok"
    BY <2>2
  <2> QED
    BY <1>4, <2>1, <2>2
<1>10. StepAsked(top)'
  <2>1. At(top - 1)' = Latest
    BY <1>1, <1>2
  <2>2. CASE SignersSame(Latest, t)
    BY <1>2, <2>1, <2>2 DEF StepAsked
  <2>3. ASSUME NEW n \in Num, n < t.next, Gives(t.txns[n].op, Latest, t)
        PROVE  \/ SignersSame(Latest, t)
               \/ \E c \in Call : Done(c, top)' /\ Change(req[c], Latest, t)
    <3>1. CASE t.txns[n].op.do = "send"
      BY <2>3, <3>1 DEF Gives
    <3>2. ASSUME NEW c \in Call, Done(c, top)', req[c].kind \in Proposing,
                 t.txns[n].op = OpOf(req[c])
          PROVE  SignersSame(Latest, t) \/ Change(req[c], Latest, t)
      BY <2>3, <3>2, GivesChange DEF TypeOK
    <3> QED
      BY <1>7, <2>3, <3>1, <3>2
  <2> QED
    BY <1>2, <2>1, <2>2, <2>3 DEF StepAsked
<1>11. ASSUME NEW j \in 0..top PROVE Later(At(j)', t)
  <2>1. CASE j = top
    <3>1. t.next \in Nat
      BY DEF Msig
    <3> QED
      BY <1>2, <2>1, <3>1 DEF Later
  <2>2. CASE j # top
    <3>1. j \in 0..len
      BY <1>a, <2>2
    <3>2. j \in Height /\ Later(At(j), Latest)
      BY <1>0, <1>a, <1>1, <3>1 DEF Holds, Height
    <3>3. /\ At(j).next \in Nat /\ Latest.next \in Nat /\ t.next \in Nat
          /\ Num \subseteq Nat
      BY <3>2, NumInt, BlockTypes DEF Msig
    <3> QED
      BY <1>2, <3>2, <3>3 DEF Later
  <2> QED
    BY <2>1, <2>2
<1>12. Holds(top)'
  BY <1>2, <1>6, <1>8, <1>9, <1>10, <1>11 DEF Holds
<1>13. Height' = Height \cup {top}
  BY <1>0, <1>a, <1>1, <1>2 DEF Height
<1> QED
  BY <1>5, <1>12, <1>13 DEF Chained
-----------------------------------------------------------------------------
(* The steps that leave the chain and the receipts alone. *)

Quiet == \/ \E c \in Call : Begin(c) \/ Handler(c) \/ Create(c) \/ NotExecuted(c)
         \/ DaemonCrash \/ UNCHANGED vars

\* What such a step may do to a call.
QuietCall(c) ==
  /\ mst[c] # "none" => req'[c] = req[c] /\ mst'[c] # "none"
  /\ mst[c] \in {"ok", "error"} => mst'[c] = mst[c]
  /\ rcpt[c].code # "none" => mst'[c] = mst[c]
  /\ mst'[c] \in {"ok", "error"} =>
       mst'[c] = mst[c] \/ (mst[c] = "pooled" /\ req[c].kind = "create")
  /\ ans[c] = "ok" => ans'[c] = "ok" /\ told'[c] = told[c]
  /\ ans[c] # "ok" /\ ans'[c] = "ok" /\ req[c].kind \in Proposing =>
       mst[c] = "ok" /\ told'[c] = rcpt[c]
  /\ mst[c] = "none" /\ (req'[c] # req[c] \/ saw'[c] # saw[c] \/ steady'[c] # steady[c])
       => Begin(c)

LEMMA QuietAnswer ==
  ASSUME UNCHANGED msvars, mst' = mst,
         \A c \in Call : ans'[c] = "ok" <=> ans[c] = "ok"
  PROVE  UNCHANGED <<msig, tip, rcpt>> /\ \A c \in Call : QuietCall(c)
<1>1. UNCHANGED <<req, saw, msig, tip, rcpt, told, steady>>
  BY DEF msvars
<1> QED
  BY <1>1 DEF QuietCall

LEMMA QuietFacts ==
  ASSUME TypeOK, Phases, Received, Quiet
  PROVE  UNCHANGED <<msig, tip, rcpt>> /\ \A c \in Call : QuietCall(c)
<1> DEFINE Goal == UNCHANGED <<msig, tip, rcpt>> /\ \A c \in Call : QuietCall(c)
<1> USE DEF TypeOK, PWTypeOK, Phases, Received, QuietCall
<1>1. ASSUME NEW c \in Call, Begin(c) PROVE Goal
  <2>1. UNCHANGED <<msig, tip, rcpt, told, mst, ans>> /\ mst[c] = "none"
    BY <1>1 DEF Begin, Start, Goto
  <2>2. ASSUME NEW d \in Call, d # c
        PROVE  req'[d] = req[d] /\ saw'[d] = saw[d] /\ steady'[d] = steady[d]
    BY <1>1, <2>2 DEF Begin
  <2>3. \A d \in Call : QuietCall(d)
    BY <1>1, <2>1, <2>2
  <2> QED
    BY <2>1, <2>3
<1>2. ASSUME NEW c \in Call, Handler(c) PROVE Goal
  <2>1. CASE Answered(c)
    BY <1>2, <2>1 DEF Answered, WaitOk, AnswerAfter, Return, Proposing
  <2>2. CASE Push(c)
    BY <2>2 DEF Push, PushOk, PushFails, Goto, Return, msvars
  <2>3. CASE Wait(c)
    <3>1. UNCHANGED msvars /\ mst' = mst
      BY <2>3 DEF Wait, WaitOkThen, AfterFails, WaitExit, WaitFails
    <3>2. \A d \in Call : ans'[d] = "ok" <=> ans[d] = "ok"
      BY <2>3 DEF Wait, WaitOkThen, AfterFails, WaitExit, WaitFails, Goto, Return
    <3> QED
      BY <3>1, <3>2, QuietAnswer
  <2>4. CASE CreateRefused(c) \/ ProposeRefused(c) \/ Unavailable(c)
    <3>1. UNCHANGED msvars /\ mst' = mst
      BY <2>4 DEF CreateRefused, ProposeRefused, Unavailable, Decline
    <3>2. \A d \in Call : ans'[d] = "ok" <=> ans[d] = "ok"
      BY <2>4 DEF CreateRefused, ProposeRefused, Unavailable, Decline, Return, Prep
    <3> QED
      BY <3>1, <3>2, QuietAnswer
  <2>5. CASE CreateChecked(c) \/ ProposeChecked(c) \/ LookedUp(c)
    BY <2>5 DEF CreateChecked, ProposeChecked, LookedUp, Ready, msvars
  <2> QED
    BY <1>2, <2>1, <2>2, <2>3, <2>4, <2>5 DEF Handler
<1>3. ASSUME NEW c \in Call, Create(c) PROVE Goal
  BY <1>3 DEF Create, Settle, msvars
<1>4. ASSUME NEW c \in Call, NotExecuted(c) PROVE Goal
  <2>1. /\ UNCHANGED <<msvars, ans>> /\ rcpt[c].code = "none" /\ mst[c] = "pooled"
        /\ mst' = [mst EXCEPT ![c] = "failed"]
    BY <1>4 DEF NotExecuted, Settle
  <2> QED
    BY <2>1 DEF msvars
<1>5. CASE DaemonCrash
  <2>1. UNCHANGED msvars /\ mst' = mst
    BY <1>5 DEF DaemonCrash, Crash
  <2>2. \A d \in Call : ans'[d] = "ok" <=> ans[d] = "ok"
    BY <1>5 DEF DaemonCrash, Crash, Live, Prep
  <2> QED
    BY <2>1, <2>2, QuietAnswer
<1>6. CASE UNCHANGED vars
  BY <1>6 DEF vars, pwvars, msvars
<1> QED
  BY <1>1, <1>2, <1>3, <1>4, <1>5, <1>6 DEF Quiet

LEMMA ChainedQuiet == IInv /\ Quiet => Chained'
<1> SUFFICES ASSUME IInv, Quiet PROVE Chained'
  OBVIOUS
<1>1. UNCHANGED <<msig, tip, rcpt>> /\ \A c \in Call : QuietCall(c)
  BY QuietFacts DEF IInv
<1>2. ASSUME NEW c \in Call, rcpt[c].code = "ok"
      PROVE  mst'[c] = mst[c] /\ req'[c] = req[c]
  BY <1>1, <1>2 DEF QuietCall, IInv, Received
<1> QED
  BY <1>1, <1>2, ChainedStays DEF IInv

LEMMA ReceivedQuiet == IInv /\ Quiet => Received'
<1> SUFFICES ASSUME IInv, Quiet PROVE Received'
  OBVIOUS
<1>1. UNCHANGED <<msig, tip, rcpt>> /\ \A c \in Call : QuietCall(c)
  BY QuietFacts DEF IInv
<1>2. ASSUME NEW c \in Call
      PROVE  /\ rcpt[c].code # "none" => /\ mst'[c] \in {"pooled", rcpt[c].code}
                                        /\ req'[c].kind # "create"
             /\ rcpt[c].code = "ok" => Done(c, Len(tip))'
             /\ mst'[c] \in {"ok", "error"} /\ req'[c].kind # "create" =>
                  rcpt[c].code = mst'[c]
             /\ ans'[c] = "ok" /\ req'[c].kind \in Proposing =>
                  mst'[c] = "ok" /\ told'[c] = rcpt[c]
  <2>1. QuietCall(c)
    BY <1>1
  <2>2. rcpt[c].code # "none" => /\ mst'[c] \in {"pooled", rcpt[c].code}
                                 /\ req'[c].kind # "create"
    BY <2>1 DEF QuietCall, IInv, Received
  <2>3. rcpt[c].code = "ok" => Done(c, Len(tip))'
    BY <1>1, <2>1 DEF QuietCall, IInv, Received, Done
  <2>4. mst'[c] \in {"ok", "error"} /\ req'[c].kind # "create" => rcpt[c].code = mst'[c]
    BY <2>1 DEF QuietCall, IInv, Received
  <2>5. ans[c] = "ok" => mst[c] \in {"ok", "none"} \/ mst[c] # "none"
    OBVIOUS
  <2>6. ans'[c] = "ok" /\ req'[c].kind \in Proposing =>
          mst'[c] = "ok" /\ told'[c] = rcpt[c]
    <3> SUFFICES ASSUME ans'[c] = "ok", req'[c].kind \in Proposing
                 PROVE  mst'[c] = "ok" /\ told'[c] = rcpt[c]
      OBVIOUS
    <3>1. req'[c] = req[c]
      BY <2>1 DEF QuietCall, Begin, Start, Goto, IInv, Phases
    <3> QED
      BY <2>1, <3>1 DEF QuietCall, IInv, Received
  <2> QED
    BY <2>2, <2>3, <2>4, <2>6
<1> QED
  BY <1>1, <1>2 DEF IInv, Received

LEMMA DistinctQuiet == IInv /\ Quiet => Distinct'
<1> SUFFICES ASSUME IInv, Quiet PROVE Distinct'
  OBVIOUS
<1>1. UNCHANGED <<msig, tip, rcpt>> /\ \A c \in Call : QuietCall(c)
  BY QuietFacts DEF IInv
<1>2. ASSUME NEW c \in Call, rcpt[c].code = "ok" PROVE req'[c] = req[c]
  BY <1>1, <1>2 DEF QuietCall, IInv, Received
<1> QED
  BY <1>1, <1>2 DEF Distinct, IInv

LEMMA SawQuiet == IInv /\ Quiet => SawRight'
<1> SUFFICES ASSUME IInv, Quiet PROVE SawRight'
  OBVIOUS
<1>1. UNCHANGED <<msig, tip, rcpt>> /\ \A c \in Call : QuietCall(c)
  BY QuietFacts DEF IInv
<1>2. Latest' = Latest
  BY <1>1 DEF Latest
<1>3. ASSUME NEW c \in Call, Begin(c) PROVE SawRight'
  <2>1. PICK r \in Asks :
          /\ req' = [req EXCEPT ![c] = r]
          /\ saw' = [saw EXCEPT ![c] =
               IF r.kind \in Voting /\ \E l \in Listing : l.id = r.tx
               THEN (CHOOSE l \in Listing : l.id = r.tx).op ELSE NoOp]
    BY <1>3 DEF Begin
  <2>2. rcpt[c].code = "none"
    BY <1>3 DEF Begin, Start, Goto, IInv, Phases, Received
  <2>3. ASSUME \E l \in Listing : l.id = r.tx
        PROVE  /\ r.tx < Latest.next
               /\ Latest.txns[r.tx].op = (CHOOSE l \in Listing : l.id = r.tx).op
    <3> DEFINE x == CHOOSE l \in Listing : l.id = r.tx
    <3>1. x \in Listing /\ x.id = r.tx
      BY <2>3
    <3> HIDE DEF x
    <3>2. r.tx \in Num /\ Latest.txns[r.tx].fate = "open" /\ x.op = Latest.txns[r.tx].op
      BY <3>1 DEF Listing
    <3>3. Numbered(Latest)
      BY BlockTypes DEF IInv, Chained, Holds, Height
    <3> QED
      BY <3>2, <3>3 DEF Numbered, x
  <2>4. saw'[c] # NoOp /\ req'[c].kind \in Voting =>
          /\ req'[c].tx < Latest.next /\ Latest.txns[req'[c].tx].op = saw'[c]
    BY <2>1, <2>3 DEF IInv, TypeOK
  <2>5. ASSUME NEW d \in Call, d # c
        PROVE  req'[d] = req[d] /\ saw'[d] = saw[d] /\ steady'[d] = steady[d]
    BY <1>3, <2>1, <2>5 DEF Begin, IInv, TypeOK
  <2> QED
    BY <1>1, <1>2, <2>2, <2>4, <2>5 DEF SawRight, IInv
<1>4. CASE UNCHANGED <<req, saw, steady>>
  BY <1>1, <1>2, <1>4 DEF SawRight, IInv
<1> QED
  BY <1>3, <1>4
     DEF Quiet, Handler, CreateRefused, CreateChecked, ProposeRefused, ProposeChecked,
       LookedUp, Unavailable, Push, Wait, Answered, Create, NotExecuted, DaemonCrash,
       msvars, vars
-----------------------------------------------------------------------------
(* A message of a call is executed. *)

\* The actor did what the message of c asks for, as its receipt says.
Succeeds(c, n, t) ==
  /\ rcpt'[c].code = "ok" /\ rcpt'[c].num = n /\ rcpt'[c].op = t.txns[n].op
  /\ Moves(Latest, t, n, IdOf[req[c].from])
  /\ req[c].kind \in Proposing => n = Latest.next /\ t.txns[n].op = OpOf(req[c])
  /\ req[c].kind \in Voting => n = req[c].tx /\ n < Latest.next
  /\ req[c].kind = "cancel" =>
       \A k \in Num, j \in Id :
         t.txns[k].votes[j] > 0 => Latest.txns[k].votes[j] > 0

Executes(c, t) ==
  /\ UNCHANGED <<pwvars, req, saw, msig, told, steady>>
  /\ mst[c] = "pooled" /\ rcpt[c].code = "none" /\ req[c].kind # "create"
  /\ \A d \in Call : d # c => rcpt'[d] = rcpt[d]
  /\ tip' = Append(tip, [by |-> c, after |-> t])
  /\ Numbered(t) /\ Later(Latest, t)
  /\ \/ rcpt'[c].code = "error" /\ t = Latest
     \/ \E n \in Num : Succeeds(c, n, t)

LEMMA IncludeExecutes ==
  ASSUME IInv, NEW c \in Call, Include(c)
  PROVE  \E t \in Msig : Executes(c, t)
<1> DEFINE m == Message(req[c])
           n == About(Latest, m)
           t == After(Latest, m)
<1>1. Latest \in Msig /\ Numbered(Latest)
  BY BlockTypes DEF IInv, Chained, Holds, Height
<1>2. /\ m \in ProposeMsgs \cup VoteMsgs /\ m.from = IdOf[req[c].from]
      /\ req[c].kind \in Proposing => m.do = "propose" /\ m.op = OpOf(req[c])
      /\ req[c].kind \in Voting => m.do = req[c].kind /\ m.tx = req[c].tx
  BY MessageOf DEF Include, IInv
<1>3. /\ UNCHANGED <<pwvars, req, saw, msig, told, steady>>
      /\ mst[c] = "pooled" /\ rcpt[c].code = "none" /\ req[c].kind # "create"
      /\ \A d \in Call : d # c => rcpt'[d] = rcpt[d]
  BY DEF Include, IInv, TypeOK
<1>4. CASE Takes(Latest, m)
  <2>1. /\ n \in Num
        /\ rcpt'[c] = [code |-> "ok", num |-> n, op |-> t.txns[n].op]
        /\ tip' = Append(tip, [by |-> c, after |-> t])
    BY <1>4 DEF Include, IInv, TypeOK
  <2>2. /\ Moves(Latest, t, n, m.from)
        /\ m.do = "propose" => n = Latest.next /\ t.txns[n].op = m.op
        /\ m.do # "propose" => n = m.tx
        /\ m.do = "cancel" =>
             \A k \in Num, j \in Id : t.txns[k].votes[j] > 0
                                    => Latest.txns[k].votes[j] > 0
    BY <1>1, <1>2, <1>4, <2>1, AfterMoves
  <2>3. m.do # "propose" => m.tx < Latest.next
    BY <1>4 DEF Takes, Open
  <2> HIDE DEF m, n, t
  <2>4. t \in Msig /\ Numbered(t) /\ Later(Latest, t)
    BY <2>2 DEF Moves
  <2>5. req[c].kind \in Voting => m.do # "propose"
    BY <1>2 DEF Voting
  <2>6. Succeeds(c, n, t)
    BY <1>2, <2>1, <2>2, <2>3, <2>5 DEF Succeeds, Voting
  <2> QED
    BY <1>3, <2>1, <2>4, <2>6 DEF Executes
<1>5. CASE ~Takes(Latest, m)
  <2>1. /\ rcpt'[c].code = "error"
        /\ tip' = Append(tip, [by |-> c, after |-> Latest])
    BY <1>5 DEF Include, IInv, TypeOK, Receipt
  <2>2. Later(Latest, Latest)
    BY <1>1 DEF Later, Msig
  <2> QED
    BY <1>1, <1>3, <2>1, <2>2 DEF Executes
<1> QED
  BY <1>4, <1>5

LEMMA IncludeChained ==
  ASSUME IInv, NEW c \in Call, NEW t \in Msig, Executes(c, t)
  PROVE  Chained'
<1>1. TypeOK /\ Chained /\ Received /\ UNCHANGED <<msig, req, mst>>
  BY DEF IInv, Executes, pwvars
<1>2. ASSUME NEW n \in Num, NEW i \in Id \ Outside, t.txns[n].votes[i] > 0
      PROVE  Latest.txns[n].votes[i] > 0 \/ Asked(c, i, n)'
  <2>1. CASE t = Latest
    BY <1>2, <2>1
  <2>2. ASSUME NEW k \in Num, Succeeds(c, k, t), ~(Latest.txns[n].votes[i] > 0)
        PROVE  Asked(c, i, n)'
    <3>1. n = k /\ i = IdOf[req[c].from]
      BY <1>2, <2>2 DEF Succeeds, Moves
    <3>2. req[c].kind \in Proposing \cup {"approve"}
      BY <1>1, <1>2, <2>2, RequestFields DEF Succeeds, Executes, TypeOK, Voting
    <3> QED
      BY <1>1, <2>2, <3>1, <3>2 DEF Succeeds, Asked
  <2> QED
    BY <2>1, <2>2 DEF Executes
<1>3. ASSUME NEW n \in Num, n < t.next
      PROVE  \/ n < Latest.next \/ t.txns[n].op.do = "send"
             \/ /\ rcpt'[c].code = "ok" /\ req[c].kind \in Proposing
                /\ t.txns[n].op = OpOf(req[c])
  <2>1. ASSUME NEW k \in Num, Succeeds(c, k, t), ~(n < Latest.next)
        PROVE  /\ rcpt'[c].code = "ok" /\ req[c].kind \in Proposing
               /\ t.txns[n].op = OpOf(req[c])
    <3>1. n = k
      BY <1>3, <2>1 DEF Succeeds, Moves
    <3> QED
      BY <1>1, <2>1, <3>1, RequestFields DEF Succeeds, Executes, TypeOK
  <2> QED
    BY <1>3, <2>1 DEF Executes
<1>4. rcpt'[c].code = "ok" /\ req[c].kind \in Proposing =>
        rcpt'[c].num < t.next /\ t.txns[rcpt'[c].num].op = OpOf(req[c])
  BY DEF Executes, Succeeds, Moves
<1>5. \/ SignersSame(Latest, t)
      \/ \E n \in Num : n < t.next /\ Gives(t.txns[n].op, Latest, t)
  BY DEF Executes, Succeeds, Moves, SignersSame
<1>6. /\ tip' = Append(tip, [by |-> c, after |-> t])
      /\ \A d \in Call : d # c => rcpt'[d] = rcpt[d]
      /\ rcpt[c].code = "none" /\ mst[c] = "pooled"
      /\ Numbered(t) /\ Later(Latest, t)
  BY DEF Executes
<1> QED
  BY <1>1, <1>2, <1>3, <1>4, <1>5, <1>6, ChainedGrows

LEMMA IncludeReceived ==
  ASSUME IInv, NEW c \in Call, NEW t \in Msig, Executes(c, t)
  PROVE  Received'
<1>1. PICK len \in Nat : len = Len(tip)
  BY BlockTypes DEF IInv
<1>2. PICK top \in Nat : top = len + 1
  OBVIOUS
<1>3. /\ Len(tip') = top /\ tip'[top].by = c
      /\ \A k \in 1..len : tip'[k] = tip[k]
  <2>1. [by |-> c, after |-> t] \in Block
    BY DEF Block
  <2> QED
    BY <1>1, <1>2, <2>1, AppendProperties DEF Executes, IInv, TypeOK
<1>4. \A k : k \in 1..top <=> k \in 1..len \/ k = top
  BY <1>2
<1>5. /\ UNCHANGED <<mst, ans, req, told>> /\ rcpt'[c].code \in {"ok", "error"}
      /\ mst[c] = "pooled" /\ rcpt[c].code = "none" /\ req[c].kind # "create"
      /\ \A d \in Call : d # c => rcpt'[d] = rcpt[d]
  BY DEF Executes, Succeeds, pwvars
<1>6. \A k \in 1..Len(tip'), d \in Call : tip'[k].by = d => rcpt'[d].code # "none"
  BY <1>1, <1>3, <1>4, <1>5 DEF IInv, Received
<1>7. ASSUME NEW d \in Call, rcpt'[d].code = "ok" PROVE Done(d, Len(tip))'
  <2>1. CASE d = c
    BY <1>3, <1>4, <1>7, <2>1 DEF Done
  <2>2. CASE d # c
    BY <1>1, <1>3, <1>4, <1>5, <1>7, <2>2 DEF Done, IInv, Received
  <2> QED
    BY <2>1, <2>2
<1>8. ASSUME NEW d \in Call
      PROVE  /\ rcpt'[d].code # "none" => /\ mst[d] \in {"pooled", rcpt'[d].code}
                                         /\ req[d].kind # "create"
             /\ mst[d] \in {"ok", "error"} /\ req[d].kind # "create" =>
                  rcpt'[d].code = mst[d]
             /\ ans[d] = "ok" /\ req[d].kind \in Proposing =>
                  mst[d] = "ok" /\ told[d] = rcpt'[d]
  BY <1>5 DEF IInv, Received
<1> QED
  BY <1>5, <1>6, <1>7, <1>8 DEF Received

LEMMA IncludeDistinct ==
  ASSUME IInv, NEW c \in Call, NEW t \in Msig, Executes(c, t)
  PROVE  Distinct'
<1>1. UNCHANGED req /\ rcpt[c].code = "none"
      /\ \A d \in Call : d # c => rcpt'[d] = rcpt[d]
  BY DEF Executes
<1>2. ASSUME NEW d \in Call, d # c, rcpt[d].code = "ok", req[d].kind \in Proposing,
             rcpt'[c].code = "ok", req[c].kind \in Proposing
      PROVE  rcpt'[c].num # rcpt[d].num
  <2>1. Done(d, Len(tip)) /\ Own(Len(tip)) /\ Latest = At(Len(tip))
    BY <1>2, BlockTypes DEF IInv, Received, Chained, Holds, Height
  <2>2. rcpt[d].num < Latest.next
    BY <1>2, <2>1 DEF Own
  <2>3. rcpt'[c].num = Latest.next /\ Latest.next \in Nat
    BY <1>2, BlockTypes DEF Executes, Succeeds, IInv, Msig
  <2> QED
    BY <2>2, <2>3
<1> QED
  BY <1>1, <1>2 DEF Distinct, IInv

\* What was seen stays, wherever the head moves without a reorganisation.
LEMMA SawGrows ==
  ASSUME IInv, UNCHANGED <<req, saw, steady>>, Later(Latest, Latest'),
         Latest' \in Msig,
         \A c \in Call : rcpt'[c].code = "none" => rcpt[c].code = "none",
         \A c \in Call : req[c].kind \in Voting /\ rcpt'[c].code = "ok" =>
           \/ rcpt'[c] = rcpt[c]
           \/ /\ rcpt[c].code = "none"
              /\ rcpt'[c].op = Latest'.txns[req[c].tx].op
  PROVE  SawRight'
<1> SUFFICES ASSUME NEW c \in Call, steady[c], saw[c] # NoOp, req[c].kind \in Voting
             PROVE  /\ rcpt'[c].code = "none" =>
                         /\ req[c].tx < Latest'.next
                         /\ Latest'.txns[req[c].tx].op = saw[c]
                    /\ rcpt'[c].code = "ok" => rcpt'[c].op = saw[c]
  BY DEF SawRight
<1>1. req[c].tx \in Num /\ req[c].tx \in Nat
  BY RequestFields, NumInt DEF IInv, TypeOK
<1>2. Latest.next \in Nat /\ Latest'.next \in Nat /\ Latest.next <= Latest'.next
  BY BlockTypes DEF IInv, Msig, Later
<1>3. rcpt[c].code = "none" => /\ req[c].tx < Latest'.next
                               /\ Latest'.txns[req[c].tx].op = saw[c]
  BY <1>1, <1>2 DEF IInv, SawRight, Later
<1> QED
  BY <1>3 DEF IInv, SawRight

LEMMA IncludeSaw ==
  ASSUME IInv, NEW c \in Call, NEW t \in Msig, Executes(c, t)
  PROVE  SawRight'
<1>1. Latest' = t
  <2>1. [by |-> c, after |-> t] \in Block
    BY DEF Block
  <2> QED
    BY <2>1, Grown DEF IInv, Executes
<1>2. /\ UNCHANGED <<req, saw, steady>> /\ rcpt[c].code = "none" /\ Later(Latest, t)
      /\ \A d \in Call : d # c => rcpt'[d] = rcpt[d]
      /\ rcpt'[c].code # "none"
  BY DEF Executes, Succeeds
<1>3. req[c].kind \in Voting /\ rcpt'[c].code = "ok" => rcpt'[c].op = t.txns[req[c].tx].op
  BY DEF Executes, Succeeds
<1> QED
  BY <1>1, <1>2, <1>3, SawGrows

LEMMA IncludeStep ==
  ASSUME IInv, NEW c \in Call, Include(c)
  PROVE  Chained' /\ Received' /\ Distinct' /\ SawRight'
  BY IncludeExecutes, IncludeChained, IncludeReceived, IncludeDistinct, IncludeSaw
-----------------------------------------------------------------------------
(* A message of somebody else is executed. *)

LEMMA OtherStep ==
  ASSUME IInv, IncludeOther
  PROVE  Chained' /\ Received' /\ Distinct' /\ SawRight'
<1>1. PICK m \in OutsideMsg :
        /\ Takes(Latest, m) /\ About(Latest, m) \in Num
        /\ tip' = Append(tip, [by |-> NoCall, after |-> After(Latest, m)])
  BY DEF IncludeOther
<1>2. /\ TypeOK /\ Chained /\ Received
      /\ UNCHANGED <<msig, req, mst, ans, told, rcpt, saw, steady>>
  BY DEF IncludeOther, IInv, pwvars
<1>3. PICK n \in Num : n = About(Latest, m)
  BY <1>1
<1>4. PICK t : t = After(Latest, m)
  OBVIOUS
<1>5. /\ Latest \in Msig /\ Numbered(Latest) /\ Moves(Latest, t, n, m.from)
      /\ m.do = "propose" => n = Latest.next /\ t.txns[n].op = m.op
      /\ m.do # "propose" => n = m.tx /\ t.next = Latest.next
  BY <1>1, <1>2, <1>3, <1>4, AfterMoves, OutsideMessage, BlockTypes
     DEF Chained, Holds, Height
<1>6. m.from \in Outside /\ (m.do = "propose" => m.op.do = "send")
  <2>1. \/ \E i \in Outside, p \in Payee : m = ProposeMsg(i, [do |-> "send", to |-> p])
        \/ \E i \in Outside, d \in Voting, k \in Num : m = VoteMsg(i, d, k)
    BY DEF OutsideMsg
  <2> QED
    BY <2>1 DEF ProposeMsg, VoteMsg, Voting
<1>7. /\ t \in Msig /\ Numbered(t) /\ Later(Latest, t)
      /\ tip' = Append(tip, [by |-> NoCall, after |-> t])
      /\ [by |-> NoCall, after |-> t] \in Block
      /\ \/ SignersSame(Latest, t)
         \/ \E k \in Num : k < t.next /\ Gives(t.txns[k].op, Latest, t)
  BY <1>1, <1>4, <1>5 DEF Moves, Block
<1>8. \A k \in Num, i \in Id \ Outside :
        t.txns[k].votes[i] > 0 => Latest.txns[k].votes[i] > 0
  BY <1>5, <1>6 DEF Moves
<1>9. \A k \in Num : k < t.next => k < Latest.next \/ t.txns[k].op.do = "send"
  BY <1>5, <1>6 DEF Moves
<1>10. NoCall \notin Call
  BY MultisigAssumption
<1>11. Chained'
  BY <1>2, <1>7, <1>8, <1>9, <1>10, ChainedGrows
<1>12. /\ Latest' = t /\ Len(tip') = Len(tip) + 1 /\ Len(tip) \in Nat
       /\ \A k \in 1..Len(tip) : tip'[k] = tip[k]
       /\ tip'[Len(tip) + 1] = [by |-> NoCall, after |-> t]
  BY <1>2, <1>7, Grown, BlockTypes
<1>13. Received'
  <2>1. ASSUME NEW k \in 1..Len(tip'), NEW c \in Call, tip'[k].by = c
        PROVE  rcpt[c].code # "none"
    <3>1. k \in 1..Len(tip) \/ k = Len(tip) + 1
      BY <1>12
    <3> QED
      BY <1>10, <1>12, <2>1, <3>1, <1>2 DEF Received
  <2>2. ASSUME NEW c \in Call, rcpt[c].code = "ok" PROVE Done(c, Len(tip))'
    <3>1. \A j \in 1..Len(tip) : j \in 1..Len(tip')
      BY <1>12
    <3> QED
      BY <1>2, <1>12, <2>2, <3>1 DEF Received, Done
  <2> QED
    BY <1>2, <2>1, <2>2 DEF Received
<1>14. Distinct'
  BY <1>2 DEF Distinct, IInv
<1>15. SawRight'
  BY <1>2, <1>7, <1>12, SawGrows
<1> QED
  BY <1>11, <1>13, <1>14, <1>15
-----------------------------------------------------------------------------
(* The oldest message gets final. *)

LEMMA ConfirmFacts ==
  ASSUME IInv, Confirm
  PROVE  /\ tip # <<>> /\ tip' = Tail(tip) /\ msig' = tip[1].after
         /\ UNCHANGED <<ans, req, saw, rcpt, told, steady>>
         /\ \A c \in Call :
              IF tip[1].by = c
              THEN mst[c] = "pooled" /\ mst'[c] = rcpt[c].code
              ELSE mst'[c] = mst[c]
         /\ \A c \in Call, k \in Height' :
              (Done(c, k)' <=> Done(c, k + 1))
<1>1. /\ tip # <<>> /\ tip' = Tail(tip) /\ msig' = tip[1].after
      /\ UNCHANGED <<ans, req, saw, rcpt, told, steady>>
  BY DEF Confirm, Settle, pwvars
<1>2. ASSUME NEW c \in Call
      PROVE  IF tip[1].by = c
             THEN mst[c] = "pooled" /\ mst'[c] = rcpt[c].code
             ELSE mst'[c] = mst[c]
  BY DEF Confirm, Settle, pwvars, IInv, TypeOK, PWTypeOK
<1>3. /\ Len(tip') = Len(tip) - 1 /\ Len(tip) \in Nat /\ Len(tip) >= 1
      /\ \A k \in 1..Len(tip') : tip'[k] = tip[k + 1]
  BY <1>1, Shrunk, BlockTypes DEF IInv
<1>4. ASSUME NEW c \in Call, NEW k \in Height'
      PROVE  Done(c, k)' <=> Done(c, k + 1)
  <2>1. k \in Nat /\ \A j \in 1..k : j \in 1..Len(tip') /\ j + 1 \in 1..(k + 1)
    BY <1>3, <1>4 DEF Height
  <2>2. (\E j \in 1..k : tip'[j].by = c) => (\E j \in 1..(k + 1) : tip[j].by = c)
    BY <1>3, <2>1
  <2>3. (\E j \in 1..(k + 1) : tip[j].by = c) =>
          tip[1].by = c \/ (\E j \in 1..k : tip'[j].by = c)
    <3> SUFFICES ASSUME NEW j \in 1..(k + 1), tip[j].by = c, j # 1
                 PROVE  \E l \in 1..k : tip'[l].by = c
      OBVIOUS
    <3>1. j - 1 \in 1..k /\ (j - 1) + 1 = j
      BY <2>1
    <3>2. tip'[j - 1] = tip[j]
      BY <1>3, <2>1, <3>1
    <3> QED
      BY <3>1, <3>2
  <2>4. 1 \in 1..(k + 1)
    BY <2>1
  <2> QED
    BY <1>1, <1>2, <2>2, <2>3, <2>4 DEF Done
<1> QED
  BY <1>1, <1>2, <1>4

LEMMA ConfirmStep ==
  ASSUME IInv, Confirm
  PROVE  Chained' /\ Received' /\ Distinct' /\ SawRight'
<1>1. /\ tip # <<>> /\ tip' = Tail(tip) /\ msig' = tip[1].after
      /\ UNCHANGED <<ans, req, saw, rcpt, told, steady>>
      /\ \A c \in Call : IF tip[1].by = c
                        THEN mst[c] = "pooled" /\ mst'[c] = rcpt[c].code
                        ELSE mst'[c] = mst[c]
      /\ \A c \in Call, k \in Height' : Done(c, k)' <=> Done(c, k + 1)
  BY ConfirmFacts
<1>2. /\ Len(tip') = Len(tip) - 1 /\ Len(tip) \in Nat /\ Len(tip) >= 1
      /\ \A k \in 1..Len(tip') : tip'[k] = tip[k + 1]
      /\ \A k \in Height' : At(k)' = At(k + 1)
      /\ Latest' = Latest
  BY <1>1, Shrunk, BlockTypes DEF IInv
<1>3. Chained'
  <2> SUFFICES ASSUME NEW k \in Height' PROVE Holds(k)'
    BY DEF Chained
  <2>1. PICK h \in Nat : h = k + 1
    BY <1>2 DEF Height
  <2>2. k \in Nat /\ h \in Height /\ h > 0
    BY <1>2, <2>1 DEF Height
  <2>3. Holds(h) /\ At(k)' = At(h)
    BY <1>2, <2>1, <2>2 DEF IInv, Chained
  <2>4. k > 0 => At(k - 1)' = At(h - 1)
    <3>1. k > 0 => k - 1 \in Height' /\ (k - 1) + 1 = h - 1
      BY <1>2, <2>1, <2>2 DEF Height
    <3> QED
      BY <1>2, <3>1
  <2>5. ASSUME NEW j \in 0..k PROVE \E l \in 0..h : At(j)' = At(l)
    <3>1. j \in Height' /\ j + 1 \in 0..h
      BY <1>2, <2>1, <2>2 DEF Height
    <3> QED
      BY <1>2, <3>1
  <2>6. \A c \in Call : Done(c, k)' <=> Done(c, h)
    BY <1>1, <2>1
  <2> QED
    BY <1>1, <2>2, <2>3, <2>4, <2>5, <2>6, HoldsOn
<1>4. Received'
  <2>1. ASSUME NEW k \in 1..Len(tip'), NEW c \in Call, tip'[k].by = c
        PROVE  rcpt[c].code # "none"
    <3>1. k + 1 \in 1..Len(tip) /\ tip'[k] = tip[k + 1]
      BY <1>2
    <3> QED
      BY <2>1, <3>1 DEF IInv, Received
  <2>2. ASSUME NEW c \in Call, rcpt[c].code = "ok" PROVE Done(c, Len(tip))'
    <3>1. PICK k \in Height' : k = Len(tip')
      BY <1>2 DEF Height
    <3>2. k + 1 = Len(tip)
      BY <1>2, <3>1
    <3>3. Done(c, k)'
      BY <1>1, <2>2, <3>2 DEF IInv, Received
    <3> QED
      BY <3>1, <3>3 DEF Done
  <2>3. ASSUME NEW c \in Call
        PROVE  /\ rcpt[c].code # "none" => /\ mst'[c] \in {"pooled", rcpt[c].code}
                                          /\ req[c].kind # "create"
               /\ mst'[c] \in {"ok", "error"} /\ req[c].kind # "create" =>
                    rcpt[c].code = mst'[c]
               /\ ans[c] = "ok" /\ req[c].kind \in Proposing =>
                    mst'[c] = "ok" /\ told[c] = rcpt[c]
    BY <1>1 DEF IInv, Received
  <2> QED
    BY <1>1, <2>1, <2>2, <2>3 DEF Received
<1>5. Distinct'
  BY <1>1 DEF Distinct, IInv
<1>6. SawRight'
  BY <1>1, <1>2 DEF SawRight, IInv
<1> QED
  BY <1>3, <1>4, <1>5, <1>6
-----------------------------------------------------------------------------
(* A reorganisation. *)

LEMMA ReorganiseStep ==
  ASSUME IInv, Reorganise
  PROVE  Chained' /\ Received' /\ Distinct' /\ SawRight'
<1>1. /\ tip' = <<>> /\ UNCHANGED <<mst, ans, req, saw, msig, told>>
      /\ \A c \in Call : rcpt'[c] = IF mst[c] = "pooled" THEN NoReceipt ELSE rcpt[c]
      /\ \A c \in Call : steady'[c] => steady[c] /\ mst[c] \in {"ok", "error"}
  BY DEF Reorganise, pwvars
<1>2. Len(tip') = 0 /\ Height' = {0} /\ Len(tip) \in Nat /\ 0 \in Height
  BY <1>1, EmptySeq, BlockTypes DEF Height, IInv
<1>3. ASSUME NEW c \in Call
      PROVE  /\ rcpt'[c].code # "none" => rcpt'[c] = rcpt[c] /\ mst[c] = rcpt[c].code
             /\ Done(c, 0) <=> rcpt[c].code = "ok" /\ mst[c] = "ok"
             /\ Done(c, 0)' <=> rcpt'[c].code = "ok" /\ mst[c] = "ok"
  BY <1>1 DEF Done, NoReceipt, IInv, Received
<1>4. Holds(0)'
  <2>1. At(0)' = At(0) /\ \A j \in 0..0 : At(j)' = At(0)
    BY <1>1 DEF At
  <2>2. \A c \in Call : Done(c, 0)' <=> Done(c, 0)
    BY <1>1, <1>3 DEF NoReceipt
  <2>3. \A c \in Call : Done(c, 0) => rcpt'[c] = rcpt[c] /\ req'[c] = req[c]
    BY <1>1, <1>3
  <2>4. Holds(0)
    BY <1>2 DEF IInv, Chained
  <2> QED
    BY <2>1, <2>2, <2>3, <2>4, HoldsOn
<1>5. Received'
  <2>1. \A k \in 1..Len(tip') : FALSE
    BY <1>2
  <2>2. ASSUME NEW c \in Call, rcpt'[c].code = "ok" PROVE Done(c, Len(tip))'
    BY <1>1, <1>3, <2>2 DEF Done
  <2>3. ASSUME NEW c \in Call
        PROVE  /\ rcpt'[c].code # "none" => /\ mst[c] \in {"pooled", rcpt'[c].code}
                                           /\ req[c].kind # "create"
               /\ mst[c] \in {"ok", "error"} /\ req[c].kind # "create" =>
                    rcpt'[c].code = mst[c]
               /\ ans[c] = "ok" /\ req[c].kind \in Proposing =>
                    mst[c] = "ok" /\ told[c] = rcpt'[c]
    BY <1>1, <1>3 DEF IInv, Received
  <2> QED
    BY <1>1, <2>1, <2>2, <2>3 DEF Received
<1>6. Distinct'
  BY <1>1, <1>3 DEF Distinct, IInv
<1>7. SawRight'
  <2> SUFFICES ASSUME NEW c \in Call, steady'[c], saw[c] # NoOp, req[c].kind \in Voting
               PROVE  /\ rcpt'[c].code # "none"
                      /\ rcpt'[c].code = "ok" => rcpt'[c].op = saw[c]
    BY <1>1 DEF SawRight
  <2>1. steady[c] /\ mst[c] \in {"ok", "error"} /\ req[c].kind # "create"
    BY <1>1 DEF Voting
  <2>2. rcpt'[c] = rcpt[c] /\ rcpt[c].code = mst[c]
    BY <1>1, <2>1 DEF IInv, Received
  <2> QED
    BY <2>1, <2>2 DEF IInv, SawRight
<1> QED
  BY <1>2, <1>4, <1>5, <1>6, <1>7 DEF Chained
-----------------------------------------------------------------------------
(* What the handlers check. *)

\* Signers whose IDs are there and differ are as many as their IDs.
LEMMA SignersCounted ==
  ASSUME NEW ss \in Seq(Address), DistinctSigners(ss)
  PROVE  LET ids == {IdOf[ss[k]] : k \in DOMAIN ss}
         IN  NoAddr \notin ids /\ Cardinality(ids) = Len(ss)
<1> DEFINE ids == {IdOf[ss[k]] : k \in DOMAIN ss}
           f == Resolved(ss)
<1>1. Len(ss) \in Nat /\ DOMAIN ss = 1..Len(ss)
  BY LenProperties
<1>2. f \in [1..Len(ss) -> ids] /\ IsInjective(f)
  BY <1>1 DEF Resolved, DistinctSigners
<1>3. \A x \in ids : \E k \in 1..Len(ss) : f[k] = x
  BY <1>1 DEF Resolved
<1>4. f \in Bijection(1..Len(ss), ids)
  BY <1>2, <1>3 DEF Bijection, Injection, Surjection
<1>5. ExistsBijection(1..Len(ss), ids)
  BY <1>4 DEF ExistsBijection
<1>6. Cardinality(ids) = Len(ss)
  BY <1>1, <1>5, FS_CountingElements
<1> QED
  BY <1>6 DEF DistinctSigners

LEMMA CheckedIsTaken ==
  ASSUME TypeOK, NEW c \in Call, CreateChecked(c), ~TooMany(req[c])
  PROVE  CreateTakes(req[c])
<1> DEFINE r == req[c]
<1>1. /\ r.signers \in Seq(Address) /\ r.threshold \in Nat /\ r.threshold >= 1
      /\ Len(r.signers) >= r.threshold /\ ~r.negative /\ DistinctSigners(r.signers)
  BY RequestFields DEF CreateChecked, Is, TypeOK
<1>2. Len(r.signers) \in Nat
  BY <1>1, LenProperties
<1>3. Len(r.signers) \in 1..MaxSigners
  BY <1>1, <1>2, MultisigAssumption DEF TooMany
<1> QED
  BY <1>1, <1>2, <1>3, SignersCounted DEF CreateTakes

LEMMA CheckedStep == IInv /\ [Next]_vars => Checked'
<1> SUFFICES ASSUME IInv, [Next]_vars PROVE Checked'
  OBVIOUS
<1> USE DEF IInv, TypeOK, PWTypeOK, Phases
<1>1. ASSUME NEW c \in Call, Begin(c) PROVE Checked'
  <2>1. ~Committed(c)'
    BY <1>1 DEF Begin, Start, Goto, Committed
  <2>2. ASSUME NEW d \in Call, d # c
        PROVE  req'[d] = req[d] /\ (Committed(d)' => Committed(d))
    BY <1>1, <2>2 DEF Begin, Start, Goto, Committed
  <2> QED
    BY <2>1, <2>2 DEF Checked
<1>2. ASSUME NEW c \in Call, Ready(c), UNCHANGED msvars,
             req[c].kind = "create" /\ ~TooMany(req[c]) => CreateTakes(req[c]),
             req[c].kind \in {"add", "remove"} => IdOf[req[c].signer] # NoAddr
      PROVE  Checked'
  BY <1>2 DEF Ready, msvars, Checked, Committed
<1>3. ASSUME NEW c \in Call, CreateChecked(c) \/ ProposeChecked(c) \/ LookedUp(c)
      PROVE  Checked'
  <2>1. CASE CreateChecked(c)
    BY <1>2, <2>1, CheckedIsTaken DEF CreateChecked, Is
  <2>2. CASE ProposeChecked(c)
    BY <1>2, <2>2 DEF ProposeChecked, Is
  <2>3. CASE LookedUp(c)
    BY <1>2, <2>3 DEF LookedUp, AddLookedUp, RemoveLookedUp, SwapLookedUp,
      ApproveLookedUp, CancelLookedUp, Is
  <2> QED
    BY <1>3, <2>1, <2>2, <2>3
<1>4. ASSUME req' = req, \A c \in Call : Committed(c)' => Committed(c) PROVE Checked'
  BY <1>4 DEF Checked
<1>5. ASSUME NEW c \in Call, \/ CreateRefused(c) \/ ProposeRefused(c) \/ Unavailable(c)
                             \/ Push(c) \/ Wait(c) \/ Answered(c)
      PROVE  Checked'
  <2>1. req' = req
    BY <1>5 DEF CreateRefused, ProposeRefused, Unavailable, Push, Wait, Answered, msvars
  <2>2. \A d \in Call : Committed(d)' => Committed(d)
    BY <1>5 DEF CreateRefused, ProposeRefused, Unavailable, Decline, Push, PushOk,
      PushFails, Wait, WaitOk, WaitOkThen, WaitExit, WaitFails, Answered, AnswerAfter,
      AfterFails, Goto, Return, Committed
  <2> QED
    BY <1>4, <2>1, <2>2
<1>6. CASE Chain
  <2>1. req' = req /\ pc' = pc
    BY <1>6 DEF Chain, Include, Create, NotExecuted, IncludeOther, Confirm, Reorganise,
      Settle, msvars, pwvars
  <2>2. \A d \in Call : mst'[d] # "none" => mst[d] # "none"
    BY <1>6 DEF Chain, Include, Create, NotExecuted, IncludeOther, Confirm, Reorganise,
      Settle, pwvars
  <2> QED
    BY <1>4, <2>1, <2>2 DEF Committed
<1>7. CASE DaemonCrash
  BY <1>4, <1>7 DEF DaemonCrash, Crash, msvars, Committed, Live, Prep
<1>8. CASE UNCHANGED vars
  BY <1>4, <1>8 DEF vars, pwvars, msvars, Committed
<1> QED
  BY <1>1, <1>3, <1>5, <1>6, <1>7, <1>8 DEF Next, Handler
-----------------------------------------------------------------------------
LEMMA IInvInit == Init => IInv
<1> SUFFICES ASSUME Init PROVE IInv
  OBVIOUS
<1>1. TypeOK /\ Phases
  BY TypeInit, PWInitInv DEF Init, PWInv
<1>2. /\ tip = <<>> /\ msig = Start0
      /\ \A c \in Call : /\ rcpt[c].code = "none" /\ mst[c] = "none"
                         /\ ans[c] = "none" /\ pc[c] = "idle" /\ ~steady[c]
  BY DEF Init, PWInit, NoReceipt
<1>3. Len(tip) = 0 /\ Height = {0} /\ At(0) = Start0
  BY <1>2, EmptySeq DEF Height, At
<1>4. Holds(0)
  <2>1. /\ \A n \in Num : Start0.txns[n].fate = "none"
        /\ \A n \in Num, i \in Id : Start0.txns[n].votes[i] = 0
        /\ Start0.next = 0 /\ Num \subseteq Nat
    BY MultisigAssumption, NumInt
  <2>2. \A n \in Num : ~(n < 0)
    BY <2>1
  <2>3. Numbered(At(0))
    BY <1>3, <2>1, <2>2 DEF Numbered
  <2>4. VotesAsked(0)
    BY <1>3, <2>1 DEF VotesAsked
  <2>5. OpsAsked(0)
    BY <1>3, <2>1, <2>2 DEF OpsAsked
  <2>6. Own(0)
    BY <1>2 DEF Own, Done
  <2>7. \A j \in 0..0 : Later(At(j), At(0))
    BY <1>3, <2>1 DEF Later
  <2> QED
    BY <2>3, <2>4, <2>5, <2>6, <2>7 DEF Holds
<1>5. Chained
  BY <1>3, <1>4 DEF Chained
<1>6. Received
  BY <1>2, <1>3 DEF Received
<1>7. Checked /\ Distinct /\ SawRight
  BY <1>2 DEF Checked, Committed, Distinct, SawRight
<1> QED
  BY <1>1, <1>5, <1>6, <1>7 DEF IInv

LEMMA IInvStep == IInv /\ [Next]_vars => IInv'
<1> SUFFICES ASSUME IInv, [Next]_vars PROVE IInv'
  OBVIOUS
<1>1. TypeOK' /\ Phases' /\ Checked'
  BY TypeStep, FrameStep, PWStepInv, CheckedStep DEF IInv, PWInv, TypeOK
<1>2. CASE Quiet
  BY <1>1, <1>2, ChainedQuiet, ReceivedQuiet, DistinctQuiet, SawQuiet DEF IInv
<1>3. ASSUME NEW c \in Call, Include(c) PROVE IInv'
  BY <1>1, <1>3, IncludeStep DEF IInv
<1>4. CASE IncludeOther \/ Confirm \/ Reorganise
  BY <1>1, <1>4, OtherStep, ConfirmStep, ReorganiseStep DEF IInv
<1> QED
  BY <1>2, <1>3, <1>4 DEF Next, Chain, Quiet

\* Multisig: everything the properties below follow from.
THEOREM Invariance == Spec => []IInv
  BY IInvInit, IInvStep, PTL DEF Spec
-----------------------------------------------------------------------------
(* The properties. *)

\* The states stay what they are said to be.
THEOREM MSTypeCorrect == Spec => []TypeOK
<1>1. IInv => TypeOK
  BY DEF IInv
<1> QED
  BY <1>1, Invariance, PTL

\* Whatever MsigCreate lets through, the actor's constructor takes, unless it
\* lists more signers than the actor allows: those, which the handler does not
\* count, are pushed and refused by the chain.
THEOREM MSCreateIsTaken == Spec => []CreateIsTaken
<1>1. Init => CreateIsTaken
  BY DEF Init, PWInit, CreateIsTaken
<1>2. IInv /\ CreateIsTaken /\ [Next]_vars => CreateIsTaken'
  <2> DEFINE Right(k, r) == k = "error" <=> Len(r.signers) > MaxSigners
  <2> SUFFICES ASSUME IInv, CreateIsTaken, [Next]_vars, NEW c \in Call,
                      req'[c].kind = "create", mst'[c] \in {"ok", "error"}
               PROVE  Right(mst'[c], req'[c])
    BY DEF CreateIsTaken
  <2> USE DEF IInv, TypeOK, PWTypeOK, Phases
  <2>1. ASSUME NEW d \in Call, Begin(d) PROVE Right(mst'[c], req'[c])
    <3>1. mst' = mst /\ mst[d] = "none" /\ (d # c => req'[c] = req[c])
      BY <2>1 DEF Begin, Start, Goto
    <3> QED
      BY <3>1 DEF CreateIsTaken
  <2>2. ASSUME req' = req, mst'[c] = mst[c] PROVE Right(mst'[c], req'[c])
    BY <2>2 DEF CreateIsTaken
  <2>3. ASSUME NEW d \in Call, Handler(d) PROVE Right(mst'[c], req'[c])
    BY <2>2, <2>3 DEF Handler, CreateRefused, CreateChecked, ProposeRefused,
      ProposeChecked, LookedUp, Unavailable, Decline, Ready, Push, PushOk, PushFails,
      Wait, WaitOk, WaitOkThen, WaitExit, WaitFails, Answered, AnswerAfter, AfterFails,
      msvars
  <2>4. ASSUME NEW d \in Call, Create(d) PROVE Right(mst'[c], req'[c])
    <3>1. req' = req /\ req[d].kind = "create" /\ Committed(d)
      BY <2>4 DEF Create, Settle, msvars, Committed
    <3>2. CASE d # c
      BY <2>2, <2>4, <3>1, <3>2 DEF Create, Settle
    <3>3. CASE d = c
      <4>1. mst'[c] = IF CreateTakes(req[c]) THEN "ok" ELSE "error"
        BY <2>4, <3>3 DEF Create, Settle
      <4>2. ~TooMany(req[c]) => CreateTakes(req[c])
        BY <3>1, <3>3 DEF Checked
      <4>3. CreateTakes(req[c]) => ~TooMany(req[c])
        <5>1. Len(req[c].signers) \in 1..MaxSigners => ~(Len(req[c].signers) > MaxSigners)
          BY MultisigAssumption
        <5> QED
          BY <5>1 DEF CreateTakes, TooMany
      <4> QED
        BY <3>1, <4>1, <4>2, <4>3 DEF TooMany
    <3> QED
      BY <3>2, <3>3
  <2>5. CASE Confirm
    <3>1. req' = req /\ (tip[1].by = c => tip # <<>>)
      BY <2>5 DEF Confirm
    <3>2. CASE tip[1].by = c
      <4>1. 1 \in 1..Len(tip)
        BY <2>5, BlockTypes DEF Confirm
      <4>2. req[c].kind # "create"
        BY <3>2, <4>1 DEF Received
      <4> QED
        BY <3>1, <4>2
    <3>3. CASE tip[1].by # c
      BY <2>2, <2>5, <3>1, <3>3 DEF Confirm, Settle, pwvars
    <3> QED
      BY <3>2, <3>3
  <2>6. CASE \/ \E d \in Call : Include(d) \/ NotExecuted(d)
             \/ IncludeOther \/ Reorganise \/ DaemonCrash \/ UNCHANGED vars
    BY <2>2, <2>6 DEF Include, NotExecuted, Settle, IncludeOther, Reorganise,
      DaemonCrash, Crash, vars, pwvars, msvars
  <2> QED
    BY <2>1, <2>3, <2>4, <2>5, <2>6 DEF Next, Chain
<1> QED
  BY <1>1, <1>2, Invariance, PTL DEF Spec

\* An approval that counts was asked for.
THEOREM MSApprovalsAsked == Spec => []ApprovalsAsked
<1>1. ASSUME IInv PROVE ApprovalsAsked
  <2>1. 0 \in Height /\ At(0) = msig
    BY <1>1, BlockTypes DEF Height, At, IInv
  <2>2. VotesAsked(0)
    BY <1>1, <2>1 DEF IInv, Chained, Holds
  <2> QED
    BY <2>1, <2>2 DEF VotesAsked, ApprovalsAsked
<1> QED
  BY <1>1, Invariance, PTL

\* The number in an answer is that of the caller's own proposal, for ever.
THEOREM MSAnsweredForOwn == Spec => []AnsweredForOwn
<1>1. ASSUME IInv PROVE AnsweredForOwn
  <2>1. 0 \in Height /\ At(0) = msig
    BY <1>1, BlockTypes DEF Height, At, IInv
  <2>2. ASSUME NEW c \in Call, ans[c] = "ok", req[c].kind \in Proposing
        PROVE  Done(c, 0) /\ told[c] = rcpt[c] /\ rcpt[c].code = "ok"
    BY <1>1, <2>2 DEF IInv, Received, Done, Proposing
  <2>3. Own(0)
    BY <1>1, <2>1 DEF IInv, Chained, Holds
  <2> QED
    BY <1>1, <2>1, <2>2, <2>3 DEF Own, AnsweredForOwn, IInv, Distinct
<1> QED
  BY <1>1, Invariance, PTL

\* A vote is for the proposal its sender saw, unless the chain was reorganised.
THEOREM MSVotesForWhatWasSeen == Spec => []VotesForWhatWasSeen
<1>1. IInv => VotesForWhatWasSeen
  BY DEF IInv, Received, SawRight, VotesForWhatWasSeen, Voting
<1> QED
  BY <1>1, Invariance, PTL

\* The signers and the threshold change as some command asked, and only then.
THEOREM MSChangedAsAsked == Spec => ChangedAsAsked
<1> DEFINE A == \/ SignersSame(msig, msig')
                \/ \E c \in Call : mst'[c] = "ok" /\ Change(req[c], msig, msig')
<1>1. ASSUME IInv, [Next]_vars PROVE [A]_vars
  <2>1. CASE Confirm
    <3>1. /\ 1 \in Height /\ 1 \in 1..Len(tip) /\ At(0) = msig /\ At(1) = msig'
      BY <1>1, <2>1, BlockTypes DEF Confirm, Height, At, IInv
    <3>2. StepAsked(1) /\ 1 - 1 = 0
      BY <1>1, <3>1 DEF IInv, Chained, Holds
    <3>3. ASSUME NEW c \in Call, Done(c, 1) PROVE mst'[c] = "ok"
      <4>1. CASE mst[c] = "ok"
        BY <1>1, <2>1, <4>1 DEF Confirm, Settle, pwvars, IInv, TypeOK, PWTypeOK
      <4>2. CASE tip[1].by = c
        BY <1>1, <2>1, <3>3, <4>2 DEF Confirm, Settle, Done, IInv, TypeOK, PWTypeOK
      <4> QED
        BY <3>3, <4>1, <4>2 DEF Done
    <3> QED
      BY <3>1, <3>2, <3>3 DEF StepAsked
  <2>2. CASE msig' = msig
    BY <2>2 DEF SignersSame
  <2> QED
    BY <1>1, <2>1, <2>2
       DEF Next, Begin, Handler, Chain, CreateRefused, CreateChecked, ProposeRefused,
         ProposeChecked, LookedUp, Unavailable, Push, Wait, Answered, Include, Create,
         NotExecuted, IncludeOther, Reorganise, DaemonCrash, msvars, vars
<1> HIDE DEF A
<1>2. [][A]_vars => ChangedAsAsked
  BY PTL DEF A, ChangedAsAsked
<1> QED
  BY <1>1, <1>2, Invariance, PTL DEF Spec
-----------------------------------------------------------------------------
(* That a multisig stays one its signers can use. *)

\* There are signers enough for the threshold, which is what MsigCreate checks.
Usable(s) == s.threshold \in 1..Cardinality(s.signers)

AllUsable == \A k \in Height : Usable(At(k))

LEMMA GivesUsable ==
  ASSUME NEW s \in Msig, NEW t \in Msig, NEW op \in Op, Usable(s),
         Gives(op, s, t)
  PROVE  Usable(t)
<1>1. IsFiniteSet(s.signers) /\ s.threshold \in Nat
  BY FS_Subset, MultisigAssumption DEF Msig
<1>2. Cardinality(s.signers) \in Nat
  BY <1>1, FS_CardinalityType
<1>3. CASE op.do = "send"
  BY <1>3 DEF SignersSame, Gives, Usable
<1>4. CASE op.do = "add"
  <2>1. Cardinality(s.signers \cup {op.who}) = Cardinality(s.signers) + 1
    BY <1>1, <1>4, FS_AddElement DEF Gives
  <2>2. /\ Cardinality(t.signers) = Cardinality(s.signers) + 1
        /\ t.threshold = IF op.alter THEN s.threshold + 1 ELSE s.threshold
    BY <1>4, <2>1 DEF Gives
  <2>3. t.threshold \in {s.threshold, s.threshold + 1}
    BY <2>2
  <2> QED
    BY <1>1, <1>2, <2>2, <2>3 DEF Usable
<1>5. CASE op.do = "remove"
  <2>1. Cardinality(s.signers \ {op.who}) = Cardinality(s.signers) - 1
    BY <1>1, <1>5, FS_RemoveElement DEF Gives
  <2>2. IF op.alter THEN s.threshold > 1 ELSE Cardinality(s.signers) > s.threshold
    BY <1>5 DEF Gives, Acceptable
  <2>3. /\ Cardinality(t.signers) = Cardinality(s.signers) - 1
        /\ t.threshold = IF op.alter THEN s.threshold - 1 ELSE s.threshold
    BY <1>5, <2>1 DEF Gives
  <2>4. CASE op.alter
    BY <1>1, <1>2, <2>2, <2>3, <2>4 DEF Usable
  <2>5. CASE ~op.alter
    BY <1>1, <1>2, <2>2, <2>3, <2>5 DEF Usable
  <2> QED
    BY <2>4, <2>5
<1>6. CASE op.do = "swap"
  <2> DEFINE u == s.signers \ {op.old}
  <2>1. IsFiniteSet(u) /\ Cardinality(u) = Cardinality(s.signers) - 1
    BY <1>1, <1>6, FS_RemoveElement DEF Gives
  <2>2. op.new \notin u /\ t.signers = u \cup {op.new} /\ t.threshold = s.threshold
    BY <1>6 DEF Gives
  <2>3. Cardinality(t.signers) = Cardinality(u) + 1
    BY <2>1, <2>2, FS_AddElement
  <2> QED
    BY <1>2, <2>1, <2>2, <2>3 DEF Usable
<1> QED
  BY <1>3, <1>4, <1>5, <1>6 DEF Op

\* A message executed at the head leaves the signers or changes them as some
\* numbered operation says.
LEMMA HeadGives ==
  ASSUME IInv, (\E c \in Call : Include(c)) \/ IncludeOther
  PROVE  \E t \in Msig, by \in Call \cup {NoCall} :
           /\ tip' = Append(tip, [by |-> by, after |-> t]) /\ msig' = msig
           /\ \/ SignersSame(Latest, t)
              \/ \E op \in Op : Gives(op, Latest, t)
<1>1. Latest \in Msig /\ Numbered(Latest)
  BY BlockTypes DEF IInv, Chained, Holds, Height
<1>2. ASSUME NEW c \in Call, Include(c)
      PROVE  \E t \in Msig, by \in Call \cup {NoCall} :
               /\ tip' = Append(tip, [by |-> by, after |-> t]) /\ msig' = msig
               /\ \/ SignersSame(Latest, t)
                  \/ \E op \in Op : Gives(op, Latest, t)
  <2>1. PICK t \in Msig : Executes(c, t)
    BY <1>2, IncludeExecutes
  <2>2. \/ SignersSame(Latest, t)
        \/ \E n \in Num : n < t.next /\ Gives(t.txns[n].op, Latest, t)
    BY <2>1 DEF Executes, Succeeds, Moves, SignersSame
  <2>3. \A n \in Num : n < t.next => t.txns[n].op \in Op
    BY <2>1 DEF Executes, Numbered
  <2> QED
    BY <2>1, <2>2, <2>3 DEF Executes
<1>3. CASE IncludeOther
  <2>1. PICK m \in OutsideMsg :
          /\ Takes(Latest, m) /\ About(Latest, m) \in Num
          /\ tip' = Append(tip, [by |-> NoCall, after |-> After(Latest, m)])
    BY <1>3 DEF IncludeOther
  <2>2. PICK t : t = After(Latest, m)
    OBVIOUS
  <2>3. PICK n \in Num : n = About(Latest, m)
    BY <2>1
  <2>4. Moves(Latest, t, n, m.from)
    BY <1>1, <2>1, <2>2, <2>3, AfterMoves, OutsideMessage
  <2>5. /\ t \in Msig /\ t.txns[n].op \in Op
        /\ SignersSame(Latest, t) \/ Gives(t.txns[n].op, Latest, t)
    BY <2>4 DEF Moves, Numbered
  <2> QED
    BY <1>3, <2>1, <2>2, <2>5 DEF IncludeOther
<1> QED
  BY <1>2, <1>3

LEMMA AllUsableStep == IInv /\ AllUsable /\ [Next]_vars => AllUsable'
<1> SUFFICES ASSUME IInv, AllUsable, [Next]_vars PROVE AllUsable'
  OBVIOUS
<1>1. TypeOK /\ Len(tip) \in Nat /\ Latest = At(Len(tip)) /\ Latest \in Msig
      /\ Len(tip) \in Height /\ 0 \in Height
  BY BlockTypes DEF IInv, Height
<1>2. CASE UNCHANGED <<msig, tip>>
  BY <1>2 DEF AllUsable, Height, At
<1>3. CASE (\E c \in Call : Include(c)) \/ IncludeOther
  <2>1. PICK t \in Msig, by \in Call \cup {NoCall} :
          /\ tip' = Append(tip, [by |-> by, after |-> t]) /\ msig' = msig
          /\ \/ SignersSame(Latest, t)
             \/ \E op \in Op : Gives(op, Latest, t)
    BY <1>3, HeadGives
  <2>2. Usable(Latest)
    BY <1>1 DEF AllUsable
  <2>3. Usable(t)
    <3>1. CASE SignersSame(Latest, t)
      BY <2>2, <3>1 DEF SignersSame, Usable
    <3> QED
      BY <1>1, <2>1, <2>2, <3>1, GivesUsable
  <2>4. [by |-> by, after |-> t] \in Block
    BY DEF Block
  <2>5. /\ Len(tip') = Len(tip) + 1
        /\ \A k \in Height : At(k)' = At(k)
        /\ \A k \in Nat : k = Len(tip) + 1 => At(k)' = t
    BY <1>1, <2>1, <2>4, Grown
  <2>6. \A k \in Height' : k \in Height \/ k = Len(tip) + 1
    BY <1>1, <2>5 DEF Height
  <2>7. Len(tip) + 1 \in Nat
    BY <1>1
  <2> QED
    BY <2>3, <2>5, <2>6, <2>7 DEF AllUsable
<1>4. CASE Confirm
  <2>1. /\ Len(tip') = Len(tip) - 1 /\ \A k \in Height' : At(k)' = At(k + 1)
    BY <1>1, <1>4, Shrunk DEF Confirm
  <2>2. \A k \in Height' : k + 1 \in Height
    BY <1>1, <2>1 DEF Height
  <2> QED
    BY <2>1, <2>2 DEF AllUsable
<1>5. CASE Reorganise
  <2>1. tip' = <<>> /\ msig' = msig /\ Len(tip') = 0
    BY <1>5, EmptySeq DEF Reorganise
  <2> QED
    BY <1>1, <2>1 DEF AllUsable, Height, At
<1>6. CASE Quiet
  BY <1>2, <1>6, QuietFacts DEF IInv
<1> QED
  BY <1>3, <1>4, <1>5, <1>6 DEF Next, Chain, Quiet

\* No commands, of whatever signers and in whatever order, and no reorganisation
\* leave a multisig with fewer signers than its threshold: neither where it is
\* final nor at the head, which the handlers read.
THEOREM MSStaysUsable == Spec /\ Usable(Start0) => [](Usable(msig) /\ Usable(Latest))
<1>1. Init /\ Usable(Start0) => AllUsable
  BY EmptySeq DEF Init, AllUsable, Height, At
<1>2. IInv /\ AllUsable => Usable(msig) /\ Usable(Latest)
  <2> SUFFICES ASSUME IInv, AllUsable PROVE Usable(msig) /\ Usable(Latest)
    OBVIOUS
  <2>1. 0 \in Height /\ At(0) = msig /\ Len(tip) \in Height /\ Latest = At(Len(tip))
    BY BlockTypes DEF IInv, Height, At
  <2> QED
    BY <2>1 DEF AllUsable
<1> QED
  BY <1>1, <1>2, Invariance, AllUsableStep, PTL DEF Spec

\* Whatever has a number and is no payment was proposed by a command whose message
\* has been executed, and is the operation of that command.
ProposalsAsked ==
  \A n \in Num : n < msig.next =>
    \/ msig.txns[n].op.do = "send"
    \/ \E c \in Call : /\ mst[c] = "ok" /\ req[c].kind \in Proposing
                        /\ msig.txns[n].op = OpOf(req[c])

THEOREM MSProposalsAsked == Spec => []ProposalsAsked
<1>1. ASSUME IInv PROVE ProposalsAsked
  <2>1. 0 \in Height /\ At(0) = msig
    BY <1>1, BlockTypes DEF Height, At, IInv
  <2>2. OpsAsked(0)
    BY <1>1, <2>1 DEF IInv, Chained, Holds
  <2>3. \A c \in Call : Done(c, 0) => mst[c] = "ok"
    BY DEF Done
  <2> QED
    BY <2>1, <2>2, <2>3 DEF OpsAsked, ProposalsAsked
<1> QED
  BY <1>1, Invariance, PTL

\* Every answer of the multisig handlers stays true.
THEOREM MSAnswersLast == Spec => PC!Lasting
  BY MSKeepsPromise, PromiseLasts DEF KeepsPromise
=============================================================================
