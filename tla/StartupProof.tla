---------------------------- MODULE StartupProof ----------------------------
(***************************************************************************)
(* What the starts keep for any number of starts and of services, and for  *)
(* all command lines.  The argument: while starts do not meet at the       *)
(* repository, at most one is at it, and what the others are about says    *)
(* what is in the file.                                                    *)
(***************************************************************************)
EXTENDS Startup, TLAPS

\* Starts that do not meet are not at the repository together.
Alone == apart => \A p, q \in Run : pc[p] \in Opening /\ pc[q] \in Opening => p = q

Past == {"check", "dial", "serving"}   \* the repository is behind

\* Without the directory no start has found or made one.
NoDir == ~dir => \A p \in Run : pc[p] \notin {"load"} \cup Making \cup Past

\* A start that makes a repository is the last that found none, and no other is
\* past it.
First == apart => \A p \in Run : pc[p] \in {"mkdir"} \cup Making =>
           /\ cfg[p] = UpdateFlag(Default, flags[p]) /\ origin = flags[p]
           /\ \A q \in Run : pc[q] \notin Past

\* The file is what the last start that found no directory has made of its flags.
Kept == apart /\ ~torn /\ dir /\ (\A p \in Run : pc[p] \notin Making) =>
          file.has = "text" /\ file.cfg = UpdateFlag(Default, origin)

\* What ServesAsConfigured asks of a start that serves.
Configured(p) ==
  /\ cfg[p].listen = IF flags[p].listen \/ origin.listen
                       THEN "given" ELSE "127.0.0.1:8090"
  /\ \A s \in Service :
       LET f == flags[p]
       IN  cfg[p].api[s] =
             [addr  |-> Or(AddrIn(f, s), NoAddr, AddrIn(origin, s)),
              token |-> Or(TokenIn(f, s), NoToken, TokenIn(origin, s))]

AllConfigured == apart /\ ~torn => \A p \in Run : pc[p] \in Past => Configured(p)

\* What the checks have let through.
Passed == \A p \in Run : /\ pc[p] \in {"dial", "serving"} => Complete(p)
                         /\ pc[p] = "serving" => ~NoHeader(p)

IInv == /\ TypeOK /\ Alone /\ NoDir /\ First /\ Kept /\ AllConfigured /\ Passed
        /\ UsableUnlessTorn

-----------------------------------------------------------------------------
(* Configurations. *)

LEMMA APITypes ==
  ASSUME NEW old \in API, NEW given \in API, NEW common \in Token \cup {NoToken}
  PROVE  UpdateApi(old, given, common) \in API
<1> DEFINE x == IF given.addr # NoAddr THEN given.addr ELSE old.addr
           y == IF given.token # NoToken THEN given.token
                ELSE IF common # NoToken THEN common ELSE old.token
<1>1. x \in Addr \cup {NoAddr} /\ y \in Token \cup {NoToken}
  BY DEF API
<1>2. UpdateApi(old, given, common) = [addr |-> x, token |-> y]
  BY DEF UpdateApi
<1> HIDE DEF x, y
<1> QED
  BY <1>1, <1>2 DEF API

LEMMA UpdateTypes ==
  ASSUME NEW c \in Config, NEW f \in Flags
  PROVE  UpdateFlag(c, f) \in Config
<1> DEFINE a == [s \in Service |-> IF s \in f.set
                   THEN UpdateApi(c.api[s], f.api[s], f.common) ELSE c.api[s]]
           l == IF f.listen THEN "given" ELSE c.listen
<1>1. /\ c.api \in [Service -> API] /\ c.listen \in Listen
      /\ f.api \in [Service -> API] /\ f.common \in Token \cup {NoToken}
  BY DEF Config, Flags
<1>2. a \in [Service -> API]
  BY <1>1, APITypes
<1>3. l \in Listen
  BY <1>1 DEF Listen
<1>4. UpdateFlag(c, f) = [listen |-> l, api |-> a]
  BY DEF UpdateFlag
<1> HIDE DEF a, l
<1> QED
  BY <1>2, <1>3, <1>4 DEF Config

LEMMA DefaultTypes == Default \in Config /\ Blank \in Config /\ NoFlags \in Flags
<1>1. NoAPI \in [Service -> API]
  BY DEF NoAPI, API
<1> QED
  BY <1>1 DEF Default, Blank, NoFlags, Config, Flags, Listen

LEMMA CutTypes ==
  ASSUME NEW c \in Config, NEW n
  PROVE  Cut(c, n) \in Config
<1> DEFINE addr(s) == IF n >= 2 * Table[s] THEN c.api[s].addr ELSE NoAddr
           token(s) == IF n > 2 * Table[s] THEN c.api[s].token ELSE NoToken
           a == [s \in Service |-> [addr |-> addr(s), token |-> token(s)]]
           l == IF n = 0 THEN "" ELSE c.listen
<1>1. c.api \in [Service -> API] /\ c.listen \in Listen
  BY DEF Config
<1>2. ASSUME NEW s \in Service
      PROVE  addr(s) \in Addr \cup {NoAddr} /\ token(s) \in Token \cup {NoToken}
  BY <1>1 DEF API
<1>3. Cut(c, n) = [listen |-> l, api |-> a]
  BY DEF Cut
<1> HIDE DEF addr, token
<1>4. a \in [Service -> API]
  BY <1>2 DEF API
<1>5. l \in Listen
  BY <1>1 DEF Listen
<1> HIDE DEF a, l
<1> QED
  BY <1>3, <1>4, <1>5 DEF Config

\* The flags over the defaults.
LEMMA UpdatedDefault ==
  ASSUME NEW f \in Flags
  PROVE  LET c == UpdateFlag(Default, f)
         IN  /\ c.listen = IF f.listen THEN "given" ELSE "127.0.0.1:8090"
             /\ \A s \in Service : c.api[s] = [addr |-> AddrIn(f, s), token |-> TokenIn(f, s)]
<1> DEFINE c == UpdateFlag(Default, f)
<1>1. c.listen = IF f.listen THEN "given" ELSE "127.0.0.1:8090"
  BY DEF UpdateFlag, Default
<1>2. ASSUME NEW s \in Service
      PROVE  c.api[s] = [addr |-> AddrIn(f, s), token |-> TokenIn(f, s)]
  <2>1. Default.api[s] = [addr |-> NoAddr, token |-> NoToken]
    BY DEF Default, NoAPI
  <2>2. CASE s \in f.set
    <3>1. c.api[s] = UpdateApi(Default.api[s], f.api[s], f.common)
      BY <2>2 DEF UpdateFlag
    <3> QED
      BY <2>1, <2>2, <3>1 DEF UpdateApi, AddrIn, TokenIn
  <2>3. CASE s \notin f.set
    <3>1. c.api[s] = Default.api[s]
      BY <2>3 DEF UpdateFlag
    <3> QED
      BY <2>1, <2>3, <3>1 DEF AddrIn, TokenIn
  <2> QED
    BY <2>2, <2>3
<1> QED
  BY <1>1, <1>2

\* And the flags of a later start over what the first has saved.
LEMMA UpdatedTwice ==
  ASSUME NEW g \in Flags, NEW f \in Flags
  PROVE  LET c == UpdateFlag(UpdateFlag(Default, g), f)
         IN  /\ c.listen = IF f.listen \/ g.listen THEN "given" ELSE "127.0.0.1:8090"
             /\ \A s \in Service :
                  c.api[s] = [addr  |-> Or(AddrIn(f, s), NoAddr, AddrIn(g, s)),
                              token |-> Or(TokenIn(f, s), NoToken, TokenIn(g, s))]
<1> DEFINE b == UpdateFlag(Default, g)
           c == UpdateFlag(b, f)
<1>1. /\ b.listen = IF g.listen THEN "given" ELSE "127.0.0.1:8090"
      /\ \A s \in Service : b.api[s] = [addr |-> AddrIn(g, s), token |-> TokenIn(g, s)]
  BY UpdatedDefault
<1> HIDE DEF b
<1>2. c.listen = IF f.listen \/ g.listen THEN "given" ELSE "127.0.0.1:8090"
  BY <1>1 DEF UpdateFlag
<1>3. ASSUME NEW s \in Service
      PROVE  c.api[s] = [addr  |-> Or(AddrIn(f, s), NoAddr, AddrIn(g, s)),
                         token |-> Or(TokenIn(f, s), NoToken, TokenIn(g, s))]
  <2>1. b.api[s] = [addr |-> AddrIn(g, s), token |-> TokenIn(g, s)]
    BY <1>1
  <2> HIDE DEF c
  <2>2. b.api[s].addr = AddrIn(g, s) /\ b.api[s].token = TokenIn(g, s)
    BY <2>1
  <2> USE DEF c
  <2>3. CASE s \in f.set
    <3>1. c.api[s] = UpdateApi(b.api[s], f.api[s], f.common)
      BY <2>3 DEF UpdateFlag
    <3>2. AddrIn(f, s) = f.api[s].addr
      BY <2>3 DEF AddrIn
    <3>3. TokenIn(f, s) = IF f.api[s].token # NoToken THEN f.api[s].token ELSE f.common
      BY <2>3 DEF TokenIn
    <3> QED
      BY <2>2, <3>1, <3>2, <3>3 DEF UpdateApi, Or
  <2>4. CASE s \notin f.set
    <3>1. c.api[s] = b.api[s]
      BY <2>4 DEF UpdateFlag
    <3> QED
      BY <2>1, <2>4, <3>1 DEF AddrIn, TokenIn, Or
  <2> QED
    BY <2>3, <2>4
<1> QED
  BY <1>1, <1>2, <1>3 DEF b
-----------------------------------------------------------------------------
(* One part after the other. *)

LEMMA TypeInit == Init => TypeOK
<1> SUFFICES ASSUME Init PROVE TypeOK
  OBVIOUS
<1>1. file \in File
  BY DefaultTypes DEF Init, File
<1>2. pc \in [Run -> Running \cup Ended \cup {"idle"}] /\ dir \in BOOLEAN
  BY DEF Init
<1>3. cfg \in [Run -> Config] /\ flags \in [Run -> Flags] /\ origin \in Flags
  BY DefaultTypes DEF Init
<1> QED
  BY <1>1, <1>2, <1>3 DEF Init, TypeOK

LEMMA TypeStep == TypeOK /\ [Next]_vars => TypeOK'
<1> SUFFICES ASSUME TypeOK, [Next]_vars PROVE TypeOK'
  OBVIOUS
<1> USE DEF TypeOK, Goto, Running, Opening, Making, Ended
<1>1. ASSUME NEW p \in Run, Begin(p) PROVE TypeOK'
  BY <1>1, StartupAssumption DEF Begin
<1>2. ASSUME NEW p \in Run, LookFresh(p) PROVE TypeOK'
  BY <1>2, UpdateTypes, DefaultTypes DEF LookFresh
<1>3. ASSUME NEW p \in Run, Load(p) PROVE TypeOK'
  <2>1. UpdateFlag(file.cfg, flags[p]) \in Config
    BY UpdateTypes DEF File
  <2> QED
    BY <1>3, <2>1 DEF Load
<1>4. ASSUME NEW p \in Run, Create(p) PROVE TypeOK'
  <2>1. file' \in File
    BY <1>4, DefaultTypes DEF Create, File
  <2> QED
    BY <1>4, <2>1 DEF Create
<1>5. ASSUME NEW p \in Run, Write(p) PROVE TypeOK'
  <2>1. file' \in File
    BY <1>5 DEF Write, File
  <2> QED
    BY <1>5, <2>1 DEF Write
<1>6. ASSUME NEW p \in Run, WriteFails(p) PROVE TypeOK'
  <2>1. file' \in File
    BY <1>6, DefaultTypes, CutTypes DEF WriteFails, File
  <2> QED
    BY <1>6, <2>1 DEF WriteFails
<1>7. ASSUME NEW p \in Run, \/ LookThere(p) \/ LoadFails(p) \/ MkDir(p) \/ MkDirFails(p)
                            \/ CreateFails(p) \/ Compose(p) \/ Kill(p)
      PROVE  TypeOK'
  BY <1>7 DEF LookThere, LoadFails, MkDir, MkDirFails, CreateFails, Compose,
    Incomplete, Checked, Serve, DialFails, Kill
<1>8. CASE UNCHANGED vars
  BY <1>8 DEF vars
<1> QED
  BY <1>1, <1>2, <1>3, <1>4, <1>5, <1>6, <1>7, <1>8 DEF Next, Open

LEMMA AloneStep == TypeOK /\ Alone /\ [Next]_vars => Alone'
<1> SUFFICES ASSUME TypeOK, Alone, [Next]_vars PROVE Alone'
  OBVIOUS
<1> USE DEF TypeOK, Alone, Goto, Opening, Making
<1>1. ASSUME NEW p \in Run, Begin(p) PROVE Alone'
  BY <1>1 DEF Begin
<1>2. ASSUME NEW p \in Run, Open(p) PROVE Alone'
  <2>1. pc[p] \in Opening /\ apart' = apart
        /\ \A q \in Run : q # p => pc'[q] = pc[q]
    BY <1>2 DEF Open, LookThere, LookFresh, Load, LoadFails, MkDir, MkDirFails, Create,
      CreateFails, Write, WriteFails
  <2> QED
    BY <2>1
<1>3. ASSUME NEW p \in Run, Compose(p) \/ Kill(p) PROVE Alone'
  <2>1. apart' = apart /\ pc'[p] \notin Opening
        /\ \A q \in Run : q # p => pc'[q] = pc[q]
    BY <1>3 DEF Compose, Incomplete, Checked, Serve, DialFails, Kill
  <2> QED
    BY <2>1
<1> QED
  BY <1>1, <1>2, <1>3 DEF Next, vars

LEMMA NoDirStep == TypeOK /\ NoDir /\ [Next]_vars => NoDir'
<1> SUFFICES ASSUME TypeOK, NoDir, [Next]_vars PROVE NoDir'
  OBVIOUS
<1> USE DEF TypeOK, NoDir, Goto, Making, Past
<1>1. ASSUME NEW p \in Run, Begin(p) PROVE NoDir'
  BY <1>1 DEF Begin
<1>2. ASSUME NEW p \in Run, Open(p) PROVE NoDir'
  BY <1>2 DEF Open, LookThere, LookFresh, Load, LoadFails, MkDir, MkDirFails, Create,
    CreateFails, Write, WriteFails
<1>3. ASSUME NEW p \in Run, Compose(p) \/ Kill(p) PROVE NoDir'
  BY <1>3 DEF Compose, Incomplete, Checked, Serve, DialFails, Kill
<1> QED
  BY <1>1, <1>2, <1>3 DEF Next, vars

LEMMA FirstStep == IInv /\ [Next]_vars => First'
<1> SUFFICES ASSUME IInv, [Next]_vars PROVE First'
  OBVIOUS
<1> USE DEF IInv, TypeOK, First, Goto, Making, Past
<1>1. ASSUME NEW p \in Run, Begin(p) PROVE First'
  BY <1>1 DEF Begin
<1>2. ASSUME NEW p \in Run, LookFresh(p) PROVE First'
  <2>1. /\ \A q \in Run : q # p => pc'[q] = pc[q]
        /\ pc[p] = "look" /\ pc'[p] = "mkdir" /\ flags' = flags /\ apart' = apart
        /\ cfg'[p] = UpdateFlag(Default, flags[p]) /\ origin' = flags[p]
    BY <1>2 DEF LookFresh
  <2>2. \A q \in Run : pc'[q] \notin Past
    BY <1>2, <2>1 DEF LookFresh, NoDir
  <2>3. apart => \A q \in Run : q # p => pc'[q] \notin {"mkdir"} \cup Making
    BY <2>1 DEF Alone, Opening
  <2> HIDE DEF IInv, TypeOK, Goto
  <2> QED
    BY <2>1, <2>2, <2>3
<1>3. ASSUME NEW p \in Run, Load(p) \/ Write(p) PROVE First'
  <2>1. /\ \A q \in Run : q # p => /\ pc'[q] = pc[q] /\ flags'[q] = flags[q]
                                   /\ cfg'[q] = cfg[q]
        /\ pc[p] \in {"load", "write"} /\ pc'[p] = "check"
        /\ UNCHANGED <<origin, apart>>
    BY <1>3 DEF Load, Write
  <2>2. apart => \A q \in Run : pc'[q] \notin {"mkdir"} \cup Making
    BY <2>1 DEF Alone, Opening
  <2> QED
    BY <2>1, <2>2
<1>4. ASSUME NEW p \in Run, \/ LookThere(p) \/ LoadFails(p) \/ MkDir(p)
                            \/ MkDirFails(p) \/ Create(p) \/ CreateFails(p)
                            \/ WriteFails(p)
      PROVE  First'
  BY <1>4 DEF LookThere, LoadFails, MkDir, MkDirFails, Create, CreateFails, WriteFails
<1>5. ASSUME NEW p \in Run, Compose(p) \/ Kill(p) PROVE First'
  BY <1>5 DEF Compose, Incomplete, Checked, Serve, DialFails, Kill
<1>6. CASE UNCHANGED vars
  BY <1>6 DEF vars
<1> QED
  BY <1>1, <1>2, <1>3, <1>4, <1>5, <1>6 DEF Next, Open

LEMMA KeptStep == IInv /\ [Next]_vars => Kept'
<1> SUFFICES ASSUME IInv, [Next]_vars PROVE Kept'
  OBVIOUS
<1> USE DEF IInv, TypeOK, Kept, Goto, Making
<1>1. ASSUME NEW p \in Run, Begin(p) PROVE Kept'
  BY <1>1 DEF Begin
<1>2. ASSUME NEW p \in Run, \/ LookThere(p) \/ LookFresh(p) \/ Load(p) \/ LoadFails(p)
                            \/ MkDirFails(p)
      PROVE  Kept'
  BY <1>2 DEF LookThere, LookFresh, Load, LoadFails, MkDirFails
<1>3. ASSUME NEW p \in Run, \/ MkDir(p) \/ Create(p) \/ CreateFails(p) \/ WriteFails(p)
      PROVE  Kept'
  BY <1>3 DEF MkDir, Create, CreateFails, WriteFails
<1>4. ASSUME NEW p \in Run, Write(p) PROVE Kept'
  BY <1>4 DEF Write, First
<1>5. ASSUME NEW p \in Run, Compose(p) \/ Kill(p) PROVE Kept'
  BY <1>5 DEF Compose, Incomplete, Checked, Serve, DialFails, Kill
<1>6. CASE UNCHANGED vars
  BY <1>6 DEF vars
<1> QED
  BY <1>1, <1>2, <1>3, <1>4, <1>5, <1>6 DEF Next, Open

\* A start past the repository has what it will serve with.
LEMMA ConfiguredStep == IInv /\ [Next]_vars => AllConfigured'
<1> SUFFICES ASSUME IInv, [Next]_vars, apart', ~torn', NEW q \in Run, pc'[q] \in Past
             PROVE  Configured(q)'
  BY DEF AllConfigured
<1> USE DEF IInv, TypeOK, Goto, Past
<1>1. apart /\ ~torn
  BY DEF Next, Begin, Open, LookThere, LookFresh, Load, LoadFails, MkDir, MkDirFails,
    Create, CreateFails, Write, WriteFails, Compose, Incomplete, Checked, Serve,
    DialFails, Kill, vars
<1>2. ASSUME pc[q] \in Past, origin' = origin, flags'[q] = flags[q], cfg'[q] = cfg[q]
      PROVE  Configured(q)'
  BY <1>1, <1>2 DEF AllConfigured, Configured
<1>3. ASSUME NEW p \in Run, Begin(p) PROVE Configured(q)'
  BY <1>2, <1>3 DEF Begin
<1>4. ASSUME NEW p \in Run, LookFresh(p) PROVE Configured(q)'
  BY <1>4 DEF LookFresh, NoDir
<1>5. ASSUME NEW p \in Run, Load(p) PROVE Configured(q)'
  <2>1. CASE q = p
    <3>1. /\ cfg'[q] = UpdateFlag(file.cfg, flags[q])
          /\ UNCHANGED <<flags, origin>> /\ pc[q] = "load"
      BY <1>5, <2>1 DEF Load
    <3>2. dir /\ \A r \in Run : pc[r] \notin Making
      BY <1>1, <3>1 DEF NoDir, Alone, Opening, Making
    <3>3. file.cfg = UpdateFlag(Default, origin)
      BY <1>1, <3>2 DEF Kept
    <3>4. flags[q] \in Flags /\ origin \in Flags
      OBVIOUS
    <3> HIDE DEF IInv, TypeOK
    <3> QED
      BY <3>1, <3>3, <3>4, UpdatedTwice DEF Configured
  <2>2. CASE q # p
    BY <1>2, <1>5, <2>2 DEF Load
  <2> QED
    BY <2>1, <2>2
<1>6. ASSUME NEW p \in Run, Write(p) PROVE Configured(q)'
  <2>1. CASE q = p
    <3>1. /\ cfg'[q] = UpdateFlag(Default, flags[q]) /\ origin = flags[q]
          /\ UNCHANGED <<flags, origin>> /\ flags[q] \in Flags
      BY <1>1, <1>6, <2>1 DEF Write, First, Making
    <3> HIDE DEF IInv, TypeOK
    <3>2. \A x, n : Or(x, n, x) = x
      BY DEF Or
    <3> QED
      BY <3>1, <3>2, UpdatedDefault DEF Configured
  <2>2. CASE q # p
    BY <1>2, <1>6, <2>2 DEF Write
  <2> QED
    BY <2>1, <2>2
<1>7. ASSUME NEW p \in Run, \/ LookThere(p) \/ LoadFails(p) \/ MkDir(p)
                            \/ MkDirFails(p) \/ Create(p) \/ CreateFails(p)
                            \/ WriteFails(p)
      PROVE  Configured(q)'
  BY <1>2, <1>7 DEF LookThere, LoadFails, MkDir, MkDirFails, Create, CreateFails,
    WriteFails
<1>8. ASSUME NEW p \in Run, Compose(p) \/ Kill(p) PROVE Configured(q)'
  BY <1>2, <1>8 DEF Compose, Incomplete, Checked, Serve, DialFails, Kill
<1>9. CASE UNCHANGED vars
  BY <1>2, <1>9 DEF vars
<1> QED
  BY <1>3, <1>4, <1>5, <1>6, <1>7, <1>8, <1>9 DEF Next, Open

LEMMA PassedStep == IInv /\ [Next]_vars => Passed'
<1> SUFFICES ASSUME IInv, [Next]_vars, NEW q \in Run
             PROVE  /\ pc'[q] \in {"dial", "serving"} => Complete(q)'
                    /\ pc'[q] = "serving" => ~NoHeader(q)'
  BY DEF Passed
<1> USE DEF IInv, TypeOK, Goto, Passed
<1> DEFINE Goal == /\ pc'[q] \in {"dial", "serving"} => Complete(q)'
                   /\ pc'[q] = "serving" => ~NoHeader(q)'
<1>1. ASSUME cfg'[q] = cfg[q]
      PROVE  (Complete(q)' <=> Complete(q)) /\ (NoHeader(q)' <=> NoHeader(q))
  BY <1>1 DEF Complete, NoHeader
<1>2. ASSUME pc'[q] \notin {"dial", "serving"} PROVE Goal
  BY <1>2
<1>3. ASSUME pc'[q] = pc[q], cfg'[q] = cfg[q] PROVE Goal
  BY <1>1, <1>3
<1>4. ASSUME NEW p \in Run, Begin(p) \/ Open(p) PROVE Goal
  <2>1. /\ q # p => pc'[q] = pc[q] /\ cfg'[q] = cfg[q]
        /\ pc'[p] \notin {"dial", "serving"}
    BY <1>4 DEF Begin, Open, LookThere, LookFresh, Load, LoadFails, MkDir, MkDirFails,
      Create, CreateFails, Write, WriteFails
  <2> QED
    BY <1>2, <1>3, <2>1
<1>5. ASSUME NEW p \in Run, Compose(p) \/ Kill(p) PROVE Goal
  <2>1. /\ q # p => pc'[q] = pc[q]
        /\ cfg' = cfg
        /\ pc'[p] = "dial" => Complete(p)
        /\ pc'[p] = "serving" => pc[p] = "dial" /\ ~NoHeader(p)
    BY <1>5 DEF Compose, Incomplete, Checked, Serve, DialFails, Kill
  <2> QED
    BY <1>1, <1>3, <2>1
<1>6. CASE UNCHANGED vars
  BY <1>3, <1>6 DEF vars
<1> QED
  BY <1>4, <1>5, <1>6 DEF Next

LEMMA UsableStep == IInv /\ [Next]_vars => UsableUnlessTorn'
<1> SUFFICES ASSUME IInv, [Next]_vars, NEW q \in Run, pc'[q] = "noconfig",
                    apart', ~torn'
             PROVE  FALSE
  BY DEF UsableUnlessTorn
<1> USE DEF IInv, TypeOK, Goto
<1>1. apart /\ ~torn
  BY DEF Next, Begin, Open, LookThere, LookFresh, Load, LoadFails, MkDir, MkDirFails,
    Create, CreateFails, Write, WriteFails, Compose, Incomplete, Checked, Serve,
    DialFails, Kill, vars
<1>2. pc[q] # "noconfig"
  BY <1>1 DEF UsableUnlessTorn
<1>3. ASSUME NEW p \in Run, LoadFails(p) PROVE FALSE
  <2>1. pc[p] = "load" /\ file.has # "text"
    BY <1>3 DEF LoadFails
  <2>2. dir /\ \A r \in Run : pc[r] \notin Making
    BY <1>1, <2>1 DEF NoDir, Alone, Opening, Making
  <2> QED
    BY <1>1, <2>1, <2>2 DEF Kept
<1>4. ASSUME NEW p \in Run, ~LoadFails(p), Begin(p) \/ Open(p) \/ Compose(p) \/ Kill(p)
      PROVE  pc'[q] # "noconfig"
  <2>1. /\ q # p => pc'[q] = pc[q]
        /\ pc'[p] # "noconfig"
    BY <1>4 DEF Begin, Open, LookThere, LookFresh, Load, MkDir, MkDirFails, Create,
      CreateFails, Write, WriteFails, Compose, Incomplete, Checked, Serve, DialFails, Kill
  <2> QED
    BY <1>2, <2>1
<1> QED
  BY <1>2, <1>3, <1>4 DEF Next, vars
-----------------------------------------------------------------------------
LEMMA IInvInit == Init => IInv
  BY TypeInit DEF Init, IInv, Alone, NoDir, First, Kept, AllConfigured, Passed,
    UsableUnlessTorn, Opening, Making, Past

LEMMA IInvStep == IInv /\ [Next]_vars => IInv'
  BY TypeStep, AloneStep, NoDirStep, FirstStep, KeptStep, ConfiguredStep, PassedStep,
    UsableStep DEF IInv

\* Startup: everything the properties below follow from.
THEOREM Invariance == Spec => []IInv
  BY IInvInit, IInvStep, PTL DEF Spec
-----------------------------------------------------------------------------
(* The properties. *)

\* The states stay what they are said to be.
THEOREM STTypeCorrect == Spec => []TypeOK
<1>1. IInv => TypeOK
  BY DEF IInv
<1> QED
  BY <1>1, Invariance, PTL

\* Whoever serves has passed the checks, with the configuration it serves with.
THEOREM STServesComplete == Spec => []ServesComplete
<1>1. IInv => ServesComplete
  BY DEF IInv, Passed, ServesComplete
<1> QED
  BY <1>1, Invariance, PTL

\* Its own flags come first, then those of the first start, then the defaults.
THEOREM STServesAsConfigured == Spec => []ServesAsConfigured
<1>1. IInv => ServesAsConfigured
  BY DEF IInv, AllConfigured, Configured, Past, ServesAsConfigured
<1> QED
  BY <1>1, Invariance, PTL

\* A repository is usable unless its making was cut short or disturbed.
THEOREM STUsableUnlessTorn == Spec => []UsableUnlessTorn
<1>1. IInv => UsableUnlessTorn
  BY DEF IInv
<1> QED
  BY <1>1, Invariance, PTL

\* Nothing is written once a start is past the repository.
THEOREM STSavedOnce == Spec => SavedOnce
<1>1. IInv /\ [Next]_vars => [Settled /\ apart => UNCHANGED file]_vars
  <2> SUFFICES ASSUME IInv, Next, apart, NEW q \in Run, pc[q] \in Past
               PROVE  file' = file
    BY DEF Settled, Past, vars
  <2>1. \A p \in Run : pc[p] \notin Making
    BY DEF IInv, First
  <2> QED
    BY <2>1 DEF Next, Begin, Open, LookThere, LookFresh, Load, LoadFails, MkDir,
      MkDirFails, Create, CreateFails, Write, WriteFails, Compose, Incomplete, Checked,
      Serve, DialFails, Kill, Goto, Making
<1> QED
  BY <1>1, Invariance, PTL DEF Spec, SavedOnce

\* A start with the command line of another serves with its configuration, however
\* many starts with other flags, failed or killed, came between: what the first
\* start saved is all that a start takes from those before it.
RestartsAgree ==
  apart /\ ~torn =>
    \A p, q \in Run :
      {pc[p], pc[q]} \subseteq Past /\ flags[p] = flags[q] => cfg[p] = cfg[q]

THEOREM STRestartsAgree == Spec => []RestartsAgree
<1>1. ASSUME IInv PROVE RestartsAgree
  <2> SUFFICES ASSUME apart, ~torn, NEW p \in Run, NEW q \in Run,
                      pc[p] \in Past, pc[q] \in Past, flags[p] = flags[q]
               PROVE  cfg[p] = cfg[q]
    BY DEF RestartsAgree
  <2>1. Configured(p) /\ Configured(q)
    BY <1>1 DEF IInv, AllConfigured
  <2>2. cfg[p].listen = cfg[q].listen
    BY <2>1 DEF Configured
  <2>3. \A s \in Service : cfg[p].api[s] = cfg[q].api[s]
    BY <2>1 DEF Configured
  <2>4. cfg[p] \in Config /\ cfg[q] \in Config
    BY <1>1 DEF IInv, TypeOK
  <2>5. /\ cfg[p] = [listen |-> cfg[p].listen, api |-> cfg[p].api]
        /\ cfg[q] = [listen |-> cfg[q].listen, api |-> cfg[q].api]
        /\ cfg[p].api \in [Service -> API] /\ cfg[q].api \in [Service -> API]
    BY <2>4 DEF Config
  <2>6. cfg[p].api = cfg[q].api
    BY <2>3, <2>5
  <2> QED
    BY <2>2, <2>5, <2>6
<1> QED
  BY <1>1, Invariance, PTL

\* A directory without a configuration that can be read, and nobody who is making
\* one.
Spoilt == /\ dir /\ file.has # "text"
          /\ \A p \in Run : pc[p] \notin {"mkdir"} \cup Making

\* No start repairs it, and none that begins or is at the directory gets past it,
\* ever: what a start killed between the directory and the file leaves behind is
\* for somebody else to remove (Exists looks at the directory alone).
SpoiltForGood ==
  /\ [](Spoilt => []Spoilt)
  /\ \A p \in Run :
       [](Spoilt /\ pc[p] \in {"idle", "look", "load"} =>
            [](pc[p] \in {"idle", "look", "load", "noconfig", "killed"}))

LEMMA SpoiltStays == Spoilt /\ [Next]_vars => Spoilt'
<1> SUFFICES ASSUME Spoilt, [Next]_vars PROVE Spoilt'
  OBVIOUS
<1> USE DEF Goto
<1>1. ASSUME NEW p \in Run, Begin(p) \/ LookThere(p) \/ LoadFails(p) \/ Compose(p) \/ Kill(p)
      PROVE  Spoilt'
  <2>1. dir' = dir /\ file' = file
    BY <1>1 DEF Begin, LookThere, LoadFails, Compose, Incomplete, Checked, Serve,
      DialFails, Kill
  <2>2. \E to \in {"look", "load", "noconfig", "incomplete", "dial", "serving",
                   "unavailable", "killed"} : pc' = [pc EXCEPT ![p] = to]
    BY <1>1 DEF Begin, LookThere, LoadFails, Compose, Incomplete, Checked, Serve,
      DialFails, Kill
  <2>3. \A q \in Run : pc'[q] \notin {"mkdir"} \cup Making
    BY <2>2 DEF Spoilt, Making
  <2> QED
    BY <2>1, <2>3 DEF Spoilt
<1>2. ASSUME NEW p \in Run, Open(p) PROVE LookThere(p) \/ LoadFails(p)
  BY <1>2 DEF Open, LookFresh, Load, MkDir, MkDirFails, Create, CreateFails, Write,
    WriteFails, Spoilt, Making
<1>3. CASE UNCHANGED vars
  BY <1>3 DEF vars, Spoilt
<1> QED
  BY <1>1, <1>2, <1>3 DEF Next

THEOREM STSpoiltForGood == Spec => SpoiltForGood
<1>1. ASSUME NEW p \in Run
      PROVE  Spec => [](Spoilt /\ pc[p] \in {"idle", "look", "load"} =>
                          [](pc[p] \in {"idle", "look", "load", "noconfig", "killed"}))
  <2> DEFINE Stuck == Spoilt /\ pc[p] \in {"idle", "look", "load", "noconfig", "killed"}
  <2>1. TypeOK /\ Stuck /\ [Next]_vars => Stuck'
    <3> SUFFICES ASSUME TypeOK, Stuck, [Next]_vars
                 PROVE  pc'[p] \in {"idle", "look", "load", "noconfig", "killed"}
      BY SpoiltStays
    <3>1. ASSUME NEW q \in Run, Begin(q) \/ Open(q) \/ Compose(q) \/ Kill(q)
          PROVE  pc'[p] \in {"idle", "look", "load", "noconfig", "killed"}
      BY <3>1 DEF TypeOK, Begin, Open, LookThere, LookFresh, Load, LoadFails, MkDir,
        MkDirFails, Create, CreateFails, Write, WriteFails, Compose, Incomplete, Checked,
        Serve, DialFails, Kill, Goto, Spoilt, Making
    <3> QED
      BY <3>1 DEF Next, vars
  <2>2. /\ Spoilt /\ pc[p] \in {"idle", "look", "load"} => Stuck
        /\ Stuck => pc[p] \in {"idle", "look", "load", "noconfig", "killed"}
    OBVIOUS
  <2> HIDE DEF Stuck
  <2> QED
    BY <2>1, <2>2, STTypeCorrect, PTL DEF Spec
<1>2. Spec => [](Spoilt => []Spoilt)
  BY SpoiltStays, PTL DEF Spec
<1> QED
  BY <1>1, <1>2 DEF SpoiltForGood
=============================================================================
