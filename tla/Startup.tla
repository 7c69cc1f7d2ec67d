------------------------------ MODULE Startup ------------------------------
(***************************************************************************)
(* Start of the daemon: "venus-tool run" (cmd/main.go) with its repository *)
(* (repo/repo.go) and configuration (repo/config/config.go).               *)
(*                                                                         *)
(* The first start makes the directory of the repository and writes the    *)
(* configuration into it, two steps of which the second is two itself: the *)
(* file is created empty and written.  A start that finds the directory    *)
(* loads the file.  Any start may be killed anywhere, and several may run. *)
(***************************************************************************)
EXTENDS Naturals

CONSTANTS
  Run,            \* the starts
  Service,        \* the services with an address in the configuration
  Table,          \* the place of each in the file, after the server's
  Mandatory,      \* node, messager, market, wallet
  TokenNeeded,    \* services that refuse to start without a token: miner
  Addr, NoAddr,   \* addresses, and ""
  Token, NoToken, \* tokens, and ""
  Given           \* command lines tried

Listen == {"", "127.0.0.1:8090", "given"}
API == [addr : Addr \cup {NoAddr}, token : Token \cup {NoToken}]
Config == [listen : Listen, api : [Service -> API]]

\* A command line: whether it sets --listen, which API flags it sets and to
\* what (an address, a token or both: what ParseAPI makes of the text), and the
\* common token.
Flags == [listen : BOOLEAN, set : SUBSET Service, api : [Service -> API],
          common : Token \cup {NoToken}]

ASSUME StartupAssumption ==
  /\ Mandatory \subseteq Service /\ TokenNeeded \subseteq Service \ Mandatory
  /\ Table \in [Service -> Nat \ {0}]
  /\ NoAddr \notin Addr /\ NoToken \notin Token
  /\ Given \subseteq Flags

VARIABLES
  pc,     \* where each start is, or how it ended
  flags,  \* its command line
  cfg,    \* its configuration
  dir,    \* whether the directory of the repository exists
  file,   \* what is in its configuration file
  origin, \* history: the flags of the last start that found no directory
  torn,   \* history: a start stopped between making the directory and writing
          \* all of the file
  apart   \* history: no start has begun while another was at the repository

vars == <<pc, flags, cfg, dir, file, origin, torn, apart>>

Making   == {"create", "write"}                        \* the directory is made
Opening  == {"look", "load", "mkdir"} \cup Making      \* at the repository
Running  == Opening \cup {"check", "dial", "serving"}
Ended    == {"noconfig", "io", "incomplete", "unavailable", "killed"}

NoAPI == [s \in Service |-> [addr |-> NoAddr, token |-> NoToken]]

\* DefaultConfig, and what an empty file says.
Default == [listen |-> "127.0.0.1:8090", api |-> NoAPI]
Blank   == [listen |-> "", api |-> NoAPI]

NoFlags == [listen |-> FALSE, set |-> {}, api |-> NoAPI, common |-> NoToken]

\* A file may be cut short so that it does not parse, and then says nothing.
File == [has : {"nothing", "garbage", "text"}, cfg : Config]

TypeOK == /\ pc \in [Run -> Running \cup Ended \cup {"idle"}]
          /\ flags \in [Run -> Flags]
          /\ cfg \in [Run -> Config]
          /\ dir \in BOOLEAN /\ file \in File
          /\ origin \in Flags /\ torn \in BOOLEAN /\ apart \in BOOLEAN

Init == /\ pc = [p \in Run |-> "idle"]
        /\ flags = [p \in Run |-> NoFlags]
        /\ cfg = [p \in Run |-> Default]
        /\ dir = FALSE
        /\ file = [has |-> "nothing", cfg |-> Blank]
        /\ origin = NoFlags /\ torn = FALSE /\ apart = TRUE
-----------------------------------------------------------------------------
\* updateApi: the address given, if any; the token given, or else the common
\* one, or else the one there was.
UpdateApi(old, given, common) ==
  [addr  |-> IF given.addr # NoAddr THEN given.addr ELSE old.addr,
   token |-> IF given.token # NoToken THEN given.token
             ELSE IF common # NoToken THEN common ELSE old.token]

\* Mutant: the address saved wins over the address given.
SavedWins(c, f) ==
  [listen |-> IF f.listen THEN "given" ELSE c.listen,
   api |-> [s \in Service |->
              IF s \in f.set /\ c.api[s].addr = NoAddr
                THEN UpdateApi(c.api[s], f.api[s], f.common) ELSE c.api[s]]]

\* Mutant: the services without a flag are lost.
OnlyFlags(c, f) ==
  [listen |-> IF f.listen THEN "given" ELSE c.listen,
   api |-> [s \in f.set |-> UpdateApi(c.api[s], f.api[s], f.common)]]

\* updateFlag, of the path of the dashboard nothing.
UpdateFlag(c, f) ==
  [listen |-> IF f.listen THEN "given" ELSE c.listen,
   api |-> [s \in Service |->
              IF s \in f.set THEN UpdateApi(c.api[s], f.api[s], f.common)
                             ELSE c.api[s]]]

Goto(p, from, to) == pc[p] = from /\ pc' = [pc EXCEPT ![p] = to]

Begin(p) == /\ Goto(p, "idle", "look")
            /\ \E f \in Given : flags' = [flags EXCEPT ![p] = f]
            /\ apart' = (apart /\ \A q \in Run : pc[q] \notin Opening)
            /\ UNCHANGED <<cfg, dir, file, origin, torn>>

\* Exists: the directory is there, whatever is in it.
LookThere(p) == /\ dir /\ Goto(p, "look", "load")
                /\ UNCHANGED <<flags, cfg, dir, file, origin, torn, apart>>

\* Mutant: the configuration is saved before the flags are in it.
LookFlagsLater(p) == /\ ~dir /\ Goto(p, "look", "mkdir")
                     /\ origin' = flags[p]
                     /\ UNCHANGED <<flags, cfg, dir, file, torn, apart>>

LookFresh(p) == /\ ~dir /\ Goto(p, "look", "mkdir")
                /\ cfg' = [cfg EXCEPT ![p] = UpdateFlag(Default, flags[p])]
                /\ origin' = flags[p]
                /\ UNCHANGED <<flags, dir, file, torn, apart>>

\* Mutant: the flags of a later start are saved too.
LoadAndSave(p) == /\ file.has = "text" /\ Goto(p, "load", "check")
                  /\ cfg' = [cfg EXCEPT ![p] = UpdateFlag(file.cfg, flags[p])]
                  /\ file' = [file EXCEPT !.cfg = cfg'[p]]
                  /\ UNCHANGED <<flags, dir, origin, torn, apart>>

Load(p) == /\ file.has = "text" /\ Goto(p, "load", "check")
           /\ cfg' = [cfg EXCEPT ![p] = UpdateFlag(file.cfg, flags[p])]
           /\ UNCHANGED <<flags, dir, file, origin, torn, apart>>

LoadFails(p) == /\ file.has # "text" /\ Goto(p, "load", "noconfig")
                /\ UNCHANGED <<flags, cfg, dir, file, origin, torn, apart>>

\* Init: MkdirAll, which is content with a directory that has appeared.
MkDir(p) == /\ Goto(p, "mkdir", "create")
            /\ dir' = TRUE
            /\ UNCHANGED <<flags, cfg, file, origin, torn, apart>>

MkDirFails(p) == /\ Goto(p, "mkdir", "io")
                 /\ UNCHANGED <<flags, cfg, dir, file, origin, torn, apart>>

\* Save: WriteFile creates or truncates the file ...
Create(p) == /\ Goto(p, "create", "write")
             /\ file' = [has |-> "text", cfg |-> Blank]
             /\ UNCHANGED <<flags, cfg, dir, origin, torn, apart>>

\* Mutant: a configuration without the mandatory addresses is not written.
WriteComplete(p) ==
  /\ Goto(p, "write", "check")
  /\ file' = IF \A s \in Mandatory : cfg[p].api[s].addr # NoAddr
               THEN [has |-> "text", cfg |-> cfg[p]]
               ELSE [has |-> "nothing", cfg |-> Blank]
  /\ UNCHANGED <<flags, cfg, dir, origin, torn, apart>>

\* ... and writes it.
Write(p) == /\ Goto(p, "write", "check")
            /\ file' = [has |-> "text", cfg |-> cfg[p]]
            /\ UNCHANGED <<flags, cfg, dir, origin, torn, apart>>

CreateFails(p) == /\ Goto(p, "create", "io")
                  /\ torn' = TRUE
                  /\ UNCHANGED <<flags, cfg, dir, file, origin, apart>>

\* The first n lines of the text: the address to listen on, then the address and
\* the token of each service.  (Without the headings of the tables.)
Cut(c, n) ==
  [listen |-> IF n = 0 THEN "" ELSE c.listen,
   api |-> [s \in Service |->
              [addr  |-> IF n >= 2 * Table[s] THEN c.api[s].addr ELSE NoAddr,
               token |-> IF n > 2 * Table[s] THEN c.api[s].token ELSE NoToken]]]

\* How many lines may be written, when not all are.
Lines == {0} \cup UNION {{2 * Table[s] - 1, 2 * Table[s]} : s \in Service}

\* A prefix of the text is written, which ends inside a line or after one: what
\* it does not reach is as if it were empty.
WriteFails(p) ==
  /\ Goto(p, "write", "io")
  /\ \/ file' = [has |-> "garbage", cfg |-> Blank]
     \/ \E n \in Lines :
          file' = [has |-> "text", cfg |-> Cut(cfg[p], n)]
  /\ torn' = TRUE
  /\ UNCHANGED <<flags, cfg, dir, origin, apart>>

Complete(p) == \A s \in Mandatory : cfg[p].api[s].addr # NoAddr

Incomplete(p) == /\ ~Complete(p) /\ Goto(p, "check", "incomplete")
                 /\ UNCHANGED <<flags, cfg, dir, file, origin, torn, apart>>

\* Mutant: only some of the addresses are checked.
CheckedOne(p) == /\ \E s \in Mandatory : cfg[p].api[s].addr # NoAddr
                 /\ Goto(p, "check", "dial")
                 /\ UNCHANGED <<flags, cfg, dir, file, origin, torn, apart>>

Checked(p) == /\ Complete(p) /\ Goto(p, "check", "dial")
              /\ UNCHANGED <<flags, cfg, dir, file, origin, torn, apart>>

\* A service without an address is left out; one with an address may want a
\* token for the header of its calls (NewMiner).
NoHeader(p) == \E s \in TokenNeeded : /\ cfg[p].api[s].addr # NoAddr
                                      /\ cfg[p].api[s].token = NoToken

\* The services are dialled and the server listens, where no other does.  It
\* serves inside OnStart, so the start never gets any further.
Serve(p) == /\ ~NoHeader(p) /\ Goto(p, "dial", "serving")
            /\ \A q \in Run : pc[q] = "serving" => cfg[q].listen # cfg[p].listen
            /\ UNCHANGED <<flags, cfg, dir, file, origin, torn, apart>>

\* Something cannot be dialled, has no header, or the address is taken.
DialFails(p) == /\ Goto(p, "dial", "unavailable")
                /\ UNCHANGED <<flags, cfg, dir, file, origin, torn, apart>>

Kill(p) == /\ pc[p] \in Running
           /\ pc' = [pc EXCEPT ![p] = "killed"]
           /\ torn' = (torn \/ pc[p] \in Making)
           /\ UNCHANGED <<flags, cfg, dir, file, origin, apart>>
-----------------------------------------------------------------------------
Open(p) == \/ LookThere(p) \/ LookFresh(p) \/ Load(p) \/ LoadFails(p)
           \/ MkDir(p) \/ MkDirFails(p)
           \/ Create(p) \/ CreateFails(p) \/ Write(p) \/ WriteFails(p)

Compose(p) == Incomplete(p) \/ Checked(p) \/ Serve(p) \/ DialFails(p)

Next == \E p \in Run : Begin(p) \/ Open(p) \/ Compose(p) \/ Kill(p)

Spec == Init /\ [][Next]_vars
-----------------------------------------------------------------------------
(* Properties. *)

\* Whatever became of the starts before, a daemon that serves has every
\* mandatory address, and a token for each service that wants one
\* (the checks of run; NewMiner).
ServesComplete == \A p \in Run : pc[p] = "serving" => Complete(p) /\ ~NoHeader(p)

\* What a command line says of a service.
AddrIn(f, s)  == IF s \in f.set THEN f.api[s].addr ELSE NoAddr
TokenIn(f, s) == IF s \notin f.set THEN NoToken
                 ELSE IF f.api[s].token # NoToken THEN f.api[s].token ELSE f.common

Or(x, none, y) == IF x # none THEN x ELSE y

\* A daemon serves with what its own command line says, and for the rest with
\* what that of the first start said: restarts without flags serve as the first
\* start was told to, flags of one restart do not leak into the next, and a
\* start refused for a missing address or killed later has spoilt nothing.  It
\* takes a first start that was not cut short, and starts that did not meet at
\* the repository (updateFlag before Init and after GetConfig).
ServesAsConfigured ==
  apart /\ ~torn =>
    \A p \in Run : pc[p] = "serving" =>
      /\ cfg[p].listen = IF flags[p].listen \/ origin.listen
                           THEN "given" ELSE "127.0.0.1:8090"
      /\ \A s \in Service :
           LET f == flags[p]
           IN  cfg[p].api[s] =
                 [addr  |-> Or(AddrIn(f, s), NoAddr, AddrIn(origin, s)),
                  token |-> Or(TokenIn(f, s), NoToken, TokenIn(origin, s))]

\* No start finds a repository it cannot use, unless a first start was cut short
\* or starts met at the repository (Exists looks at the directory alone).
UsableUnlessTorn ==
  (\E p \in Run : pc[p] = "noconfig") => torn \/ ~apart

\* Once a start has got past the repository, the file stays what it is, whatever
\* flags the next starts have, as long as they do not meet at the repository
\* (Save is called by Init alone).
Settled == \E p \in Run : pc[p] \in {"check", "dial", "serving"}

SavedOnce == [][Settled /\ apart => UNCHANGED file]_vars
=============================================================================
