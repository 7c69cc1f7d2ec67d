# venus-tool in TLA+

venus-tool is a daemon (`cmd/main.go`, `venus-tool run`) with an HTTP API, a
command line that calls it (`cmd/cli`) and a dashboard. It lets an operator of
a Filecoin storage provider manage miners, sectors, messages, addresses, deals,
multisigs and sealing threads. It owns almost no state. What it changes belongs
to others (the chain, sophon-messager, droplet, the wallet, damocles), and what
makes it hard to get right is that it changes them in several steps, one
goroutine per request, while they change by themselves.

The modules of this directory model those steps. This file says what the system
consists of, which module models which part, what the model checker and the
prover show of it, and what is left out.

## The system

| component | code | its state | its operations |
|---|---|---|---|
| push-and-wait frame | `service/impl.go` `PushMessageAndWait`, `MsgWait` | none of its own; the message in messager and on the chain | push one message, wait until it is chained, look at its exit code |
| worker and controllers | `service/impl_miner.go` 233-357, `cmd/cli/miner.go` 553-682 | the miner's info on chain | propose and confirm a worker, set the controllers |
| owner and beneficiary | `service/impl_miner.go` 164-231 and 359-455, `cmd/cli/miner.go` 497-551 and 684-775 | the miner's info on chain | propose and confirm an owner; propose a beneficiary, confirm it as beneficiary or as nominee |
| withdrawals | `service/impl_miner.go` 461-559, `cmd/cli/miner.go` 777-872 | the miner's balance, the market's escrow, droplet's reservations | withdraw to the beneficiary, withdraw from the market |
| creation of miners, asks, queries | `service/impl_miner.go` 32-162 | the chain, droplet | create a miner, get and set asks, read a miner |
| sectors | `service/impl_miner.go` 561-716, `cmd/cli/sector.go` | the miner's sectors on chain | extend, get, list by pages, count |
| multisig | `service/impl_msig.go`, `pkg/multisig`, `cmd/cli/msig.go` | the multisig actor | create, propose, add, remove and swap signers, approve, cancel |
| messages | `service/impl.go` 106-339, `cmd/cli/msg.go` | messager's messages | send, query, replace, mark bad, decode |
| addresses | `service/impl.go` 341-448, `cmd/cli/addr.go` | messager's addresses, the wallet | delete, activate, forbid, set; list |
| deals, sign records, search | `service/impl.go` 450-696 | droplet, the wallet | list, get, update the state of a deal; find by key |
| sealing threads | `service/impl_thread.go`, `dep/damocles.go` | damocles workers | list, stop, start |
| routes and client | `route`, `client`, `service/proxy_gen.go` | none | bind arguments, call the service, answer |
| start and configuration | `cmd/main.go`, `repo` | the directory and `config.toml` | initialise, load, override by flags |
| dashboard | `dashboard/src` | what it has fetched | poll, show, send batches of requests |

How they meet. A command (or the dashboard) calls a route; `route.Wrap` binds
the arguments and calls one method of `ServiceImpl` in a goroutine of its own;
the method calls the services and returns; `Wrap` answers with the value, or
with 500 and the error. Nothing is locked and nothing is kept between two
requests, so the handlers of two commands interleave at every call to a
service, and each sees what the other's message has done as soon as it is
chained. A panic in a handler is caught by gin's Recovery.

What is hard about it:

* a handler reads the chain, checks, and pushes a message that executes minutes
  later: what it checked, and what it copied into the message, may be stale;
* a message outlives the call that pushed it: the reply may be lost, the wait
  may fail, the daemon may stop, and the message executes all the same;
* the same message means different things depending on who sends it and on what
  is pending when it executes (owner and beneficiary);
* several services are read one after the other and change in between;
* addresses come in two forms, and only one is what the chain stores.

What makes the components correct:

* every handler: an error met before the push is not followed by a message, and
  a success is the success of the message (`PushCall`);
* worker and controllers: the miner only ever has addresses somebody asked for; a
  confirmation that passed its checks is not a silent no-op; a command changes
  what it is for and nothing else;
* owner and beneficiary: no interleaving turns a proposal into a change of
  ownership; a confirmation confirms what was read and nothing else; what is
  sent is what the miner actor accepts;
* withdrawals: nothing moves that was not asked for, the answer is the amount
  moved, droplet's reservations stay covered;
* multisig: parameters that pass the checks create the multisig, unless there are
  more signers than the actor allows; only approvals
  somebody asked for count; the number in an answer is that of the caller's own
  proposal; a vote is for what its sender saw; the signers become what was asked
  for;
* messages and addresses: a message is sent at most once; a query in several
  steps shows what the flags that count ask for; an operation made of two calls is done or
  reported; a list merged from two services has each address once;
* sectors: an extension extends what was asked for and nothing else; going
  through the pages misses only what is pushed past the last of them, and
  repeats nothing while numbers rise;
* start: what a daemon serves with is what its flags and the first start's said;
  the repository stays usable.

## The modules

| module | models | extends |
|---|---|---|
| `PushCall` | what a caller is promised: the abstract specification | |
| `PushWait` | the frame of every handler that changes the chain | `PushCall` as `PC` |
| `Addresses` | ID and key addresses, `StateLookupID` | |
| `MinerWorker` | the three handlers of worker and controllers, the miner actor's side, the epochs | `PushWait`, `Addresses` |
| `MinerOwner` | the four handlers of owner and beneficiary, the miner actor's side, the end of a term | `PushWait`, `Addresses` |
| `Withdraw` | the two withdrawals, the balances, droplet's reservations and deals | `PushWait` |
| `Multisig` | the seven commands on a multisig, the multisig actor, the other signers, a chain whose head is reorganised | `PushWait`, `Addresses` |
| `Messager` | sending, querying, replacing and marking bad of messages; operations on addresses and their list; messager's and the wallet's own steps | `PushCall` as `Sends` |
| `Sectors` | the extension of sectors, the pages of the sector table, the chain's own steps | `PushWait` |
| `Startup` | `venus-tool run`: the repository, the configuration, the flags, the checks | |
| `MC...` | the instances that are model-checked | the module they are named after |
| `...Proof` | the theorems and their proofs | the module they are named after |

### From code to model

A **call** is one request to the daemon. `pc[c]` is where its goroutine is:
`read` (nothing read yet), `check` (the first read done), `push`, `wait`, `after`
(reading the state again for the answer), `done`. `mst[c]` is its message:
`none`, `pooled` (stored by messager), `ok`, `error` (chained with another exit
code) or `failed`. `ans[c]` is what the caller got: `ok`, `failed` (exit code),
`refused` and `unavailable` (errors before the push), `unread` (the read after
the message failed), `panic`, `doubt` (an error that leaves the message open) and
`lost` (the daemon stopped).

Every call to a service that can change what the handler sees is a step of its
own; reads that follow each other without a decision between them that the
properties tell apart are one. The frame's actions are conjuncts of the
components' actions: `SetWorkerChecked` of `MinerWorker` is the read of
`StateMinerInfo`, the two comparisons and the parameters, with `Ready` of
`PushWait`; `Push` is `PushMessage`, `Wait` is `WaitMessage` with the exit code.

* `PushFails` stores the message or does not, and the handler cannot tell.
  `PushMessageAndWait` then returns a nil message with the error. The miner
  handlers format `msg.ID`, so their answer is `panic`.
* `Crash` ends every running call and leaves the messages. The daemon keeps
  nothing, so there is no recovery to model: after it, calls that have not
  started may start.
* `Settle` is messager and the chain: any pooled message may be executed, fail
  on chain, or be given up (replaced, marked bad), at any time and in any order.
* The actors' methods (`ChangeWorkerAddress`, `ConfirmChangeWorker`,
  `ChangeOwner`, `ChangeBeneficiary`, `PayMiner`, `PayMarket`) are not code of
  this repository. They are modelled as the handlers rely on them, and marked
  external in `PROJECT.json`.
* `alone` is a history variable: `alone[c]` says that no other call was running,
  and no other message pooled, at any time since c began. It gives the view of
  one careful operator, for whom the commands should do exactly what they say.
  Properties without `alone` hold in every interleaving.

Addresses are model values in two sets, `Id` and `Key`, and `IdOf` is the lookup.
Quota and expiration of a beneficiary's term go together and are one number.
In `Withdraw` a miner may be in fee debt, so that less than nothing is available.

`Multisig` has a chain with a head. `msig` is the final state, with the confidence
`MsgWait` waits for; `tip` is the sequence of messages executed since, each with
the state it leaves. `Include` executes a message at the head, `Confirm` makes the
oldest final (and only then is the call's message settled), `Reorganise` undoes
all of `tip`. The list command shows the head, an answer is read from a final
receipt: that difference is what the properties about numbers turn on. `steady[c]`
is a history variable: nothing c relied on was reorganised since it began.
Approvals are kept with their order, because a cancellation is for the first
approver and a removed signer's approvals are taken back.

In `Messager` a call is a command of `cmd/cli/msg.go` or `cmd/cli/addr.go`, which
may be several requests (`msg replace --nonce` is a query and a replacement).
`pc[c]` names the step: `find`, `found` (the query has answered, the actors are
being read), `replace`; `operate` and `num` for the one or two calls on an address;
`wallet` and `actors` for the list. Messager numbers messages in order per sender
(`Fill`), executes them or fails; keys appear in the wallet and messager takes them
over (`Adopt`). `done`, `gone` and `always` are history. A query keeps copies of the
messages it found, each with the state it had (`got`), since they move on before it
is answered. The flags of `msg list` are the fields of `ListAsk`; `ListRefused` and
`ListQuery` are the order in which the command looks at them. Which messages are on
the page asked for, and which pending ones have been there for the residence time,
is left to messager: any of those that match.

`Sectors` composes an extension (`found`, one step per `StateSectorPartition`;
`decl`, what the message declares) with a reader of the dashboard's table
(`board`), whose request is two steps: the state is loaded, then the allocated
numbers, of a later state. A page is a range of ranks among the numbers allocated.
The table has as many pages as there were when it took its total (`LastPage`), and
`Room` is what is free on the last one.

In `Startup` a call is a start of the daemon. `look` is `Exists`, `mkdir` `MkdirAll`,
`create` and `write` are the two things `os.WriteFile` does, `load` is `LoadConfig`
with `updateFlag`, `check` and `dial` what `run` does with the result. `WriteFails`
leaves any prefix of the file that parses, or one that does not. `origin`, `torn`
and `apart` are history: whose flags the file should have, whether a first start
was cut short, whether starts met. What `ParseAPI` makes of the text of a flag is
its input here: an address, a token or both.

## The runs

| run | instance | shows |
|---|---|---|
| `MW_commands` | 3 calls; 3 IDs, a key address, an address without ID; 1 epoch of delay, 2 epochs | type correctness; `Accounted`: worker, pending worker and controllers were asked for; `ConfirmIsRipe`: a confirmation of the proposal it checked takes effect; `KeepsPromise`: the handlers implement `PushCall`; `ConfirmMovesToNamed`, `SetControllersKeepsWorker`, `SetWorkerKeepsControllers`: a command alone does what it says and no more |
| `MW_answered` | 2 calls, with the arguments the command line and the lookup refuse | `Answered`: every command is answered |
| `MW_other_pending` | 2 calls | a violation: a set-worker while another worker is pending is answered with success |
| `MW_panic` | 2 calls | a violation: a failed push ends in a nil dereference |
| `MO_commands` | 3 calls of 8 requests; an owner proposed at the start | type correctness; `AcceptedByActor`: what a command alone sends is accepted; `ConfirmOwnerMoves`, `SetOwnerOnlyProposes`, `ConfirmApproves`: what each message does when it executes, however late |
| `MO_applied` | the same | a violation: a proposal that takes effect at once is reported as failed |
| `WD_withdrawals` | 2 calls; an amount, and zero and less for "all"; balances up to 2, a debt of 1 | type correctness; `AnsweredAsPaid`, `NoMoreThanAsked`, `ReservedIsKept` |
| `MS_commands` | 2 calls of 18 requests; 3 signers of whom 2 decide, one of them elsewhere, one with two addresses; room for 4 signers and a creation with 5; 2 numbers, 1 message from elsewhere, 1 reorganisation | type correctness; `CreateIsTaken`, `ApprovalsAsked`, `AnsweredForOwn`, `VotesForWhatWasSeen`, `ChangedAsAsked`; `KeepsPromise`: the handlers implement `PushCall` |
| `MB_requests` | 2 requests of 26; 2 addresses, 2 messages with one nonce, a receiver that is new | type correctness; `SendsKeepPromise`: sending implements `PushCall`; `ListedAsAsked`, `ReplacesNamed`, `DoneOrGone`, `ListsAddressesOnce` |
| `SC_sectors` | 2 extensions and a reader; numbers 0 to 3, pages of two rows, 2 partitions, one sector that is proven, moved and terminated | type correctness; `ExtendsWhatWasAsked`, `ExtendedIsListed`, `PagesMissNothing`, `PagesRepeatNothing` |
| `ST_starts` | 3 starts of 4 command lines; 2 mandatory services and one that wants a token | type correctness; `ServesComplete`, `ServesAsConfigured`, `UsableUnlessTorn`, `SavedOnce` |
| `WD_receipt` | 1 call | a violation: the exit code of a withdrawal from the market is not looked at |

The bounds. A stale copy or a role that changes needs a command that is late
and one that overtakes it; that a proposal and its confirmation overtake a third
command needs three calls, which is what `MW_commands` and `MO_commands` have.
Each call is made once, so "the same command twice" is two calls with the same
request. Two IDs besides the worker of the start are enough for a pending worker
that is not the one named; a key address and an address without ID for the two
ways a lookup ends. One epoch of delay and one `Tick` give a confirmation before,
at and after the epoch of the change. The requests of `MO_commands` are chosen so
that each handler occurs with an argument it accepts and one it refuses, and that
ownership can return to the first owner. In `Withdraw` two withdrawals compete for
funds that cover one and a half of them. Symmetry is used among the calls, which
differ in nothing, and not in the run that checks liveness.

In `MS_commands` two commands, a message of the third signer and one reorganisation
are enough for a number that is seen, undone and given to another proposal, and for
a proposal that is executed while a change of signers is pending. In `MB_requests`
the messages of both addresses have the same nonce, so a nonce alone is ambiguous;
one address is not in messager at the start, so that messager may take it over
between the two lists of `AddrList`; both `num` 0 and no `num` occur, and each form
of a list, with flags beside it that it drops. In `SC_sectors` numbers 1 and 2 are
allocated and 0 and 3 come before or after the total is taken, below and above the
page shown: the table has one page or two, the last one full or with a row to spare,
and a number is pushed onto the next page or past the last. One sector is live and
one may be in the same partition, in another, or move between the steps of an
extension. In `ST_starts` three starts are a first one that is cut short, one that
finds what it left and one that meets either; the mandatory services are treated
alike, and two of them are enough to have one and lack the other.

`CHECK_DEADLOCK FALSE` is in every configuration: once all calls are answered and
all messages settled nothing need happen.

Fairness, in `MW_answered` only: a runnable handler takes its next step (the Go
scheduler), and a pooled message is settled some day. The second is an assumption
on messager and the chain; `MsgWait` passes no timeout, and without it a call
waits for ever. Nothing else is fair: nobody has to start a command, no service
has to fail, and the daemon need not stop.

## What is proved

For every set of calls, addresses, requests, balances and bounds, under the
named assumptions on the constants (`AddressAssumption`, `ArgsAssumption`,
`BoundAssumption`, `StartAssumption`, `WithdrawAssumption`, `MultisigAssumption`,
`MessagerAssumption`, `SectorsAssumption`, `StartupAssumption`), which TLC evaluates
in the runs:

* `PushWaitProof`: the frame implements `PushCall` (`PWKeepsPromise`), and under
  `PushCall` an answer is true (`PromiseIsTruthful`) and for ever so
  (`PromiseLasts`, the formula `Lasting` of `PushCall`: an answer is not taken
  back, and after an error met before the push there will never be a message). The
  invariant is `Phases`: where a goroutine is, its message and its answer agree.
  `PWAnswersLast` carries `Lasting` over to the frame, and `MWAnswersLast`,
  `MOAnswersLast`, `MSAnswersLast` and `SCAnswersLast` to the handlers built on it.
* `MinerWorkerProof`: type correctness, `KeepsPromise`, and every safety property
  of `MW_commands`. `Accounted` is not inductive by itself: a message in flight
  carries copies that will reach the miner. The invariant adds `Prepared` (what a
  message carries is what its request asks for), `SnapsAccounted` (what a handler
  copied was asked for) and `LoneSnaps` (the copy of a call that overlaps with
  nothing is still the miner). That `Accounted` is monotone, since executed
  requests stay executed, is what carries it over another call's step.
  `MWLoneAnswerIsSo` is an action property on top of it, of a command that overlaps
  with nothing: what its proposal leaves, with the epoch it may be confirmed from;
  that the miner does not change from there to the answer, so that this epoch is
  the one answered; and what is so when it is answered with success. That includes
  the case of `MW_other_pending`: then the other proposal and its epoch stay as
  they were. Its invariant is `LoneDone`.
* `MinerOwnerProof`: type correctness, `KeepsPromise`, and every property of
  `MO_commands`. The invariant adds `Prepared` (sender and parameters by kind of
  request: a proposal of an owner names another than its sender; a confirmation
  of an owner names its sender), `OwnerConsents` (when the owner's consent to a
  pending term is asked for as beneficiary or nominee, its proposal has given
  it) and `LoneAccepted` (the message of a call that overlaps with nothing is
  acceptable). `OwnerConsents` is why a confirmation that was built for a
  pending term and is sent by somebody who is the owner when it executes can do
  no harm. `MOLoneAnswerIsSo` says of a lone command that its success is so (with
  the invariant `LoneMessages`: its message is what its handler would make of the
  miner as it still is), and `MONoTermMeansTaken` what is true where the code is
  wrong: a lone proposal of a beneficiary that finds no term pending, which the
  handler reports as failed, is in effect.
* `MultisigProof`: type correctness, `KeepsPromise`, and every property of
  `MS_commands`. The invariant speaks of every state from the final one to the
  head (`Chained`: for each `At(k)` of the chain, numbers are given in order, every
  approval and every change was asked for by a message executed by then, and each
  executed proposal has its number there), so that `Confirm` and `Reorganise` only
  shorten what it quantifies over. `Received` ties receipts to the messages in the
  blocks, `Checked` what is in flight to what the handler checked, `Distinct` the
  numbers of two proposals, and `SawRight` what was seen to what the head has
  while nothing was undone. The bulk of the proof is about the actor: what a
  proposal, an approval, a cancellation and the purge of a removed signer leave
  alone (`Moves`, `Keeps`). `MSStaysUsable` adds that the threshold stays within
  the number of signers, at the head and at the final state; its hypothesis
  `Usable(Start0)` is what `MsigCreate` checks of a multisig it makes.
  `MSProposalsAsked` follows from `Chained`: what has a number and is no payment
  is the operation of an executed command. `MSCreateIsTaken` is an equivalence: an
  executed creation is refused by the actor if and only if it lists more than
  `MaxSigners` signers, the one limit of the constructor (`SignersMax`, 256) that
  `MsigCreate` leaves unchecked.
* `MessagerProof`: type correctness, `SendsKeepPromise`, and every property of
  `MB_requests`. The invariant adds what messager's steps keep: the nonce of a
  message without one is unset (`Nonces`), so that assigning it breaks nothing
  found by nonce; what a query let through by the command has found is what was
  asked for, in the state it was read in, and its sender and nonce stay so
  (`Queried`, `Found`); how far an operation has come, with
  what it has done, or that its address is gone (`Progress`); and that what was in
  both services throughout still is, and is in the part of the list made so far
  (`Merge`). It is assumed that the fees of the messages at the start were set by
  messager, and that the unfilled ones have no nonce. Two more theorems speak of
  all time to come: after a send that ended before its push (its parameters do not
  decode, or the command panics) there is never a message (`MBUnpushedForGood`;
  after an error of the push itself there may be one), and the sender and the nonce
  that a command finds a message by stay its sender and nonce (`MBNamesLast`).
* `SectorsProof`: type correctness, the promise of `PushCall`, and every property
  of `SC_sectors`, for every page size and every order of allocation. The
  invariant adds `Declares` (the declarations of a message are its sectors, all of
  them), `AllReached` and `Told` (an executed extension stays in effect and a page
  asked for later knows), `ToCome` (by rank: what is not shown yet is on
  no page left behind) and `Behind` (what was shown is on a page behind, while numbers
  only rise). How many numbers below it a number's rank has grown
  by is counted (`RankSince`). Ranks of finite sets and the division by the page size are lemmas.
  Beyond the runs: an extension answered with success stays in effect
  (`SCExtendedStays`), its message declares each partition once and no sector twice
  (`SCDeclaredOnce`), and the pages of any size partition the numbers allocated
  (`SCPagesPartition`: ranks are distinct, so a page has as many rows as its size
  at most).
* `StartupProof`: type correctness and every property of `ST_starts`, for every
  number of starts and services and every command line. The invariant adds `Alone`
  and `First` (starts that do not meet are not at the repository together, and the
  one that makes it has what its flags say), `NoDir`, `Kept` (the file is what the
  first start made of its flags) and `AllConfigured`, whose step shows that
  applying two sets of flags in turn is what `ServesAsConfigured` says in one
  formula. From it, two starts with one command line agree on their configuration
  (`STRestartsAgree`). `STSpoiltForGood` needs none of these and holds of torn
  repositories as well: a directory without a readable configuration, with nobody
  making one, stays so, and no start that begins there gets past it.
* `WithdrawProof`: type correctness, and the three other properties of
  `WD_withdrawals`. The invariant adds `Solvent` (the market locks no more than
  it holds), `Bounded` (the amount of a message against the amount given and the
  balance seen, and what moved against the amount) and `Lone` (the balances cover
  the message of a call that overlaps with nothing, and once executed it has
  moved what it asked for, up to the beneficiary's quota). Since the withdrawal
  from the market answers without looking at the exit code it does not implement
  `PushCall`. `WDKeepsPromise` is a refinement of `PushCall` under a mapping that
  reads this success, and nothing else, as an answer that says nothing of the
  message (`Told`); so it is the only step that breaks the promise. What remains
  true of it is in `WDAnswersLast`: the message has been executed, with whatever
  exit code, for ever; the other answers are those of `PushCall`.

Each proof has one step per action. The properties of actions follow from the
invariant. The formulas that only theorems state (`Lasting` apart) are in the proof
modules, each before its theorem; those of the form `[](A => []B)` come from a
predicate that every step keeps and that implies `B`.

Only model-checked: `Answered`, which is liveness under fairness, out of the
prover's reach. The violations are TLC's traces.

## Where the code and its words differ

Four have a run (see `findings` in `PROJECT.json`):

* a failed push or wait is a nil dereference in ten miner handlers
  (`service/impl_miner.go` 268 and others; `MW_panic`);
* set-worker with another worker pending is answered with success and the epoch of
  that other proposal (248; `MW_other_pending`);
* the withdrawal from the market answers for a failed message with success (552;
  `WD_receipt`);
* a proposal of a beneficiary that is in effect at once is reported as failed
  (402; `MO_applied`).

Others met while reading, without a run:

* the confirmations of a worker and of a beneficiary compare the address as given
  (289, 418): the key address of the one proposed is refused, although the
  proposal was made with it;
* set-controllers compares controllers as given on the command line
  (`cmd/cli/miner.go` 640) and again when it prints what was added and removed
  (659): two forms of one address pass the first, and the second lists a
  controller as both added and removed;
* a withdrawal answers with the amount asked for, also when the beneficiary's
  quota or another withdrawal left less (`AnsweredAsPaid` says when it is right);
* a confirmation of an owner that is given again after it has taken effect is a
  proposal of the owner itself, and takes back a proposal made since;
* the nominee confirms the term that is pending, whose quota and expiration it
  has not named;
* `msig add` refuses the three arguments it documents (`cmd/cli/msig.go` 288);
* `msg send` with `--params-json` or `--params-hex` writes through a nil pointer
  (`SendPanics`);
* `msg replace -n 0` replaces the first of all messages, and `msg list --nonce 0`
  lists all, since the zero nonce is taken for none given; `msg replace` with
  `--nonce` and `--from` parses the nonce as the address; a replacement that finds
  nothing panics (`QueryAnswered`);
* `msg list --page-index` says it starts from 1, and the offset is index times
  size (`cmd/cli/msg.go` 282);
* `MsigCreate` checks threshold and duplicates but not the number of signers, of
  which the actor takes 256 at most: a longer list costs a message that fails
  (`CreateIsTaken`; `service/impl_msig.go` 18-46);
* `msg list --state` is said to be ignored with `--failed` or `--blocked`
  (`cmd/cli/msg.go` 216); it is with `--nonce` and `--id` too, and `--failed` drops
  every other flag but `--id`. The default of 3h that `--time` states is never
  used: `--blocked` is refused when `--time` is not given (263-266);
* `addr set --num 0` answers with success and sets nothing (`HasAddress`);
* a message to a receiver without an actor, or an address without one, costs the
  whole list a nil dereference (`QueryPanics`, `AddrListPanics`); `SectorGet` does
  the same for a sector that does not exist;
* the sector table shows that it is loading for ever when a miner has no sectors,
  and keeps the first total it gets
  (`dashboard/src/component/sector-list.js` 13-20);
* a first start that is interrupted leaves an empty file, which parses as a
  configuration that listens on nothing in particular, or a directory without a
  file, with which every later start is refused (`torn`, `STSpoiltForGood`);
* an API flag `host:port` without a scheme is read as a token and an address;
* the server listens inside `OnStart`, so that `builder.New` never returns and the
  graceful end after it is never reached; flags of later starts are never saved;
  the path of the dashboard is always overwritten by the default of its flag.

## Not modelled

* Gas, nonces, replacement and the exact contents of messages: messager's.
* Reorganisations outside `Multisig`: the handlers wait with a fixed confidence
  and take a chained message for final. In `Multisig` the listing shows what is not
  final, and there they matter.
* That the owner changes between a worker's command and its execution: the
  message then fails, which `NotExecuted` covers.
* In `Multisig`: `msig info`, which only reads; a swap with an address that has no
  ID yet; a creation that runs out of gas or funds; the methods of `pkg/multisig`
  that no handler calls. In `Messager`: decoding and display of parameters; the two
  states of messages that were replaced and of senders without a wallet; residence
  times and the arithmetic of pages; the lists of blocked messages of several senders
  are one step. In `Sectors`: `SectorGet`, and by whom the message of an extension is
  signed. In `Startup`: which services are dialled in
  which order, and liveness (nothing has to start).
* Asks, deals, sign records, search and miner queries: calls passed through, or
  reads. `MinerCreate` is the frame with nothing to add to it.
* Sealing threads: stopping and starting by name and index is one call to a
  damocles worker, and what a worker does between the list and the call is not in
  this repository; any property would be about an invention.
* Routes, the generated client, the generators and the pages of the dashboard that
  show what one request answers: conversions without state or a second step.
