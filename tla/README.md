# Verification of SubHost

TLA+ models of the SubHost node and of the programs around it, the TLC runs that
check them on small instances, and TLAPS proofs of their safety properties and of
the node's refinement for instances of any size. Line numbers refer to the sources
under `src/`; `PROJECT.json` maps every definition to its lines.

Run a model with `tlc -config Node.cfg MCNode`, check proofs with
`tlapm Node_proofs.tla`.

## The system

| part | state | operations that change it | interacts with |
|---|---|---|---|
| account state (`subhost-state`) | nonce and balance of every address | `credit`, `set_balance`, `apply_transfer`, `apply_transaction` | executed by the commit path |
| pool (`subhost-mempool`) | pending transactions, an index by sender and nonce | `admit`, `remove`, `prune_below_nonce` | filled and rolled back by the commit path |
| ledger store (`subhost-storage`) | one ledger file | `persist` (write, fsync, rename, fsync of the directory), `load` | written by every commit, read at start |
| RPC state (`subhost-rpc`) | the five in-memory views, the commit lock | `submit_transaction`, `seed_accounts` | all of the above, and readers |
| node (`subhost-node`) | the process | `bootstrap`, shutdown, crashes | RPC state, ledger store |
| DAG (`subhost-consensus`) | vertices by round, indexes, commits | `add_vertex`, `mark_committed`, `gc` | quorum sizes |
| HotStuff (`subhost-consensus`) | view, highest certificate, lock; the key registry | `register`, `enter_next_view`, `update_high_qc` | quorum sizes |
| staking (`subhost-consensus`) | stakes, delegations, evidence | `add_validator`, `delegate`, `undelegate`, `slash` | – |
| IBC (`subhost-ibc`) | channels, sent packets, receipts, counters | `open_channel`, `set_channel_state`, `send_transfer`, `receive_packet`, `acknowledge_packet`, `timeout_packet`, `set_current_height` | a counterparty and relayers |
| faucet (`subhost-faucet`) | cooldown ledger, submit lock | `drip`, the sweeper | a node over JSON-RPC |
| network (`subhost-network`) | peer set, two bounded channels | `new`, `start`, the arms of the event loop | libp2p, an application |
| wallet files (`subhost-wallet`), genesis file (`subhost-core`) | the files of an operator | `wallet new` and `import`, `init`, node start | commands that run at once |
| `tx send` (`subhost-cli`), transfers and pages (`explorer`) | nonce read, transfer lock, page being built | each call of the node | the RPC server |
| crypto, metrics, telemetry, benchmarks | | see "Not modelled" | |

What makes it hard: a submission is acknowledged only after a file write of
several system calls, any of which can fail or be cut by a crash; readers see
five views that are swapped one by one; a failed commit must undo a pool
admission that replaced or evicted something; slashing, withdrawal and
re-registration interleave; garbage collection must not take the support of a
commit; relayers repeat, reorder and lose packets while each side times them
out by its own height; the calls of faucet, explorer and command line are
answered late or never; commands check for a file and replace it later.

## Modules

**State**, **StateMachine**. Transactions and account rules as operators, and
the mutators called in any order. A method that returns `Result` is an operator
returning the verdict and the accounts as the method leaves them, on its error
paths too. An address without an entry has the default account; the code's state
root tells an absent account from a default one, which no property depends on.

**Pool**, **Mempool**. The pool as operators on a pair of maps, and its mutators
called in any order, together with the rollback that `RpcState::restore_pool`
makes of an admission.

**Chain**. Blocks, receipts, snapshots and `validate_chain`. A hash is what it
commits to: the accounts are the state root, height and transaction the block
hash. Timestamps, the zero validator address and empty lists are left out.

**Node**. `RpcState`, `LedgerStore` and `Node::bootstrap` with their threads. A
submission holds the commit lock. What it does before the ledger is written
happens under that lock and is one step; every system call of `persist` and
every swap is a step of its own. `file` is the ledger as the running system sees
it, `stable` what is certain to survive a power loss: the rename is stable after
the directory's fsync, content after its own. `renamed` are the ledgers put in
place since that fsync last succeeded, more than one when it failed and a later
submission renamed again. `IOError` fails any call, `ProcessStops` keeps the
files, `PowerLoss` leaves the file, the stable ledger or any of `renamed`, and
may tear unsynced content. Reads that take two steps are `ReadReceipt` or `ReadNumber` and then
`ReadBlock`. `Reseed` is a later call of `seed_accounts`, which `bootstrap` does
not make and the public method allows; on a chain with blocks it happens when the
constant `Reseeding` is TRUE, as in the proofs and not in the runs. A
node without genesis allocations writes no ledger before its first block
(`GenesisAssumption` excludes that start). An in-memory store (no path) and
poisoned locks, which the code recovers from, are left out.

**Explorer**. Adds to Node a page of the explorer: the height, then one call per
block, newest first, with commits, crashes and restarts in between.

**Clients**. The programs that pay, on top of StateMachine: `subhost tx send`,
the explorer's transfer with its lock, and requests other programs make, with the
decoding, the defaults and the signature check of `eth_sendTransaction`. The
state machine runs until the node is started on a state it reached. A signature
is the key and the fields it was made over; fields the node fills in are part of
what must have been signed. Requests and answers may be late or lost; a caller
gives up at its timeout, and its request may still reach the node.

**Home**. The files of one operator and the commands on them: `init`, `wallet
new` and `import`, finding and opening a wallet by its address, node start. `Wallet::save`
is its system calls, `GenesisConfig::save` a truncation and a write that is never
synced. Commands run at once, are interrupted, fail, or lose power.

**Network**. `NetworkManager` between libp2p and the application: construction,
listening and dialling, connections with their limits, publishing, inbound
gossip, the two channels, shutdown. libp2p is external.

**CommitLog**, **NodeAudit**. The promise without threads and files: a log of
transactions and the state their execution on genesis gives. `Recover` is what
a power loss may do to it: the acknowledged part stays, behind it comes an
executable rest that is at most one longer. `NodeAudit` maps the ledger file to it and
states that the books balance.

**ConsensusConfig**, **Dag**, **HotStuff**. Quorum sizes; the vertex store; and
replicas that are shown certificates. The crate sends no votes, so who signs
what is the environment: an honest key signs one block per view, a faulty one
any, and peers assemble certificates from whatever signatures exist. That no one
else makes a key's signatures is assumed; see "Assumptions".

**Staking**. The staking module with history variables for what was paid in and
out. `rewards`, which nothing changes, is left out.

**Ibc**. The module on both chains of a connection and relayers that may deliver
any packet ever sent, any number of times. Ports are part of a channel's
identity; the payload is always the transfer that was sent; the two chains share
a clock and not a height.

**Faucet**. Requests of `drip`, a step per await. The node is external: it takes
a transfer with the next nonce or refuses it. Answers are late or lost, callers
disconnect, the faucet restarts. The clock waits for nobody: a request may outlast
the cooldown of its own claim, and then releases the claim of another (`late`).

## Runs

| run | shows |
|---|---|
| Clients | `Conservation`, `SlotSpentOnce`: no value is made or lost, no nonce is spent twice; `ExecutedWasSigned`: only what its sender signed is executed; `PrintedIsPaid`: a printed hash is that payment, made once; `ExplorerNonceHolds`: explorer transfers do not take each other's nonce; `CallersReturn`: a transfer that waits for the explorer's lock is answered |
| Mempool | `IndexConsistent`, `CapacityKept`, `RollbackExact`: the two maps agree and keep both capacities, a failed submission leaves the pool as it was |
| Node | `AckedIsVisible`, `AckedIsDurable`, `MemoryNotAheadOfDisk`, `LedgerAlwaysLoads`, `LedgerAudits`, `LookupResolves`; `NoPendingLimbo`: a submission leaves nothing in the pool, wherever it fails; `PageIsChain` of the explorer; `ImplementsCommitLog`, the refinement; `EventuallyServes`, liveness |
| Staking | `NothingStranded`, `UnslashedStakeIsExact`, `StakeNeverLost` |
| Dag | `CommittedHasSupport`, `ParentsHeldOrCommitted`: collection takes neither the support of a commit nor a parent that was not committed |
| HotStuff | `Agreement`, `LockIsCertified`, `SafetyRuleIsMonotone` |
| Ibc | `SettledOnce`, `DeliveredOnce`, `OrderedInOrder` (the n-th delivery on an ordered channel has sequence n) |
| Faucet | `LockoutMeansFunded`, `OneDripPerCooldown`, `NonceNotReused`; `GrantedIsFunded`: a hash is given for a funded request only; `RequestsReturn`, liveness |
| Network | `PeersAreConnected`: the peer set holds connected peers only; `SwarmKeepsPumping`: an application that never reads does not stop publishing or shutdown |
| Home | `CreatedIsKept`: a reported wallet survives; `UnlockedIsOwners`: no command gets another key than it asked for; `OrphanedOnlyByOverwrite`: genesis and ledger stay together |

Some properties name their exceptions. `NonceNotReused` and `OneDripPerCooldown`
leave out transfers the faucet gave up at a timeout, which the node may still
take; `OneDripPerCooldown` also addresses at which a request that took longer than
the cooldown released the claim of a later one (faucet 262), which with a cooldown
of seconds funds an address twice. `ExplorerNonceHolds` leaves out a nonce that
another program, or a transfer the explorer gave up, spent. `CreatedIsKept` leaves out files that appeared after the check for them or
were edited by hand, `UnlockedIsOwners` a file that changed between being found
and being opened, and `OrphanedOnlyByOverwrite` a genesis file overwritten with
`--force` or by an `init` that ran at the same time. Each exception is recorded in
a history variable of the model.

Two runs end in a violation of what a comment says:

- **NodeErrors**: rpc 4, a submission "either returns a hash for a committed
  block or an error". When the directory's fsync fails after the rename, the
  caller gets an error and the next start finds the transaction committed.
- **HotStuffFive**: consensus 28 and 35, `f = (n - 1) / 3` byzantine validators
  are tolerated by the derived quorum. The quorum is 2f + 1 with f rounded down:
  for five validators two quorums of three may share the faulty one only, and
  two replicas adopt different blocks of one view. For n = 3f + 1 `Agreement` is
  proved.

Other sentences the models do not bear out, and which no run states:

- mempool 296, after an eviction "the remaining per-sender sequence stays
  contiguous": the victim is chosen before the newcomer is in the pool, so it may
  be the sender's own previous nonce.
- rpc 271, views are swapped "at once": a reader between two swaps sees views of
  two blocks.
- rpc 330, "Durability before visibility": a process that dies between rename
  and directory fsync is restarted from a ledger a power loss can still undo.
- storage 161, a rejected ledger is never written: `seed_accounts` on a chain
  with blocks writes one that `load` refuses.
- staking 76, a double-signer is ejected: not one whose stake is 0.
- staking 3, checked arithmetic everywhere: `undelegate` saturates, so after a
  slashing more is withdrawn than the validator holds.
- consensus 149, a vertex with unknown parents is rejected: not in round 1.
- consensus 35, BFT quorum sizing: for two or three validators the quorum is 1.
- consensus 462, "already registered": `register` has replaced the key by then.
- ibc 81, a height after which the packet is void: each chain compares it with
  its own height, so a packet the sender timed out may still be received.
- faucet 4 and 205: a request that timed out may have been funded, and the next
  one signs its nonce again.
- cli 435, "refusing to overwrite an existing wallet": two commands with one
  name both find it free, and the second replaces the wallet the first one
  reported.
- network 294, `connected_peers`: a peer with two connections is taken out when
  the first of them closes.

### Bounds

- Clients: two accounts, amounts up to 4 and nonces up to 2, so that overflow,
  the terminal nonce and self-transfers happen; three callers, each an explorer
  transfer, a command with or without a nonce or for another chain, and at most
  one request made by hand, which leaves fields out, signs others or with
  another key; nodes on which two transfers can be paid, or one before the
  terminal nonce.
- Mempool: three senders, capacities 3 and 2, so that replacement, eviction and
  the sender's budget meet.
- Node: two submitting threads, six transactions of which two compete for a
  nonce, one depends on others and one never executes; room for three blocks, of
  which a page shows two; two faults, which reach an I/O error followed by a
  crash and a crash during the recovery from a crash.
- Staking: two validators and delegators, amounts up to 5, two slashings: stakes
  cut below the delegations, withdrawn to zero, ejected and registered again.
- Dag: quorum 3 of 4, four rounds, collections that keep 0 or 1 rounds.
- HotStuff: four validators with one faulty, two replicas, blocks and views.
  Certificates come from five lists of signers: two quorums that share a faulty
  and an honest validator, one too short, one that repeats and one that names a
  stranger. Replicas and blocks are symmetric. HotStuffFive has five validators
  and one view.
- Ibc: two channels at the sender and one, ordered or not, at the receiver;
  windows of one block and one second, which height and clock pass; two
  transfers and a largest sequence of 3, at which both counters end.
- Faucet: three requests, two addresses of which one has two spellings, a
  cooldown of one tick and a clock of two, one restart: claims expire while their
  request is at work, are made again and are swept.
- Network: two peers and a connection of either direction to each, of which two
  at a time are allowed; channels of one message; messages that are fine,
  invalid, and too long only once they are encoded.
- Home: two commands at a time and three in all, one fault, two wallet files and
  keys, two passwords and one that is too short, five sets of `init` arguments of
  which two are refused.

### Fairness

`FairSpec` of Node: a thread in the commit path keeps running, since nothing in it
waits once the lock is held, and an operator restarts a node that is down. The
commit lock is a standard mutex, which promises its waiters no turn, so nothing
is claimed of submitters that wait for it.
`FairSpec` of Faucet: a request whose await is ready is resumed; the HTTP client's
timeout makes every call ready, so nothing is assumed of the node. The queue of
the lock is fair in the code; with finitely many requests weak fairness is
enough.

`ClientFairSpec` of Clients: a caller goes on when its answer, its timeout or the
lock is there; nothing is assumed of the node. `FairSpec` of Network: the loop
handles the event it picked; `select!` polls its arms in random order, so an arm
that is ready again and again is taken (strong fairness of publishing and
stopping). Nothing is assumed of the network or the application.

Clients, HotStuff, Home and Network may stop and are not checked for deadlock:
all callers have returned, all views are used, the commands of the behaviour have
run, the manager has stopped.

## Proofs

| module | theorems | about |
|---|---|---|
| Operators_proofs | `ErrorLeavesStateUntouched`, `ExecutionSpendsOneNonce` | one `apply_transaction` on any accounts; lemmas about sums over finite sets and about the operations of the pool |
| Clients_proofs | `NonceInvHolds`, `TypesHold`, `SlotsAreSpentOnce`, `RefusedLeavesNoTrace`, `NoncesCountExecutions`, `ValueIsConserved` | the account rules, in any order of calls |
| | `ClientsUseTheState`, `ClientsConserve`, `ClientNoncesCount`, `NodeNeverSigns`, `LockHoldsTheNonce`, `PrintedPaysOnce` | the programs that pay |
| | `PoolInvHolds`, `PoolIsIndexed`, `PoolKeepsCapacity`, `PoolRollsBack`, `PoolDropsTheCheapest` | the pool |
| Node_proofs | `CommitInvHolds`, `TypesHold`, `MemoryIsBehindDisk`, `AcknowledgedIsDurable`, `NoLimbo` | the commit path |
| Audit_proofs | `AuditInvHolds`, `LedgersLoad`, `BooksBalance`, `AcknowledgedIsVisible`, `RestartAddsAtMostOne`, `LookupsResolve` | what readers, auditors and a restarted node find |
| Refinement_proofs | `LedgerIsACommitLog` | the ledger file refines CommitLog |
| | `ServedChainGrows`, `PagesAreChains` | the chain that is shown, and the explorer's page |
| Consensus_proofs | `LocksAreCertified`, `SafetyRuleNeverRelaxes`, `AgreementHolds` | HotStuff |
| | `DagInvHolds`, `CommitsKeepSupport`, `HistoryIsClosed` | the DAG |
| | `StakingInvHolds`, `NoDelegationIsStranded`, `UnslashedIsExact`, `NoStakeIsLost` | staking |
| Interfaces_proofs | `TransfersSettleOnce`, `TransfersAreDeliveredOnce`, `ReceiptsAreOfDeliveries`, `OrderedChannelsAreOrdered`, `OrderedSharesNoSequence` | IBC |
| | `CountedPeersAreConnected` | the peer set |
| | `HomeInvHolds`, `ReportedWalletsAreKept`, `UnlockGivesTheOwnersKey`, `OnlyOverwritesOrphan` | wallet and genesis files |
| Faucet_proofs | `NoncesAreNotReused`, `GrantsAreFunded`, `LockoutsAreFunded`, `DripsAreACooldownApart` | what the faucet signs, grants and refuses |

Every safety property a passing run checks, and the refinement, is stated by a
theorem; liveness is not. Some theorems say more than the runs:

- `NoncesCountExecutions`, `ClientNoncesCount`: a nonce moves by one, and only with
  an execution of a transaction that has it. A nonce that a client has read goes
  stale in no other way.
- `PoolDropsTheCheapest`: an admission pushes out at most one transaction, the one it
  reports. It had the same nonce and paid less, or the pool was full and nothing
  pending paid less.
- `RestartAddsAtMostOne`: a restart shows the chain that was served and at most one
  block more, however many writes failed before; a power loss brings back a ledger
  that extends the stable one and is no longer than that, whichever of the renames
  since the last fsync of the directory survives.
- `ServedChainGrows`: short of a power loss, a chain that a reader was shown is only
  extended, also across stops and restarts.
- `OrderedSharesNoSequence`: an ordered channel takes a packet only when all that the
  other chain sent before came from the same channel. As a chain counts its
  sequences over all channels, one packet on a second channel stops an ordered one
  for good.

### Assumptions

The theorems hold for all constants that satisfy the named assumptions of the
modules: any accounts, transactions, threads, capacities and numbers of faults;
any validators, signers and certificates; any channels and relayers; any callers,
commands and requests. TLC evaluates the assumptions on every run. They say what
the types of the code say (an address space is finite, `AddrsAssumption`; amounts
and limits are naturals), that markers for "nothing there" are none of the values
they stand in for (`MarkerAssumption`, `FilesAssumption`, `ExplorerAssumption`),
that the transactions callers ask for are among `Txs` (`PlansAssumption`), and how
a cluster is sized (`ConfigAssumption`).

Some theorems assume more:

- `AgreementHolds`: n = 3f + 1. Run HotStuffFive shows why.
- `LedgersLoad`, `BooksBalance`, `LedgerIsACommitLog`: `~Reseeding`. Genesis is
  seeded on an empty chain only, as `bootstrap` does. Seeding a chain with blocks
  sets balances that its blocks do not explain; all other theorems about the
  node hold with it too.

The theorems about certificates, `LocksAreCertified` and `AgreementHolds`, and the
run HotStuff rest on signatures that only the holder of a key can make. The code
does not provide that: `hash_to_g2` (crypto 147-155) is a hash-and-multiply, whose
module documentation says that it is no standard hash-to-curve. What is shown is
the logic of quorums, views and locks over a signature scheme that is
unforgeable.

### Arguments

Accounts and clients. `SlotSpentOnce` becomes inductive with `ExecutedIsSpent`: an
executed transaction's nonce is below its sender's. `Conservation` is inductive by
itself; what each call does to the sum over all accounts is lemma `SupplyChange`.
`NonceStep` follows from the types, call by call.
`ClientsUseTheState` shows that the node behind its clients is a behaviour of
StateMachine, so that its invariants carry over. `ClientInv` says that a request
is on its way once (`SentOnce`), that an explorer transfer holds the lock from its
first read to its answer (`GuardHeld`), and that an answer is true of what its
caller signed (`AnswersAreTrue`).

Pool. Admission, replacement and eviction change two maps, and `RollbackExact`
asks for the old pool back. `PoolInv` adds to the mirrored maps and the capacities
that whatever is pending passes the checks of `admit` that look at the transaction
alone, which is what makes `restore_pool`'s re-admission succeed. The order of
`evict_lowest_priority` is total, so a pool that is not empty has a victim
(`VictimIsPending`).

Commit path. `AckedIsDurable` alone is not inductive. `CommitInv` adds that the
commit lock is held by the one thread in the commit path (`LockInv`), that its
locals extend the views by one block and its transaction is all the pool holds
(`WorkInv`), that the temporary file, the ledger and the stable ledger are what the
thread's stage says (`WriteInv`), and that every file holds every acknowledged
transaction at its height (`DiskInv`). A receipt must never be replaced by one of
the same hash: that needs `Spent`, every receipt is of a transaction whose nonce
the account has passed, which rests on `ExecutionSpendsOneNonce`.

Audit. A ledger is `Good` when its blocks pass `validate_chain`, its receipts are
exactly those of its blocks (`ChainOK`), and its accounts are the last state root,
balance against genesis and fees, and are what re-executing the chain gives
(`BooksOK`). `AuditInv` says that every ledger on disk and every one being written
is good (`DiskGood`, `WorkGood`); that the views are a good ledger outside the
swaps, and between any two swaps blocks reach at least as far as the receipts and
these at least as far as the height (`ViewInv`); that the file is at most one
block ahead of the views and the stable ledger is a part of both (`TailInv`); and
that every ledger renamed since the last fsync of the directory extends the stable
one and is at most one block ahead too (`RenamedInv`). The last two are needed
because a failed fsync of the directory leaves a block in the file that nobody was
told of; the next submission replaces it, and a power loss may bring it back. Re-execution is a
recursive function of the log; `ReplayAppend` is its one step.

Refinement. `LedgerIsACommitLog` maps the ledger file to the log, its accounts to
the state and the highest answered block to the acknowledged length. The rename is
`Commit`, on top of the log or in place of its last block; a power loss is
`Recover`, as every ledger it may leave holds what was acknowledged and
re-executes (`BooksOK`, `RenamedInv`); the last swap, with which the call returns, is
`Acknowledge`; every other step stutters.

Pages. A page is built over many calls, so `PageInv` ties it to the blocks that
are served, and to those on disk while the node is down: a serving node only adds
blocks (`ServingGrows`), and a restart shows what is on disk (`DownStays`). The two
together are `ServedChainGrows`.

HotStuff. A validated certificate is signed by a quorum of distinct registered
validators (`ValidatedIsCertified`), honest keys sign one block per view
(`HonestOnce`), and a replica's lock and view are those of the certificate it
holds (`ReplicaInv`). Two quorums of 2f + 1 among 3f + 1 share f + 1 validators by
the cardinality of their union, one of which is honest. The registry is built
before the replicas start, as `HotStuff::new` takes it by value.

DAG and staking. `DagInv` says that the index describes the vertices that are held
and that what is committed is held. Collection keeps commits only at or above the
cutoff, and with them the whole next round, their support. Staking needs its types
and the three properties together; what a call does to the sum of the stakes, and
to the sum of the delegations to one validator, comes from `SumChange` and its
neighbours.

IBC. Receipts name the source channel and the sequence, not the packet. That they
are unique rests on `SequenceInv`: a chain's sequences are below its counter and
name one packet over all channels. `DeliveryInv` ties deliveries to receipts and
`ReceiptInv` receipts to deliveries, except where the receive counter overflowed
after the receipt was stored. `OrderInv` counts the deliveries of an ordered
channel: its counter is one more. `QueueInv` says how far that counter gets: not
past the sending chain's counter, and not past a packet for another channel, as
the next sequence is that packet's and no other packet has it.

Files. `HomeInv` says what the file of each running command holds at each of its
system calls: a temporary file is the command's own wallet, synced before it is
renamed, and between the truncation and the writing of a genesis file nothing can
be seeded.

Faucet. `NonceInv` says that the holder of the lock is the one request between
reading the nonce and its answer (`LockInv`), that a request has one transfer
(`SentInv`), that nobody signs beyond the account's next nonce (`CommittedInv`) and
that a waiting transfer's nonce is above all granted ones (`OrderInv`). `CoolInv`
adds the clock: until its cooldown is over, the claim of a request that works or
was granted is in the ledger, or a later one for the address is, or a late release
took it out (`EntryInv`); so two such requests of one address are a cooldown apart
or have a late release before the second (`ApartInv`). A release is late only when
its request is older than the cooldown, as nobody could claim the slot before.

Induction. The library's induction theorems take an operator as a parameter,
which the provers do not instantiate. Where an argument needs induction it takes
a smallest counterexample instead: `MinimalSubset` for finite sets, `Smallest` for
naturals, both from the well-foundedness theorems of the library. That is how sums
over accounts, blocks and stakes and the re-execution of a log are handled.

The inductive invariants were checked by TLC, on the instances of the runs, before
they were proved.

### Only model-checked

Liveness and everything with fairness: `EventuallyServes`, `CallersReturn`,
`RequestsReturn`, `SwarmKeepsPumping`. The provers reason about neither `ENABLED`
nor fairness.

## Not modelled

- Cryptography: a signature is the key and payload it was made from, and assumed
  to be unforgeable (see "Assumptions"); a sealed
  wallet opens with its password only. Curve arithmetic, aggregation, encryption
  and key exchange are algebra that TLC cannot evaluate on a meaningful instance.
- Read-only queries of the command line, the explorer's wallet and address pages,
  the faucet's status: single reads of state other modules model. Formatting of
  requests, pages and results.
- Metrics: counters a caller sets and an exporter prints; nothing reads them
  back. Telemetry: installs a log filter. Benchmarks: time calls of other crates.
- Two node processes on one data directory, which the code does not prevent.
- The start of a node without genesis allocations, which writes no ledger before
  its first block (`GenesisAssumption`).
- The node runs neither the network nor the consensus crates; they are modelled by
  themselves, with their callers as the environment. The faucet and the clients
  talk to a node that commits in one step; module Node takes that step apart.
