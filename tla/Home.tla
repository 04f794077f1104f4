-------------------------------- MODULE Home --------------------------------
(***************************************************************************)
(* The files an operator keeps with the command line tool                  *)
(* (crates/subhost-cli): the wallets (crates/subhost-wallet) and the       *)
(* genesis file (crates/subhost-core), with the commands that write and    *)
(* read them, the node start that consumes the genesis file, and crashes.  *)
(*                                                                         *)
(* Several commands may run at once.  Wallet::save is the system calls it  *)
(* makes; GenesisConfig::save is one fs::write, which truncates the file   *)
(* and then fills it, and is never fsynced.                                *)
(***************************************************************************)
EXTENDS Naturals, Sequences, Functions, TLC

CONSTANTS
  Procs,           \* the commands that run at the same time
  Paths,           \* wallet file names, as numbers in their order
  Keys,            \* secret keys; a key also stands for the address it controls
  Passwords,
  Weak,            \* the passwords shorter than MIN_PASSWORD_CHARS
  InitArgs,        \* the arguments `subhost init` is run with
  Malformed,       \* an allocation or a validator that does not parse
  FallbackChainId, \* the chain of a node started without a genesis file
  NoFile,
  Torn,            \* the content of a file whose write was cut short
  Unrelated,       \* a JSON file that is not a wallet
  NoJob,
  MaxCommands,     \* bound on the commands of one behaviour
  MaxFaults        \* bound on the crashes and failed commands of one behaviour

ASSUME HomeAssumption ==
  /\ Paths \subseteq Nat
  /\ Weak \subseteq Passwords
  /\ MaxCommands \in Nat /\ MaxFaults \in Nat

VARIABLES
  pc,          \* where each command is
  job,         \* the locals of each command
  temp,        \* each command's temporary file
  wallets,     \* the wallet directory as the running system sees it
  kept,        \* the wallet directory that survives a power loss for certain
  genesis,     \* the genesis file
  ledger,      \* the ledger file: its chain and the allocations it was seeded with
  node,        \* the chain the node serves, 0 when it is down
  commands, faults,
  created,     \* history: the wallets a command reported, with their files
  unlocked,    \* history: the addresses asked for, with the wallet found and
               \*   the one opened
  overwritten, \* history: wallet files that appeared after the check for them
  edited,      \* history: wallet files the operator edited
  forced       \* history: a genesis file was overwritten, by --force or because
               \*   it appeared after the check for it

genesisVars == <<genesis, ledger, node, forced>>
walletVars == <<temp, wallets, kept, created, unlocked, overwritten, edited>>
homeVars == <<pc, job, commands, faults, genesisVars, walletVars>>

-----------------------------------------------------------------------------
(* Wallets: scrypt and AES-GCM open a wallet with the password that sealed *)
(* it and with no other.                                                   *)

DeriveAddress(key) == key

ValidatePassword(pw) == pw \notin Weak

(* encrypt_private_key: salt and nonce are fresh each time.                *)
Encrypt(key, pw) == [secret |-> key, password |-> pw]

FromSecret(key, pw) ==
  [address |-> DeriveAddress(key), encrypted |-> Encrypt(key, pw)]

Readable(file) == file # NoFile /\ file.wallet \notin {Torn, Unrelated}

Decrypts(w, pw) == w.encrypted.password = pw

(* Mutant of Opens: the key need not control the address of the file.      *)
OpensAny(file, pw) ==
  ValidatePassword(pw) /\ Readable(file) /\ Decrypts(file.wallet, pw)

(* Wallet::load: the decrypted key must control the stored address.        *)
Opens(file, pw) ==
  /\ ValidatePassword(pw)
  /\ Readable(file)
  /\ Decrypts(file.wallet, pw)
  /\ file.wallet.address = DeriveAddress(file.wallet.encrypted.secret)

(* list_wallets: files that do not read are skipped.                       *)
ListWallets == {p \in Paths : Readable(wallets[p])}

Matching(a) == {p \in ListWallets : wallets[p].wallet.address = a}

(* find_wallet: the first match in the order of the file names.            *)
FindWallet(a) == CHOOSE p \in Matching(a) : \A q \in Matching(a) : p <= q

-----------------------------------------------------------------------------
(* Genesis: allocations are a list on the command line and in the file, a  *)
(* map in between.                                                         *)

Distinct(list) == \A i, j \in DOMAIN list : list[i][1] = list[j][1] => i = j

(* The map is written as a list sorted by address.                         *)
Serialize(list) == SortSeq(list, LAMBDA x, y : x[1] < y[1])

(* GenesisConfig::validate; validators are addresses with their power.     *)
Validate(doc) ==
  /\ doc.chain_id # 0
  /\ \A i \in DOMAIN doc.validators : doc.validators[i][2] # 0
  /\ Distinct(doc.validators)

(* parse_allocation and parse_validator of every argument.                 *)
Parses(args) == Malformed \notin Range(args.allocations) \cup Range(args.validators)

Document(args) ==
  [chain_id |-> args.chain_id, allocations |-> Serialize(args.allocations),
   validators |-> args.validators]

(* What a whole file of either kind holds: no missing, torn or unrelated   *)
(* file passes for one.                                                    *)
WalletRecords == [address : Keys, encrypted : [secret : Keys, password : Passwords]]

Documents == {Document(args) : args \in {a \in InitArgs : Parses(a)}}

ASSUME FilesAssumption ==
  /\ {Torn, Unrelated} \cap WalletRecords = {}
  /\ NoFile \notin [wallet : WalletRecords \cup {Torn, Unrelated}, synced : BOOLEAN]
  /\ NoFile \notin [doc : Documents \cup {Torn}, synced : BOOLEAN]

Loads(file) ==
  file.doc # Torn /\ Distinct(file.doc.allocations) /\ Validate(file.doc)

-----------------------------------------------------------------------------

(* The wallet directory may hold a JSON file of something else.            *)
HomeInit ==
  /\ pc = [p \in Procs |-> "idle"]
  /\ job = [p \in Procs |-> NoJob]
  /\ temp = [p \in Procs |-> NoFile]
  /\ wallets \in {[p \in Paths |-> NoFile],
                  [p \in Paths |-> IF \A q \in Paths : p <= q
                     THEN [wallet |-> Unrelated, synced |-> TRUE] ELSE NoFile]}
  /\ kept = wallets
  /\ genesis = NoFile
  /\ ledger = NoFile
  /\ node = 0
  /\ commands = 0
  /\ faults = 0
  /\ created = {}
  /\ unlocked = {}
  /\ overwritten = {}
  /\ edited = {}
  /\ forced = FALSE

Begin(p, stage, locals) ==
  /\ pc[p] = "idle"
  /\ commands < MaxCommands
  /\ commands' = commands + 1
  /\ pc' = [pc EXCEPT ![p] = stage]
  /\ job' = [job EXCEPT ![p] = locals]
  /\ UNCHANGED faults

Advance(p, from, to) ==
  /\ pc[p] = from
  /\ pc' = [pc EXCEPT ![p] = to]
  /\ UNCHANGED <<job, commands, faults>>

Finish(p, from) ==
  /\ pc[p] = from
  /\ pc' = [pc EXCEPT ![p] = "idle"]
  /\ job' = [job EXCEPT ![p] = NoJob]
  /\ UNCHANGED <<commands, faults>>

-----------------------------------------------------------------------------
(* wallet new and wallet import.                                           *)

FreePath(path) == wallets[path] = NoFile

(* The key is sealed and the path chosen.  A new key is one of the keys,   *)
(* as an imported one is.                                                  *)
CreateWallet(p, key, pw, path) ==
  /\ ValidatePassword(pw)
  /\ FreePath(path)
  /\ Begin(p, "write", [path |-> path, wallet |-> FromSecret(key, pw)])
  /\ UNCHANGED <<genesisVars, walletVars>>

WriteWallet(p) ==
  /\ Advance(p, "write", "sync")
  /\ temp' = [temp EXCEPT ![p] = [wallet |-> job[p].wallet, synced |-> FALSE]]
  /\ UNCHANGED <<genesisVars, wallets, kept, created, unlocked, overwritten, edited>>

(* Mutant of SyncWallet: the temporary file is not fsynced.                *)
SyncWalletSkipped(p) ==
  /\ Advance(p, "sync", "persist")
  /\ UNCHANGED <<genesisVars, walletVars>>

SyncWallet(p) ==
  /\ Advance(p, "sync", "persist")
  /\ temp' = [temp EXCEPT ![p] = [wallet |-> @.wallet, synced |-> TRUE]]
  /\ UNCHANGED <<genesisVars, wallets, kept, created, unlocked, overwritten, edited>>

(* persist renames over whatever is there by now.                          *)
PersistWallet(p) ==
  /\ Advance(p, "persist", "syncdir")
  /\ wallets' = [wallets EXCEPT ![job[p].path] = temp[p]]
  /\ overwritten' = IF FreePath(job[p].path) THEN overwritten
                    ELSE overwritten \cup {job[p].path}
  /\ temp' = [temp EXCEPT ![p] = NoFile]
  /\ UNCHANGED <<genesisVars, kept, created, unlocked, edited>>

SyncWalletDir(p) ==
  /\ Finish(p, "syncdir")
  /\ kept' = wallets
  /\ created' = created \cup {job[p]}
  /\ UNCHANGED <<genesisVars, temp, wallets, unlocked, overwritten, edited>>

(* The operator edits the address in a wallet file.                        *)
EditAddress(path, a) ==
  /\ commands < MaxCommands
  /\ commands' = commands + 1
  /\ Readable(wallets[path])
  /\ wallets' = [wallets EXCEPT ![path].wallet.address = a]
  /\ kept' = [kept EXCEPT ![path] = wallets'[path]]
  /\ edited' = edited \cup {path}
  /\ UNCHANGED <<pc, job, faults, genesisVars, temp, created, unlocked, overwritten>>

-----------------------------------------------------------------------------
(* Commands that need a key (wallet export, tx send, the explorer's        *)
(* transfer, the faucet's signer): the file is found in one read of the    *)
(* directory and opened in another.                                        *)

FindKey(p, a, pw) ==
  /\ Matching(a) # {}
  /\ Begin(p, "load", [path |-> FindWallet(a), asked |-> a, password |-> pw,
                       found |-> wallets[FindWallet(a)].wallet])
  /\ UNCHANGED <<genesisVars, walletVars>>

LoadKey(p) ==
  /\ Finish(p, "load")
  /\ unlocked' =
       IF Opens(wallets[job[p].path], job[p].password)
         THEN unlocked \cup {[asked |-> job[p].asked, found |-> job[p].found,
                              opened |-> wallets[job[p].path].wallet]}
         ELSE unlocked
  /\ UNCHANGED <<genesisVars, temp, wallets, kept, created, overwritten, edited>>

-----------------------------------------------------------------------------
(* init.                                                                   *)

(* Mutant of MayInit: the genesis file is not looked for.                  *)
MayInitAlways(force) == TRUE

(* "already exists; pass --force to overwrite it".                         *)
MayInit(force) == genesis = NoFile \/ force

InitGenesis(p, args, force) ==
  /\ MayInit(force)
  /\ Parses(args)
  /\ Distinct(args.allocations)
  /\ Validate(Document(args))
  /\ Begin(p, "truncate", [doc |-> Document(args), force |-> force,
                         existed |-> genesis # NoFile])
  /\ UNCHANGED <<genesisVars, walletVars>>

(* fs::write opens the file, truncating it, ...                            *)
TruncateGenesis(p) ==
  /\ Advance(p, "truncate", "fill")
  /\ genesis' = [doc |-> Torn, synced |-> FALSE]
  /\ forced' = (forced \/ (genesis # NoFile /\ (job[p].force \/ ~job[p].existed)))
  /\ UNCHANGED <<ledger, node, walletVars>>

(* ... and writes it.                                                      *)
FillGenesis(p) ==
  /\ Finish(p, "fill")
  /\ genesis' = [doc |-> job[p].doc, synced |-> FALSE]
  /\ UNCHANGED <<ledger, node, forced, walletVars>>

-----------------------------------------------------------------------------
(* Node::bootstrap, with the ledger write of module Node as one step.      *)

BootChainId == IF genesis = NoFile THEN FallbackChainId ELSE genesis.doc.chain_id

HasValidators == genesis # NoFile /\ genesis.doc.validators # <<>>

Bootable(validator) ==
  /\ genesis # NoFile => Loads(genesis)
  /\ validator => HasValidators
  /\ BootChainId # 0
  /\ ledger # NoFile => ledger.chain_id = BootChainId

Fresh == ledger = NoFile

Start(validator) ==
  /\ node = 0
  /\ Bootable(validator)
  /\ node' = BootChainId
  /\ ledger' = IF Fresh /\ genesis # NoFile /\ genesis.doc.allocations # <<>>
                 THEN [chain_id |-> BootChainId, seed |-> genesis.doc.allocations]
                 ELSE ledger
  /\ UNCHANGED <<pc, job, commands, faults, genesis, forced, walletVars>>

Stop ==
  /\ node # 0
  /\ node' = 0
  /\ UNCHANGED <<pc, job, commands, faults, genesis, ledger, forced, walletVars>>

-----------------------------------------------------------------------------
(* Faults.                                                                 *)

(* A system call of a command fails, or the command is interrupted: what   *)
(* it has renamed or truncated by then stays.                              *)
Interrupt(p) ==
  /\ pc[p] # "idle"
  /\ faults < MaxFaults
  /\ faults' = faults + 1
  /\ pc' = [pc EXCEPT ![p] = "idle"]
  /\ job' = [job EXCEPT ![p] = NoJob]
  /\ temp' = [temp EXCEPT ![p] = NoFile]
  /\ UNCHANGED <<commands, genesisVars, wallets, kept, created, unlocked, overwritten, edited>>

(* What a power loss may leave of a file.                                  *)
Survivors(file, stable) ==
  {file, stable} \cup
    (IF file # NoFile /\ ~file.synced
       THEN {[wallet |-> Torn, synced |-> TRUE]} ELSE {})

(* The genesis file was never fsynced; its directory entry was when the    *)
(* ledger next to it was written.                                          *)
GenesisSurvivors ==
  IF genesis = NoFile \/ genesis.synced THEN {genesis}
  ELSE {[genesis EXCEPT !.synced = TRUE], [doc |-> Torn, synced |-> TRUE]}
         \cup (IF ledger = NoFile THEN {NoFile} ELSE {})

PowerLoss ==
  /\ faults < MaxFaults
  /\ faults' = faults + 1
  /\ pc' = [p \in Procs |-> "idle"]
  /\ job' = [p \in Procs |-> NoJob]
  /\ temp' = [p \in Procs |-> NoFile]
  /\ wallets' \in {d \in [Paths -> UNION {Survivors(wallets[p], kept[p]) : p \in Paths}] :
                     \A p \in Paths : d[p] \in Survivors(wallets[p], kept[p])}
  /\ kept' = wallets'
  /\ genesis' \in GenesisSurvivors
  /\ node' = 0
  /\ UNCHANGED <<commands, ledger, forced, created, unlocked, overwritten, edited>>

HomeNext ==
  \/ \E p \in Procs :
       \/ \E key \in Keys, pw \in Passwords, path \in Paths :
            CreateWallet(p, key, pw, path)
       \/ WriteWallet(p) \/ SyncWallet(p) \/ PersistWallet(p) \/ SyncWalletDir(p)
       \/ \E a \in Keys, pw \in Passwords : FindKey(p, a, pw)
       \/ LoadKey(p)
       \/ \E args \in InitArgs, force \in BOOLEAN : InitGenesis(p, args, force)
       \/ TruncateGenesis(p) \/ FillGenesis(p)
       \/ Interrupt(p)
  \/ \E path \in Paths, a \in Keys : EditAddress(path, a)
  \/ \E validator \in BOOLEAN : Start(validator)
  \/ Stop
  \/ PowerLoss

HomeSpec == HomeInit /\ [][HomeNext]_homeVars

-----------------------------------------------------------------------------

(* "Write the wallet atomically" and "refusing to overwrite an existing    *)
(* wallet": a wallet that a command reported is in its file, whole, and    *)
(* stays there through crashes and power losses; only another creation of  *)
(* the same file that had checked for it before, or the operator's editor, *)
(* can take its place.                                                     *)
CreatedIsKept ==
  \A c \in created : c.path \notin overwritten \cup edited =>
    \A dir \in {wallets, kept} : Readable(dir[c.path]) /\ dir[c.path].wallet = c.wallet

(* "The decrypted key must actually control the advertised address": a     *)
(* command that asked for the key of an address never gets another one,    *)
(* also from a file whose address was edited, unless the file has changed  *)
(* between finding and opening it.                                         *)
UnlockedIsOwners ==
  \A u \in unlocked :
    DeriveAddress(u.opened.encrypted.secret) = u.asked \/ u.opened # u.found

(* "Overwriting genesis on a live data directory would orphan the ledger": *)
(* unless --force or a racing init overwrote a genesis file, every one     *)
(* that loads is of the ledger's chain, whatever crashes came in between.  *)
OrphanedOnlyByOverwrite ==
  ledger # NoFile /\ genesis # NoFile /\ Loads(genesis) =>
    genesis.doc.chain_id = ledger.chain_id \/ forced

=============================================================================
