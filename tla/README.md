# Verification of wallet-abstraction

TLA+ models of the ERC-4337 wallet stack in this repository, checked with TLC
and, where noted, proved with TLAPS: the bundler from the JSON-RPC call to the
block and back, the validation rules and the tracer they read, the SDK in front
of the bundler, the wallet's frontend with its services and contracts, and the
curve arithmetic behind the passkeys.

In sections 1 and 2, file names without a directory are those of
`Applications/bundler/packages/bundler/src` (and its `modules`).

## 1. The system

### The bundler

| Component | State | Operations | Talks to |
|---|---|---|---|
| `ReputationManager` | `entries` (address -> opsSeen, opsIncluded), `whitelist`, `blackList` | count seen / included, crash, hourly decay, status, stake check, debug setters | called by all the others |
| `MempoolManager` | `mempool` (array), `entryCount` (per sender) | add (push, replace, refuse), remove by operation or hash, sort, clear | counts seen entities in `ReputationManager` |
| `EventsManager` | `lastBlock`, the cursor of its scans | listener of `UserOperationEvent`, `handlePastEvents` | removes from `MempoolManager`, counts inclusions |
| `BundleManager` | a mutex; the locals of `createBundle` across its awaits | `sendNextBundle` = scan, build, send | all the above, the node |
| `ExecutionManager` | a second mutex, the interval, the mempool size that triggers a bundle | `sendUserOperation`, `attemptBundle`, `setAutoBundler` | validates, adds, bundles |
| `ValidationManager`, `parseScannerResult.ts`, `BundlerCollectorTracer.ts` | none kept | simulate an operation, trace it, apply the opcode and storage rules | the node |
| `UserOpMethodHandler`, `DebugMethodHandler`, `BundlerServer` | none kept | JSON-RPC | `ExecutionManager`, the managers |

What is hard here: JavaScript is single-threaded, but every `await` lets other
handlers in. `createBundle` works on a snapshot of the mempool while operations
are added, replaced and removed; the listener and several scans share
`lastBlock`; one method changes a counter and then throws; counters and array
are kept in step by hand; addresses and nonces are compared as strings while
the chain compares numbers. One mutex is held while another is waited for. The
scanner judges an operation by what a tracer kept of its execution.

### The rest

| Component | State | What makes it correct |
|---|---|---|
| SDK (`packages/sdk`) | whether the account is deployed ("phantom"), the listener of one operation | an operation is built against the account's real state; its wait ends exactly once, by receipt, failure or timeout |
| utils (`packages/utils`) | none | packing and hashing agree with the entry point |
| `Contracts/src/Accounts` | signers and their count, the login service, the entry point; the factory's addresses | the first signer comes by voucher and every other by an operation of the account (signers are never removed); creation is idempotent and lands at the computed address |
| `Contracts/src/Paymaster` | none of its own | a signature sponsors one operation (the nonce it signs is the entry point's), in its time range |
| `Contracts/src/Lib` | none | the curve arithmetic is the group law, also at its special cases |
| `Applications/frontend` | passkey id, account, the steps of a user's flow | a wallet the user sees is a wallet the user can sign for |
| paymaster and login services | none kept | they sign what their contracts check |

What is hard here: an operation is built from several reads of a chain that
moves on between them; a passkey is stored before the operation that makes it a
signer lands; two tabs share local storage and nothing else; sponsorships expire;
a wait ends by an event, by a timeout or not at all; the curve arithmetic has
special cases that no random test meets.

`PROJECT.json` lists every component with its status and reason, and every
hazard with its line and the properties that cover it.

## 2. The modules

```
ReputationManager          counters, status, stake check
  MempoolManager           EXTENDS it: queue, counters per sender
    |  OpPool              abstract map; MempoolManager implements it
    |  MempoolProofs       theorems about both
    EventsManager          EXTENDS MempoolManager: chain, listener, scans
      |  EventsProofs      theorems about EventsManager
      BundleManager        EXTENDS EventsManager: bundling, sending, the node
         BundleProofs      theorems about BundleManager

ExecutionManager           the service: requests, timer, debug calls, two mutexes
  Sdk                      EXTENDS it: account API, listener, wait()
       SdkProofs           theorems about both

CallTracer                 a traced validation and what the collector keeps of it
  UserOpScanner            EXTENDS it: parseScannerResult, validateUserOp
       ScannerProofs       theorems about both

WebAuthnAccount            account, factory, paymaster, picture token
  WalletFlow               EXTENDS it: the frontend, its services, a bundler
       WalletProofs        theorems about both

Secp256r1                  verification of a WebAuthn signature
       SecpProofs          theorems about it

UserOpMethodHandler        receipts and operations by hash

InductionFacts             least elements, induction over a set of naturals,
                           recursive functions and sequences, for the proofs

MCReputation, MCMempool, MCEvents, MCBundle, MCSdk, MCScanner, MCWallet,
MCSecp256r1, MCReceipt     instances for TLC
```

Each module adds the state of one class to what the classes it calls keep, and
its own `Next`. A method that calls into another class is one action with the
whole effect, for instance `PushUserOp` raises the sender's count, appends, and
counts the paymaster and the factory as seen. A method with an await is one
action per stretch between awaits.

The mempool stack and the service are two models of the bundler at two levels.
`ExecutionManager` has the whole service with a mempool that is a set and a
validation that is an agreement of nonce and initCode with the chain; what the
queue, its counters, the scans and the choice of a bundle do in detail is in the
modules named after those classes, and no mutex occurs there because one call of
`sendNextBundle` runs at a time.

**Values.** An address or nonce is a text of the request, because that is what
the code compares; `AccountOf` and `NonceValue` say what the texts denote on the
chain. `NoAddr` is `undefined`. A `userOpHash` is the operation with its texts
replaced by what they denote (the entry point computes it from those). Signature,
call data and gas fields other than the fees play no part in any decision of
these classes and are left out. Fees are small integers and `new >= old * 1.1` is
written `10 * new >= 11 * old`: the rounding of the double product is left out.

**ReputationManager.** `entries` is a partial function, so `_getOrCreate` and
`delete` show. `GetStatus` needs the counters only through `EarnedStatus`.
`setReputation` is the method; the debug RPC that should call it passes the
wrong argument (`DebugMethodHandler.ts:57`) and always throws.

**MempoolManager.** `addUserOp` is three actions, `ReplaceUserOp`, `PushUserOp`
and `RefuseUserOp`; the fourth way to end, a replacement that pays too little,
throws before anything changes. `RemoveUserOp` and `RemoveUserOpHash` are the
two uses of `removeUserOp`. `ReputationStep` is what happens to reputations
while operations wait: the hourly cron, `crashedHandleOps` and the setter, the
latter two for the entities in `Judged`. `ClearState` is the debug RPC.
Aggregators are modelled as the method takes them, though the validation refuses
every operation that names one.

**OpPool.** What the mempool promises: a partial map from (sender, nonce) to an
entry. A new key enters only while its sender is below the limit or unlimited; a
key is overwritten only by fees a tenth higher; a key may be dropped; all may be
cleared. `PoolMap` is the refinement mapping.

**EventsManager.** `chain` is a sequence of blocks, a block a sequence of
events. The listener hears the `UserOperationEvent`s up to some block in one
step, because the provider polls and runs the callbacks of a poll one after the
other. A scan is `StartScan` (reads `lastBlock`), `GotBlockNumber` (only the
first time), `NodeAnswers` (the answer is fixed, in flight) and
`HandlePastEvents`; it may fail at any of the waits (`ScanFails`). A scan also
meets the events that no handler is for (`OtherEvent`); they move the cursor all
the same. Operations arrive as `sendUserOperation` adds them: `ValidateOp` is the
validation, `AddOp` the call of `addUserOp` two awaits later, and anything may run
in between, the operation's own inclusion too. The second mutex lets one request
at a time come this far, so `arriving` holds one operation. `late` remembers the
operations that were on the chain when they entered the pool, and only properties
read it. The chain does not reorganise.

**BundleManager.** `build` is the one `sendNextBundle` that the mutex lets run.
Its `pc` names the await: `scan`, `validate`, `balance`, `send`. Between them
`Advance` runs over the snapshot up to the next operation to validate and drops
the entries of banned paymasters and factories on the way. The node is external:
`Validates` says whether a simulation passes now, `Rejected` whether `handleOps`
would reject the i-th operation, given those before it. The signer's transactions
all use the latest nonce, so one is pending at a time: a new one replaces it or
is refused. A transaction that reverts leaves no event. `NodeMayFail` lets every
request fail; the code treats a failed validation as an invalid operation. Arrivals
are those of `EventsManager`, against what `Validates` says; the hourly cron is left
to `MempoolManager` and `EventsManager`, since reputations enter a bundle only through the status
of its entities, which `bundle_entities` moves by crashes. The
fields `at` and `quoted` of `build` remember what the snapshot and the balances
were taken from and are read by properties only.

**ExecutionManager.** A caller is a request, a firing of the timer or a
`sendBundleNow`; `stage` names its await. A mutex is the queue of those who asked
for it, the head holds it. A request stays at the head of `execQueue` from its
arrival to its answer, so also while it stands in `bundleQueue`.
`setBundlingMode` and `setBundleInterval` change `mode` at any time, and the code
reads it after awaits, as `PoolUserOp` and `LeaveBundle` do. ('manual' is said to
"never auto-mine", yet it is a pool size of 1000 and bundles from there on.) The
node takes a bundle (`SendBundle`) and mines it later (`MineInFlight`), or never,
if one that comes after takes its place: both have the signer's latest nonce. Until
its event is handled an operation is pooled still, so another caller may bundle it
again. When the node executes at once it reports an operation that fails, and an
entity is blamed; a bundle that became invalid while it waited is mined without an
event. `waited` remembers what was at the node when a bundle was built and is read by
properties only. Every await may fail where `NodeMayErr`.

**Sdk.** `draft` is an operation under construction, one step per read of the
chain. `listener` is the `UserOperationEventListener` of one transaction: the
wait of 100 ms, the query from the latest block, the subscription, the callback
and its awaits. The subscription polls from the block of its first poll, so an
event between the query and that poll is never heard and the wait ends with
"Timed out". `off('UserOperationEvent')` names another filter than
`once(filter)`, so a stopped listener still hears; the timer is never cleared and
`initCode.length !== 0` is always true. The model has all four; none makes a
property false, since a promise settles once.

**CallTracer.** The EVM is external: below the entry point's calls the entities
read, write, hash, create, call and fail in any order, up to `MaxSteps`
instructions and `MaxDepth` frames. They do not call the creator, which is the
entry point's, and CREATE2 has an action of its own. `tracer` is the collector: levels, opcodes,
accesses, code sizes, KECCAK inputs, calls and `lastOp`. A slot is a hashed input
and an offset from its hash, or a padded address, which is all that
`parseEntitySlots` tells apart. Code has a size of none, of one or two bytes (`Stub`) or of
more, which is what the rules tell apart, and a precompiled contract runs without any.
What a call returned is kept to 4000 characters, so a paymaster's context is short, or
long, which means that what is kept of it does not decode (`Kept`). `did` records what the entities did, for the
properties only, and the collector does not enter into it.

**UserOpScanner.** `parseCallStack`, then the rules in the order of the code,
each throw a verdict named after its error, then `validateUserOp` with signature,
time range and aggregator. Four facts of the code are kept as they are: the rule
on calls with a value compares the identity of two `BigNumber`s, so it asks only
that some call is not into the entry point (`ValueCheck`) and values are left out; `includes('CALL')` also matches CALLER; a plain
transfer to the entry point that reverts has no method name and is refused; the
context is looked up at the first `validatePaymasterUserOp` of the call stack.
`AcceptedWithinRules` and `RefusedForCause` name what follows from the last: a context
that is cut, or behind another call of the paymaster (`Unseen`), is not refused, and an
unstaked paymaster that anybody else asks may be refused for the context it gave
there. A contract of one or two bytes is refused
as un-deployed.
The storage map of an operation keeps the reads of the first level that touches a
contract. An operation with an aggregator is refused either way, by its stake check
or by name.

**WebAuthnAccount.** One account per login. A contract's step that reverts
changes nothing, so validation is a guard of `HandleOp`: the three signature
types with the login's voucher, the paymaster's signature over everything but
gas limits, its time range, and the nonce. `_signersCount` also grows when a
credential is overwritten, and at `MaxSigners` (255) it overflows and reverts.
Whether a WebAuthn signature verifies is a comparison of keys.

**WalletFlow.** A page is a tab; `browser` says which tabs share the local
storage. A click runs `ReadNonce`, `ReadCode`, `GetPaymasterData`, `GetGasLimits`,
`SignUserOp` or `SignUserOpWithCreate`, `Send`, `Poll`, `Reveal`, one step per
await whose answer another party can change. The bundler keeps, bundles,
discards or forgets (it keeps its mempool in memory). A dry run of `estimation`
adds a signer to an account that may be full, and reverts. The fees are read a
second time after the paymaster signed, and a changed fee makes the sponsorship
worthless. An exception before `sendUserOp` leaves the status at 'waiting': the
click ends, the page does not say so. 'confirmed' is shown also when the call of
the operation failed. `Poll` and `Reveal` fail in fewer ways than the code: an error of
the node in the middle of the wait (`walletTools.ts:50-57`) or of the queries after it
(`PhotoBooth.tsx:162-183`) ends the click with an error, as the last retry does, and no
property speaks of the reason.

**Secp256r1.** `verify` of both contracts: the challenge's place in the client
data, the checks of ranges and key, the two scalars, and the loop over their
bits, one action per bit, in XYZZ coordinates. The assembly keeps -Y between the
doubling and the addition to spare a subtraction; the model keeps Y. The
reference is the group law and ECDSA as in a textbook (`GroupAdd`, `Times`,
`ValidByTheBook`). `ValidByTheBook` takes nothing from the code: it writes out the ranges of r and s, asks
for an inverse w of s modulo n, and for the abscissa of (e w)G + (r w)Q. A key is a
pair of words, as `ecAff_isOnCurve` accepts it, and Q the point of its residues, which is
what `mulmod` and `addmod` make of it: a key of p or more verifies what its residues
verify. The curve is a constant. Beside the ranges of its parameters the
module assumes what makes them a curve: that p and n are primes, in the form of Fermat's
little theorem (`FieldAssumption`, `OrderAssumption`), that a word is less than twice p
(`WidthAssumption`), and that its points are a group under
`GroupAdd` (`GroupAssumption`). TLC evaluates them on the curve of the run. That n is
the order of G is not needed: both the code and the book reduce the scalars modulo n.

**UserOpMethodHandler.** A bundle is executed log by log, then
`eth_getUserOperationReceipt` runs the filter over the transaction's logs, with
`startIndex` and `endIndex` as the code moves them.

Definitions marked "Mutant" beside a definition are plausible mistakes in it.
No specification uses them. For every property of every passing run
`PROJECT.json` names one with which TLC finds that property violated.

## 3. What is checked

| Run | Shows | Bounds |
|---|---|---|
| `reputation` | `BanEndsAtCron`: a ban by counters ends with the next cron step, for better or worse. `ForgivingStepsNeverWorsen`: inclusions, decay and what happens to others never worsen a standing, though the decay lowers the included count too | 2 addresses, denominator 2, slacks 0 and 1, counters to 4 (dumps and crashes beyond): every status is reached and left |
| `mempool` | `OneOpPerSenderNonce`, `CountCoversPool`, `UnstakedSendersLimited`, `ImplementsOpPool` (refinement) | limit 1; 4 operations of an unstaked and 2 of a staked sender, who is banned and forgiven on the way, so that the limit is hit, passed with a stake and refused; a paymaster that goes and comes back by replacement; counters to 5 |
| `events` | `IncludedAwaitsItsEvent`: an included operation that is pooled is one whose event is still to be heard, or one that was added late. `ScanFlushes`: a scan leaves none but the late ones. `CursorWithinChain`, `EventsRemoveOnlyIncluded` | 2 blocks of up to 2 operations, or of other events, or of none; 2 interchangeable scans and the listener; a replacement whose old version is mined; one arrival at a time |
| `bundle` | `UndisturbedBundleExecutes`: a bundle executes if the chain and the validity of operations are as at its snapshot and no deposit fell below the balance read, whatever happened to pool and reputations while it was built | 3 operations, one replaces another and changes its paymaster and gas; the deposit covers two operations, or one by one but not together once it has fallen; loss of validity, inclusion by others, failing requests |
| `bundle_entities` | the same, with entities throttled and banned, cross-sender storage, a second scan | denominator 2, slacks 0 and 1; 2 operations |
| `bundle_live` | `PooledOpIsResolved`: every pooled operation is eventually included or dropped | 3 operations, replacement, loss of validity |
| `sdk` | `NobodyIsStuck`: no deadlock between the two mutexes, whatever fails. `NoSelfInflictedCrash`: overlapping bundles make `crashedHandleOps` punish an entity only for what another client overtook, or for what was at the node when a bundle was built. `OutcomeIsTrue`, `PhantomFlagIsRight` | 2 transactions of one account (interchangeable), 1 firing of the timer, a pool size of 2 in place of 1000, 2 blocks: three callers contend for the second mutex, bundle an operation that is at the node already, one nonce is used twice, and another client takes it. `sendBundleNow` is a firing that no mode prevents and that always flushes; the proofs have it |
| `scanner` | `AcceptedWithinRules`, `RefusedForCause`: the verdict is right in both directions, but for the exceptions named, against rules stated over what was done and not over the trace. `StorageMapBeforeOp`: the map `createBundle` separates senders by misses no contract and holds no value written by the operation. `CallStackBalances` | 3 instructions in frames to depth 4; slots of the sender and the paymaster, padded, at offset 127 and at 128; a stub, a precompiled contract, an address without code; a nested call of the paymaster's validation; three of the eight combinations of factory and paymaster, those for which it matters who is staked |
| `wallet` | `FirstSignerOnce`: at most one signer of an account was added by voucher. `ConfirmedIsIncluded`, `ShowsOwnPicture`. `OneMintPerClick`: one click never mints two pictures, whatever is sent again. `OnlyOwnerRescues`: a passkey that lost the race for the first signer is of no use until the owner adds it | 2 tabs in one browser or in two, 2 clicks for one login, 2 passkeys, 2 signers at most (for 255), fees that change, a sponsorship of one block, one retry, 2 blocks, one scripted addSigner, restarts of the bundler |
| `wallet_live` | `ClickEnds` | as `wallet`, constant fees, no script |
| `secp` | `AccumulatorIsPrefix`: at every turn of the loop the accumulator is the point of the bits consumed. `VerifiesByTheBook`: `verify` is ECDSA | the 17 points of y^2 = x^3 - 3x + 15 over 23 elements, scalars of 5 bits; every key of the curve, the words of 5 bits that are congruent to one, and seven keys off it or with a coordinate of 0 or p; hashes and r from 0 to n, four s, malformed client data |
| `receipt_logs` | a violation, see below | bundles of 2, 2 more logs each |

`reputation` and `mempool` let the environment call any method at any time (in
`mempool` the crashes and the setter are about one sender, and inclusions are left
out because `EventsManager` never counts one); `events` has the cron and no crash.
`MaxOps`, `MaxCount`, `MaxBlocks`, `MaxSteps`, `MaxClicks`, `MaxScripts`,
`MaxBlock` and the sets of callers are the only bounds on counters; they stop
calls, not effects. `LookBack` is 1000 as in the code, longer than any chain
here: when the first scan starts more than 1000 blocks after an inclusion,
`ScanFlushes` is not promised. Deadlock is checked for the mempool stack.
It is not for `scanner` (a trace ends), `wallet`, `wallet_live` and `sdk` (clicks,
blocks and callers run out); in `sdk` the question is asked by `NobodyIsStuck`.

`secp` excepts, in `Excepted`, what the code gives up: a key that is plus or
minus the generator, and an accumulator which, doubled, equals the addend of a
bit other than the last. In the latter case the doubling branch of the loop
(`Contracts/src/Lib/secp256r1.sol`, lines 347 to 368) overwrites W before ZZZ is
made from it, beside a "todo: construct edge vector case"; at the last bit it
does no harm because only the abscissa is read, which `VerifiesByTheBook` covers.
`AccumulatorIsPrefix` says nothing of this case and would not notice if it were worse.
A key with a coordinate 0 is refused although it may be on the curve, and
`VerifiesByTheBook` leaves it out. The odds of meeting these with 256 bits are
negligible; with 5 bits all occur.

The instances of `bundle` and `bundle_entities` use one spelling per account. With
two spellings two operations of one account share a bundle (see below).

**Fairness.** `bundle_live`: weak fairness of `SendNextBundle`, since the interval
timer keeps calling it and every await is answered; the run therefore has a node
that does not fail. Weak fairness of `MineInFlight`: the node mines the
transaction it accepted. Nothing is assumed of the listener: the scan at the head
of each bundle is enough. Two situations are outside the run and do leave
operations pending for ever: an operation that is too large (see below), and two
senders that read each other's storage, each of which is passed over because of
the other. `wallet_live`: weak fairness of each page's own steps, since a remote
call answers or fails and the user answers the prompt of the authenticator;
nothing is assumed of bundler and chain. `secp` has weak fairness of `Next`, which
no property uses. No bound stops a run of the first two, so their conclusions do
not come from a cap; the polling of `wallet_live` ends by the retries the code
counts.

### Where the code and its comments differ

`receipt_logs` expects a violation of a sentence of the repository: "filter full bundle logs, and leave only logs for the given
userOpHash" (`UserOpMethodHandler.ts:288`). `BeforeExecution` sets `startIndex` and, in
the same assignment, `endIndex`; from then on `endIndex === -1` (line 310) is false and
the start never moves again. The receipt of the second operation of a bundle
carries the logs of the first.

More differences were met. Each is modelled as the code has it; no property
promises the contrary, and where one comes near it names the exception:

- "exponential backoff of opsSeen and opsIncluded values"
  (`ReputationManager.ts:65`). opsIncluded is computed from the reduced opsSeen (line
  71), and grows if there were fewer inclusions than operations seen. The consequence,
  that each cron step ends every ban by counters, is `BanEndsAtCron`.
- "allow 4 entities if unstaked" (`MempoolManager.ts:70`). A refused
  operation stays counted (line 56), so a sender with refusals behind it is refused
  again with fewer than the limit in the pool, and even with none.
- "first flush mempool from already-included UserOps, by actively scanning
  past events" (`BundleManager.ts:54`). An operation that is included and heard of
  between its validation and `addUserOp` (`ExecutionManager.ts:38-40`) enters the pool
  behind the cursor (`late` in `ScanFlushes`). It stays until `createBundle` validates it again and throws it out,
  which is why `PooledOpIsResolved` holds.
- "after submitting the bundle, remove all UserOps from the mempool"
  (`BundleManager.ts:75`). None is removed; they go when their events are seen. The next bundle takes them
  again, and `handleOps` blames an entity of theirs if the first bundle is mined meanwhile
  (`waited` in `NoSelfInflictedCrash`).
- "unstaked paymaster must not return context"
  (`parseScannerResult.ts:326`). `exit` cuts what a call returned at 4000 characters
  (`BundlerCollectorTracer.ts:145`) and a context that is cut does not decode; and the rule looks
  at the first `validatePaymasterUserOp` to end, which may be another contract's call (`Unseen` in `AcceptedWithinRules`).
- "should be banned immediately" (`ReputationManager.ts:151`): opsSeen 100 does
  not reach the shipped threshold of 110; proved as `ShippedCrashIsNoBan`.
- "replace existing, if any (and if new gas is higher)" (`MempoolManager.ts:38`):
  0 replaces 0, and another spelling of the sender or the nonce is not found.
- `_includedAddress` (`EventsManager.ts:94`): an address is
  never longer than 42 characters, so paymaster and factory are never counted.
- "process all new events since last run" (`EventsManager.ts:34`): the listener,
  which hears one kind of event, moves the cursor past the other kind.
- "only a single UserOp per sender per bundle" (`BundleManager.ts:187`): per
  spelling of a sender.
- An operation that fails its second validation is removed by sender and nonce
  (`BundleManager.ts:197`): if it was replaced meanwhile, the replacement goes.
- "send bundle anyway after this time is elapsed" (`ExecutionManager.ts:60`): an
  operation larger than the bundle's gas ends every bundle before it is full
  (`BundleManager.ts:219`), and if it is the cheapest, which the ascending sort puts first
  (`MempoolManager.ts:99`), every bundle is empty.

## 4. What is proved

`MempoolProofs` proves about `ReputationManager`, for every set of addresses, every
dump and all parameters:

- `RepTypeCorrect`: the type invariant, which is inductive;
- `ForgivingSteps`, `CronForgivesAll`: the two action properties of `reputation`, given
  a denominator of at least 2 (the code ships 10). A cron step leaves everybody off the
  black list with status OK, since it derives the inclusions from the operations seen
  (`BackedOffIsOK`), and no forgiving step worsens a standing. The hypothesis is needed:
  with denominator 1 and slack 10, 1000 seen and 1000 included are OK before a cron
  step and not after it.
- `EqualSlacksNeverThrottle`: with equal slacks, as in both shipped parameter sets,
  THROTTLED is never answered and the skip of throttled entities in `createBundle`
  is dead code. `ShippedCrashIsNoBan`: see above.

and about `MempoolManager`, for every set of addresses and operations, every stake
and limit, and queues of any length:

- `TypeCorrect`, `OneOp`, `CountsCover`, `UnstakedLimit`: the type invariant and the
  safety invariants of `mempool`, for `MempoolSpec`, hourly cron and bans included;
- `Refinement`: `MempoolSpec => Map!PoolSpec`.

`EventsProofs` proves, for every number of overlapping scans and chains of any
length:

- `EventsTypeCorrect`, `CursorStaysWithinChain`, and `PoolInvariantsWithEvents`:
  the invariants of the mempool also hold while the listener and the scans
  take operations out of it;
- `EventsRemoveIncluded`: what an event handler takes out of the pool is included;
- `IncludedAwaits`, `ScansFlush`: an operation that is pooled and included is still to be
  heard of, and the end of a scan leaves no operation that was included in the
  blocks it was asked for, except for what was added after its inclusion. Both assume `OneSpelling`, the second also
  `MaxBlocks <= LookBack + 1`; see below.

`BundleProofs` proves, for every number of operations, scans and paymasters and a
node that may fail any request:

- `BundleTypeCorrect`, `PoolInvariantsWithBundles`, `CursorStaysWithBundles`;
- `UndisturbedExecutes`: `UndisturbedBundleExecutes`, assuming
  `OneSpellingOfAccounts`.

`SdkProofs` proves, for every number of requests, timer firings, debug calls,
accounts, modes and blocks:

- `CrashFree`, `OutcomeHolds`, `PhantomHolds`: the safety
  properties of `sdk`, and `InvHolds`, the invariant they come from;
- `SdkTypeCorrect`, and `TypesHold`, the invariant it comes from;
- `NoCircle`: while a request is unanswered, some caller has the mutex that its next
  await needs. This is `NobodyIsStuck` with the guards written out in place of ENABLED.

`WalletProofs` proves, for every number of logins, tabs, passkeys, clicks and blocks:

- `PageTypeCorrect`, `FirstSigner`, `OneMint`, `ConfirmedIncluded`, `OwnPicture`,
  `OwnerRescues`: the five invariants and the action property of `wallet`.

`ScannerProofs` proves, for every set of operations, slots, hashed inputs, opcodes
and nested calls, any number of instructions and any depth of calls:

- `ScanTypes`, `EveryCallIsMatched`, `StorageMapIsComplete`, `AcceptedKeptTheRules`,
  `RefusalsHaveCause`: the five invariants of `scanner`, without a hypothesis, and
  `ScanInvariant`, the invariant they come from.

`SecpProofs` proves, for every field, curve and width of the scalars and all requests:

- `SecpTyped`, `AccumulatorFollowsBits`, `VerifiesAsBook`: the three invariants of `secp`,
  and `SecpInvariant`, the invariant they come from. The contract's own
  constants are one such choice, far beyond any instance that TLC can run.

**Assumptions.** The ASSUMEs of the modules say of what kind the constants are. Two
say more: passkeys are numbered in the order of their creation (`CredsAssumption`),
so that one passkey can be made at a time, and the retries of `waitForUserOp` are a
natural number (`RetriesAssumption`). `FieldAssumption`, `OrderAssumption` and `GroupAssumption` are
textbook facts about the two primes and the curve: the first two because the exponentiation
stands for the inverse only modulo a prime, the third because the group's
associativity is an identity of rational functions that no prover here finds. They
speak of the book's `GroupAdd` and of the exponentiation, never of the XYZZ formulas.
`WidthAssumption` says that 0 and p are the only multiples of p below 2^256. The
scanner's say that the addresses it tells apart are distinct and that no entity calls
the creator. Three theorems about the bundler's pool have
hypotheses, each because the code fails without it:

- `OneSpelling`, `OneSpellingOfAccounts`: clients write an account (and a nonce) in
  one way. With two spellings the mempool can hold one operation twice, and a removal
  by hash takes only the first match; and `createBundle`, which compares senders
  as texts, takes two operations of one account into a bundle.
- `MaxBlocks <= LookBack + 1`: a first scan looks back 1000 blocks and no further, so
  this much chain is all it can answer for.

(`ForgivingSteps` needs its denominator, see above.)

**The mempool.** The inductive invariant `Inv` is the conjunction of the four.
`UnstakedSendersLimited` speaks of the queue, but the code checks a counter: a push
keeps it because `CountCoversPool` bounds the queue by the counter. `CountCoversPool`
in turn survives a removal because the counter that is lowered is that of the very
sender whose position disappears, and a counter that is deleted was at most one;
that uses the types. `OneOpPerSenderNonce` needs that a search which fails has
looked at every entry (`SearchByKey`). The lemmas below count positions through
append, overwriting and removal (`WhereAppend`, `WhereExcept`, `WhereRemoveAt`).
For the refinement, the map is a function of the queue because keys are unique
(`MapIsDetermined`), and a sender's keys are no more than its positions. Reputations
change at any time and touch none of this: only the answer of `checkStake` does, and
a sender without stake is refused whatever its status.

**Events.** `EventsCore` adds to `Inv` that every event carries the number of its block
(`ChainOK`) and that cursor, listener and the answers in flight stay within the
chain (`CursorOK`). The handler of an event is folded over a log; `HandleAllEffect`
says what that does to a pool by induction over the log: nothing new, every
invariant of the pool kept, and with unique hashes nothing left that the log
includes. An operation that was mined never enters the pool again because its
nonce is spent, unless it was validated before its inclusion and added after it; then
it is in `late`, and nothing else is ever excepted. So what the listener has heard
stays out (`NoneLeft`), and so does what is below the cursor or below the start of a
query in flight (`CursorSkipsNothing`), which is `ScanFlushes`. The cursor may only run ahead of
what was removed, never past it, although listener and scans write it in any order.

**Bundles.** `BundleInv` is `EventsCore`, the types, and `BuildInv` of the bundle being
built: the balance kept for a paymaster plus the prefunds of the operations taken
for it is the balance quoted (`DepositsOK`); senders do not repeat, gas stays within
the limit, and every operation taken comes from the snapshot, reads no other sender
of it, and was valid unless the chain or the set of operations that lost their validity has
moved since the snapshot (`TakenOK`). A wait for the balance keeps what was learnt of its
operation. Each part speaks of the locals of `createBundle` and of facts that only
grow, so it survives whatever handlers run at an await (`BuildInvStays`); a complete
bundle over an unmoved chain then executes (`CompleteBundleExecutes`), because the
entry point charges each paymaster no more than was quoted. `BuildInv` was checked by
TLC on both instances before it was proved.

**Service and SDK.** The inductive invariant `SdkInv` relates where callers stand to what they carry.
Whoever creates or sends a bundle is at the head of the queue (`Exclusive`), so no
other bundle of this bundler comes to the node between the second validation and the
sending. What can still be mined there is another client's operation, or one that
was at the node already when a bundle was built (`waited`); an operation of the bundle that
has become invalid when the bundle is sent was overtaken by one of these (`StillValid`),
which is `NoSelfInflictedCrash`. A listener holds an event of the operation its draft was sent as (`ListenerIsTrue`), which
gives the outcome; and that event shows the account deployed, which gives the
flag. Steps are grouped by what they change: a step of the service is a move of
one caller (`MoveKeepsServiceInv`), a step of a client leaves the service alone
(`ClientMovesKeepInv`). `SdkInv` says of a sequence that it is one by
`\E S : chain \in Seq(S)`, which TLC cannot evaluate; its other conjuncts were
checked on the instance of `sdk`, of which the properties are invariants.
For `SdkTypeCorrect` and `NoCircle`, `QueueInv` says that each queue holds exactly those
whose await is under its mutex, each once, and that a request past its validation is
at the head of the first queue; so the head of the first queue goes on, or
waits for the second, whose head then goes on. `NonceInv` bounds an account's nonce by the
number of blocks, because a bundle holds at most one operation of a sender.

**Wallet.** `WalletInv` has a half about the chain alone: signers are passkeys that exist,
every operation of the chain was signed by a signer of its account, an account
without signers has had no operation that gives one, and the tokens are the mints of
the operations that succeeded, in the order of the blocks. The other half ties pages
to it: what a page works on is an operation of its own click, which nothing else
that was sent has unless it is that operation (`OneOpPerClick`), and every nonce
on the chain is spent (`NoncesOK`), so a retry cannot run twice.

**Scanner.** What the entities did (`did`) and what the collector holds are two records
of one execution, written by the same steps but never read by one another; the
theorems say that the verdict drawn from the second is the one the first deserves.
`ScanInv` relates them piece by piece. `PhaseInv`: the levels are the entry
point's calls so far, in order, so an entity has at most one level, and what was
noted under its name is what that level is about, in whatever frame it was done.
`FrameInv`: only the frame on top can have executed GAS last, and then `lastOp` says so; this
is why `lastOp`, one variable across frames, counts a GAS without its call exactly.
`LevelInv`: opcodes, code sizes and accesses of a level are those noted for its entity.
`KeccakInv`: the hashes kept are those made, by anybody. `CallInv`: the calls into the
entry point that are kept are those noted; `OnlyContextInv`: while nobody but the entry
point has asked the paymaster, its one answer in the call stack is the context noted. `ParseInv`: at every moment `parseCallStack`, run over
the calls so far, would hold on its stack the frames that are open; with no
frame open the stack is empty, which is `CallStackBalances`. `StorageInv`: what
is in storage was written in some level, and the first level that meets a contract has
read there no value written before. `VerdictInv` draws the conclusion: given the other parts,
a breach of the rules by an entity and a rule of the scanner that fails on its level
are the same (`BreachesIff`, `ScannerRules`). Where the collector
sees less or other than the rules mean, the breach says so by name: code of one or two
bytes counts as none (`Stub`), a precompile's size is not asked, and the rule on contexts is
proved of those that are kept whole (`Kept`) while nobody else has asked the paymaster
(`Unseen`). The conjuncts were checked by TLC as invariants before they were proved, on the constants of
`scanner` with two instructions and three levels, the address in `FirstReadsOld` bounded;
of `TypeInv` only `ScanTypeOK`, for the counts of opcodes are any numbers.

**Curve.** The formulas of the assembly are compared with the group law as polynomials:
with X = x ZZ, Y = y ZZZ and ZZ^3 = ZZZ^2, each intermediate of `ecZZ_Dbl` and of `AddGaps` is
congruent to a polynomial in x, y, the slope, ZZ and ZZZ, and the four results again stand
for the point on the tangent or the chord (`DoublingFormula`, `AdditionFormula`). The
special cases need that the field has no divisors of zero: that ZZ vanishes exactly
when the sum is neutral, and that no gap in abscissa and ordinate means the same
point (`GapsTell`, `SameAbscissa`). So doubling and accumulating are the group's, except the
doubling in place of an addition, whose X and ZZ are right and whose Y and ZZZ are not
(`AccumulateSame`). By the group law the point of the bits from i upwards is twice that from
i + 1 upwards plus the addend of bit i (`PrefixStep`), and the loop starts at the highest set
bit (`TopIndexIs`). The key may be written with coordinates of p or more: every step of the
formulas reduces, so it is the point of the residues that counts, and that is on the
curve when `ecAff_isOnCurve` accepts (`WordResidue`, `KeyOnCurve`). The book's scalars are the
numbers that multiplied by s give e and r modulo n; that the code's u and v are these,
and no others, is `Quotients`, from the inverse by exponentiation (`OnlyInverse`, `BookIs`).
`SecpInv` says what the accumulator stands for at each index, that the
key in the loop is on the curve, that the scalars are the quotients, and that after the last bit the abscissa is right
unless an earlier bit was excepted, from which the comparison follows. It was checked
by TLC on the instance of `secp`, with congruence computed, before it was proved.

**What the bounds do.** They appear in guards and only remove steps. Three type invariants
name them, `EventsTypeOK` and `SdkTypeOK` (`MaxBlocks`) and `ScanTypeOK` (`MaxSteps`,
`MaxDepth`), and `ScansFlush` relates one to the look back; no other proof uses them.

**Induction over data.** The induction theorems of the prover's library take an operator
as a parameter and cannot be instantiated here. `InductionFacts` derives from the
well-foundedness of < on the naturals an induction over a set (`SetInduction`), and
with it the recursive functions of the models (the fold of a log, the sum of
prefunds, the drop of banned entries) are shown to exist and to do what is said.

Only model-checked: liveness (`PooledOpIsResolved`, `ClickEnds`) and `NobodyIsStuck` as
it stands, since fairness and ENABLED are out of the prover's reach; `NoCircle` proves the
latter with its guards written out. The receipts (`UserOpMethodHandler`) have a run
that expects a violation only.

## 5. Not modelled

- Bundler: the merged storage map and `eth_sendRawTransactionConditional` (a data
  structure handed to the node), `_selectBeneficiary`, fees and signing; the
  attribution of inclusions to aggregators, whose result goes into
  `_includedAddress` only, which ignores it; the comparison of code hashes on a
  second validation, the unsafe mode and the static checks of parameters, which
  refuse a request before any state is read; reorganisations, of which the code has
  no handling; HTTP, batches and command lines.
- Tracer: gas amounts, call data and logs, which no rule reads, and the stop at
  `BeforeExecution`, which `simulateValidation` does not emit.
- SDK: encoding, gas estimates, `getUserOpReceipt`, answers lost in HTTP;
  `DeterministicDeployer` and the packing of `utils`, sequential code of one
  caller over bytes.
- Contracts: `executeBatch`, `addDeposit`, `withdrawDepositTo`, the proxy's
  upgrade, `postOp` and the owner's calls of the paymaster.
- Frontend: camera, login form and layout; `store.ts`, which nothing imports; the
  WebAuthn debugger.
- Deployment scripts, generated ABIs, vendored and test contracts.

## 6. Plan

Done: the mempool stack, the service with the SDK, the scanner with its tracer,
the wallet with its contracts, the curve, receipts. Left, in this order:

1. That `ExecutionManager`'s pool is what `BundleManager` implements (a refinement
   through `OpPool`, where a scan is a set of drops).
2. Code hashes between the two validations, as one more fact that may change
   between the awaits of `BundleManager`.
3. Batched executions and upgrades of the account.

The runs stay few: a new component brings one passing run, into which further
questions about it are merged where the instance allows, and a violation run is
spent only on a disagreement that takes several steps to show.
