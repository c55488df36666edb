# TLA+ models of moca-go-sdk

This directory holds TLA+ specifications of the Moca Go SDK
(`client/`, `bsc/`, `bsctypes/`, `pkg/`, `types/`), model checked with TLC
and, for the core, proved with TLAPS.

## The system and its parts

The SDK is a client library.  It keeps almost no state of its own; what makes
it hard is that its operations are sequences of calls to two remote systems,
the Moca chain and the storage providers (SPs), and to the local file system,
any of which may fail, be interrupted or be overtaken by another client.

| Component | State it touches | Operations | Hard behaviour |
|---|---|---|---|
| Resumable download (`client/api_object.go`) | temporary file, destination file, local variables of a call | `FGetObjectResumable`, `GetObject`, `getSegmentEnd`, `ParseRange` | failures and crashes between any two steps, resumption with another part size, the object replaced meanwhile, off-by-one at part boundaries |
| Resumable upload (`client/api_object.go`) | the SP's upload record, the object's status, the reader's position | `PutObject`, `putObject`, `putObjectResumable`, `DelegatePutObject`, `getObjectResumableUploadOffset` | lost requests and answers, resumption from the SP's offset, the last part and its `complete` flag, reader errors |
| Waiting for transactions (`client/api_basic.go`) | height polled, the transaction's fate | `WaitForTx`, `WaitForBlockHeight`, `WaitForNBlocks` | RPC failures, transactions that are never included, deadlines |
| Sending EVM transactions (`client/api_*.go`, `client/session.go`) | account nonce, mempool | all `send...EvmTx` operations | nonces read and used without a lock, retries, two-step create and tag |
| Sending Cosmos transactions (`client/api_basic.go`) | account sequence, gas | `BroadcastTx`, `SimulateTx` | gas estimates, sequence mismatch |
| Routing to storage providers (`client/api_client.go`, `client/api_sp.go`) | the map of SPs | `getSPUrlByBucket`, `getSPUrlByID`, `getSPUrlByAddr`, `refreshStorageProviders` | stale entries, refresh only on one kind of miss, concurrent maps |
| Bucket and group administration (`client/api_bucket.go`, `client/api_group.go`) | bucket records | `UpdateBucketVisibility`, `BuyQuotaForBucket`, ... | read-modify-write of whole records |
| Requests to storage providers (`client/api_client.go` and every `List...`, `Get...` of an SP) | the pool of connections, destination files, readers handed to callers | `newRequest`, `doAPI`, `sendReq`, `CloseResponse`, `FGetObject`, ... | a body nobody closes keeps a connection, answers cut off in the middle, two callers for one file |
| Off-chain authentication (`client/api_off_chain_auth.go`, `New`) | nonces and keys at the SPs | `RegisterEDDSAPublicKey`, `RegisterEDDSAPublicKeyV2`, `GetNextNonce`, `DeleteUserPublicKeyV2` | nonce read, then used; failures that are only logged; SPs that do not answer; keys that expire |
| Cross-chain messages (`bsctypes/`, `bsc/`) | lists of messages and fees, the default account, the account's nonce | `Messages`, `ExecutorBatchedMessage`, `SendMessages`, `Execute`, `SendTx`, `CheckTxStatus` | fees that change between reading and execution, the nonce 0 that means "none", `log.Fatal` |
| Approvals (`client/api_bucket.go`, `client/api_object.go`) | approval and expiry height | `CreateBucket`, `MigrateBucket` | approval used after a delay |
| Queries of the chain | none | `Head...`, `Query...`, `Get...` | none: one request, one decoding |

Sending Cosmos transactions, approvals and queries of the chain are not
modelled by themselves; PROJECT.json says of every part whether it is modelled
and why not.

What makes each part correct, in one line each:

- **Resumable download**: whatever fails, the temporary file is a contiguous
  beginning of the bytes asked for; what is renamed to the destination is all
  of them; a resumption throws less than a part away; every call returns.
- **Resumable upload**: every byte reaches the SP at its own offset, without a
  hole; success is reported only when the SP took the payload; a caller that
  tries again gets it there, unless the SP already has all bytes without having
  taken them and no part is left to send.
- **Waiting**: the answer is true, the transaction is asked for once per block
  at most, and an inclusion or the deadline ends the wait.
- **Sending**: no transaction of a call is taken twice, tags follow the
  creation, a success was accepted, and a refusal has a cause.
- **Routing**: a request goes to an endpoint of the SP it is for, which for a
  bucket is one it belonged to during the call; "not on chain" is true; a
  refresh makes the map current.
- **Bucket updates**: an update changes the fields it is for and no other.
- **Requests to SPs**: every connection is given back or in a caller's hands;
  what is reported as an answer is the whole answer; a downloaded file is the
  object.
- **Off-chain authentication**: an SP accepts a client whose key was to be
  registered there, whatever happened elsewhere; `New` returns.
- **Cross-chain messages**: a batch pays what its messages owe; what is sent
  again is executed once; a batch that was sent gets its receipt.

## Modules

| Module | What it is |
|---|---|
| `ResumableDownload` | `FGetObjectResumable`, from `os.Stat` of the temporary file to `os.Rename` |
| `ResumableDownload_proofs` | theorems about `ResumableDownload` |
| `ObjectUpload` | abstract: what an upload promises, without requests, parts or retries |
| `ResumableUpload` | `PutObject`, `DelegatePutObject`, `putObject`, `putObjectResumable`, the SP's upload record; implements `ObjectUpload` |
| `ResumableUpload_proofs` | theorems about `ResumableUpload` |
| `TxWait` | `WaitForTx`, `WaitForBlockHeight` and the operations that broadcast and wait |
| `EvmSender` | the `send...EvmTx` functions, `sendTxn`, `SetDefaultAccount`, and the node's mempool |
| `Transactions_proofs` | theorems about `EvmSender` and `TxWait` |
| `SpRouting` | `New`, `getSPUrlBy...`, `getInServiceSP`, `refreshStorageProviders` |
| `SpRouting_proofs` | theorems about `SpRouting` |
| `BucketUpdate` | `UpdateBucketInfo`, `UpdateBucketVisibility`, `UpdateBucketPaymentAddr`, `BuyQuotaForBucket` |
| `BucketUpdate_proofs` | theorems about `BucketUpdate` |
| `SpQuery` | every call that sends one request to an SP with `sendReq`, and who closes the body of its answer; `FGetObject` and its file |
| `SpQuery_proofs` | theorems about `SpQuery` |
| `OffChainAuth` | `New`'s registrations, `RegisterEDDSAPublicKey` and `...V2`, `GetNextNonce`, `DeleteUserPublicKeyV2`, and the SPs' keys |
| `OffChainAuth_proofs` | theorems about `OffChainAuth` |
| `CrossChainBatch` | `Messages` and `ExecutorBatchedMessage` with their fees, `SendMessages`, `Execute`, `SendTx`, `CheckTxStatus`, and the node |
| `CrossChainBatch_proofs` | theorems about `CrossChainBatch` |
| `MC...` | small instances for TLC (`TxWait` needs none) |

The parts share no state in the client but the default account and the map of
SPs, so the modules are not composed with each other; each one composes the
client's calls with the remote system they talk to.

### How state and actions correspond to the code

A module has one action per step that others can see or that can fail: a
request, a system call, a write to shared memory.  `pc` says at which step a
call stands, `call` holds its local variables under their names in the code.
Variables whose names begin with `aux` record history that properties talk
about; no guard reads them.  `PROJECT.json`'s `map` gives the lines of every
definition.  A definition `X_Something` stands before `X` and is `X` with a
plausible mistake; no specification uses it, it serves to see that a property
would notice the mistake.

- **`ResumableDownload`**: `Start` is the head of the function up to
  `os.Stat`; `FoundTempFile` is the `else` branch that cuts the file
  (`TruncateOffset`) and sets the offset to go on at (`ResumeOffset`), which
  are two different numbers in the code; `OpenTemp`, then the loop:
  `RequestPart` is `GetObject` with the part's range, `CopyPart` is `io.Copy`,
  `CopyPartFails` the branch that closes the file, logs and goes on, and
  `CopyToClosedFile` what the following parts then meet.  `Crash` ends the
  process anywhere; files stay.  `UpdateObject` replaces the object's content.
  A file is a sequence of bytes, each known by the version of the object and
  the offset it came from.
- **`ResumableUpload`**: `HeadFound`, `HeadAgain`, `HeadGivesUp` and
  `HeadErrorIgnored` are `headSPObjectInfo`; `QueryOffset` is
  `getObjectResumableUploadOffset`; `SkipPart` winds the reader forward;
  `ReadPart`, `ReadEndsCall` and `AllPartsSent` are the ways through the loop's
  head, among them the `return err` that returns nil; `PostPart` and its
  failures are the request.  The SP stores a part at the offset it is sent
  with, and whole segments of a request that breaks off; it takes the payload
  with the part that is flagged complete when it has all of it.
- **`TxWait`**: one transaction, one call.  `tryWaitForTx`, `tryWaitForEvmTx`
  and `TransactionReceipt` are three requests; `PollHeight` is one turn of the
  loop in `WaitForBlockHeight`; `PollHeightFails` is `GetLatestBlockHeight`
  returning `0, nil`.  `NewBlock`, `ChainIndexes` and `EvmIndexes` are the
  chain and its two endpoints.  Its names differ from those of `EvmSender`
  (`at` for `pc`, `answer` for `out`, `WaitInit` for `Init` and so on), since
  `Transactions_proofs` extends both modules.
- **`EvmSender`**: `Call`, `ReadNonce`, then `SendAccepted`, `SendAnswerLost`
  or `SendRefused`; a tagged creation goes through them twice (`stage`), and
  only the setting of tags is tried again.  `Signer` says which key signs.
  What is in a message is left out.
- **`SpRouting`**: a call about a bucket asks for its family (`ReadFamily`) and
  then for that family's primary SP (`ReadPrimary`), in two requests between
  which the bucket may `Migrate` and the family `SwapPrimary`.  The map is read
  at `lookup` and `again` and written one entry at a time by `Fill`.  `MapRace`
  is Go's answer to an unsynchronised write of a map: the process ends.
- **`BucketUpdate`**: `HeadBucket`, then `Send`, then the chain's `Execute` or
  `Revert`.  `Message` builds the message with all fields; `Signed` is the
  conversion of the quota to `int64`.
- **`SpQuery`**: an operation is a record of what the code does differently:
  how it refuses wrong arguments (`refuses`), whether it asks the chain first
  (`asks`) and what becomes of the answer (`reads`: decoded as a whole, decoded
  as far as it goes, written to a file, handed to the caller as a reader, left
  open, or not read at all).  `Send` takes a connection, `Answer` and `AnswerIsError`
  are `doAPI`, the `Read...` actions the rest of the operation.
- **`OffChainAuth`**: `New` fills `todo` with the SPs and `NextSP` takes one,
  in any order, as Go ranges over a map; `GetNextNonce` and `Post` are the two
  requests of a registration, `Post` alone the one of the second version.
  `Return` is where every outcome is dropped: the loop in `New` logs it.
  `Accepted` is what `signRequest` would meet at the SP.
- **`CrossChainBatch`**: an operation says which fees it adds up and whether it
  checks them; `calculateCallBackFee` is the function of that name.
  `AppendMessage` builds, `ReadNonce`, `Sign` and `Submit` are the steps of
  `SendTx`; the default account is read in the first and in the second.
  `Fatal` ends the process of all callers.  `Commit` executes or reverts.

## What the runs check

| Run | Instance | Shows |
|---|---|---|
| `download` | sizes 0, 4, 5, part sizes 2, 3, 4, seven kinds of range, one update | `TypeOK`, `TempIsPrefix`, `FinalIsExact`, `ResumeKeepsWholeParts`, `CallReturns` |
| `download_last_byte` | size 5, part size 2 | violated: `DownloadedAsRequested` |
| `upload` | size 6, part sizes 2, 3, 4, 6, segments of 2, six readers, all options, three faults | `TypeOK`, `StoredInPlace`, `StoredWithoutHole`, `SuccessMeansReceived`, `CallReturns` |
| `upload_two` | two callers, size 6, part sizes 2 and 4, two faults | `ImplementsPromise` (refinement of `ObjectUpload`), `RetriesComplete` |
| `upload_reader` | a reader that fails | violated: `TotalIsSize` |
| `wait` | all operations, two failed requests | `WaitTypeOK`, `AnswerIsTrue`, `AsksOncePerBlock`, `WaitEnds` |
| `send` | three threads, two accounts, one operation of each kind, one fault | `TypeOK`, `EachTakenOnce`, `TagAfterCreation`, `RefusedOnlyIfDisturbed` |
| `route` | two callers, two SPs, two endpoints and a malformed one, one bucket and two families, a forced endpoint (well-formed or not) or none, two changes | `TypeOK`, `RoutedToWanted`, `BucketMissIsTrue`, `RefreshIsCurrent` |
| `bucket` | two clients, two calls, a quota with its highest bit set | `TypeOK`, `UpdatesAreExact`, `PatientUpdatesAreExact` |
| `query` | two threads, two connections, two calls of every kind each, answers that are whole, cut off or do not decode | `TypeOK`, `BodiesReturned`, `AnswerIsWhole`, `FileIsWhole`, `CallEnds` |
| `batch` | two callers, two accounts, a message of every way to pay, two tables of fees, the last steps bounded by `MaxWork` | `TypeOK`, `RevertsForCause`, `ExecutedOnce`, `FatalHasCause`, `SentHasReceipt` |
| `auth` | two clients, two SPs, two keys, six options, one call each after `New`, two faults | `TypeOK`, `AcceptedIfUndisturbed`, `NewReturns` |

### Bounds

- The download's sizes and part sizes contain every relation the code tells
  apart: an empty object, a size that is a multiple of the part, one that is
  not, a last part of one byte, an object smaller than a part.  There is no
  bound on calls and failures; the proofs hold for every size.
- The upload's three faults allow two resumptions of a call, from different
  offsets and with another part size, and a third failure.
- `upload_two`: the size is a multiple of the part size 2 and not of 4, so that
  a request may break off when the SP has all bytes: the caller with parts of 2
  then has nothing left to send, the exception in `RetriesComplete`, and the
  one with parts of 4 sends its last part again.
- One transaction is enough for `TxWait`: calls do not share anything.
- Three threads and one eviction allow the three refusals after which the
  setting of tags gives up.
- Two changes on chain are an SP's edit and another one's registration, which
  is what makes a map out of date and then refreshed, or a bucket's move and
  another primary SP of the family it left, which is what sends a call to an SP
  that never was the bucket's.
- Two calls suffice to overlap two updates; the proofs hold for any number.
- `SpQuery`: two connections and two calls of two threads are enough for all
  connections to be kept by calls that ended, which is what makes later calls
  wait; the proofs hold for any number.
- `CrossChainBatch`: two callers are what a nonce, the default account and
  `log.Fatal` are shared by; `MaxWork` bounds batches, repetitions and changes
  of fees and account together.
- `OffChainAuth`: two clients of the first version can exchange each other's
  key, or one of each version go side by side; two faults let an SP fail
  between the reading of a nonce and its use and again at the next SP.  The
  proofs hold for any number of each.

### Fairness

- A call that was made runs on (`WF` of its steps): its goroutine is scheduled
  and every request ends, with an answer or an error.
- `TxWait`: blocks are made and endpoints index them (`WF`).  When a ticker
  and the end of the context are both ready, Go's `select` takes each with the
  same chance, so the deadline is taken some time: `SF` of `DeadlineEndsCall`.
- `RetriesComplete` also assumes that the SP follows the chain and that the
  caller tries again, as a user of a resumable upload does.  Trying again does
  not help a caller whose parts the SP has all without having taken them
  (`NothingLeftToSend`): the property names that state, which the run reaches.
- `SpQuery`: threads run on, an SP that got a request answers, and of the
  threads that wait for a connection each gets one that is free.  Nothing
  makes a caller close a reader: `CallEnds` excuses that.
- `CrossChainBatch`: blocks go on taking transactions from the pool.
- `OffChainAuth`: a client that began goes on, and SPs that are up answer.  An
  SP that is silent owes nothing, since the requests have no time limit.

The models deadlock only where nothing is left to do (`EvmSender`, `SpRouting`,
`BucketUpdate`, `SpQuery`, `CrossChainBatch` and `OffChainAuth` bound the calls
or the changes; a client that New failed to
make has none), which their configurations say.

## What is proved

TLAPS checks the following for every value of the constants that meets the
modules' assumptions (sizes are naturals, parts and segments positive, a range
begins at a natural).

**`ResumableDownload_proofs`**: `TypeCorrect`, `PrefixCorrect`
(`TempIsPrefix`), `FinalCorrect` (`FinalIsExact`) and `KeepsWholeParts`
(`ResumeKeepsWholeParts`).  The invariants are not inductive by themselves:
that the next part fits the file depends on where the call stands.  `IInv`
adds `CallProgress`, which says so: at `open` the offset to go on at is where
the file ends, in the loop the file holds all parts before the current one,
and at `rename` it is complete.  Once a copy has failed, the file is closed
and nothing can be said of it but that it no longer grows (`fdOpen`).  The
arithmetic (cutting to whole parts leaves a beginning, less than a part is
lost) comes first in the module.

**`ResumableUpload_proofs`**: `TypeCorrect`, `InPlace` (`StoredInPlace`),
`WithoutHole` (`StoredWithoutHole`), `SuccessCorrect` (`SuccessMeansReceived`)
and `UploadImplementsPromise` (`ImplementsPromise`), for any payload, part
sizes, readers, number of callers and failures.  Whether a part lands where it
belongs depends on a reader that was wound forward by whole parts, and on an
SP whose offset is a number of whole segments, perhaps of parts of another
size.  `IInv` therefore says of every call (`Progress`) that its reader stands
at the offset it will post, which is a whole number of parts unless the reader
has ended, and that this offset is not beyond what the SP has; and of the SP
(`StoredPrefix`) that it holds a beginning of the payload, all of it once it
was taken.  The refinement follows from it: a step that ends a call is an
answer of `ObjectUpload`, a step that reaches the SP its `Store`, any other
one stutters.

**`BucketUpdate_proofs`**: `TypeCorrect`, `UpdatesExact` (`UpdatesAreExact`)
and `PatientUpdatesExact` (`PatientUpdatesAreExact`), for any number of clients
and calls.  The invariant adds `MessagesAreMerged` (a message that is under
way is the record that was read with the options put in, but for the quota's
sign) and `OneAtATime` (a patient client's reading is the record on chain until
its transaction is executed).  Why a transaction with a quota converted to a
negative number cannot be executed as another quota is `SignedExact`.

**`SpQuery_proofs`**: `TypeCorrect`, `BodiesAreReturned` (`BodiesReturned`),
`AnswersAreWhole` (`AnswerIsWhole`) and `FilesAreWhole` (`FileIsWhole`), for
any number of threads, connections and calls, with every operation there is.
The strengthening says of every call whether it holds a connection where it
stands, and of every file what the calls that still write it have put there.

**`OffChainAuth_proofs`**: `TypeCorrect` and `AcceptedCorrect`
(`AcceptedIfUndisturbed`), for any clients, SPs, keys, options, calls and
faults.  That a client is accepted when `New` is done depends on the nonce it
read before: `IInv` adds `NonceIsNext` (a nonce that was read is the SP's next
one, unless the client was disturbed at that SP, or another client registered
the same key meanwhile), `DoneIsAccepted` (the SPs that `New` has behind it
accept the client or disturbed it), `OnlyWithOption` and `ReadyIsDone`.

**`Transactions_proofs`**, about `EvmSender`: `TypeCorrect`, `TakenOnce` (`EachTakenOnce`),
`TagsFollow` (`TagAfterCreation`) and `RefusalsHaveCause`
(`RefusedOnlyIfDisturbed`), for any threads, accounts, calls and faults.  The
mempool shrinks when transactions are evicted, so what a call did cannot be
read off it: `auxAccepted` remembers what the node ever took.  `IInv` says that
the mempool has only such transactions (`LogIsTaken`), none twice (`NoneTwice`)
and tags behind their creation (`MainFirst`); that tags were only taken for a
creation that was (`TagsHaveMain`); that a call under way has not had its
present transaction taken, and has had its creation taken once it sets the tags
(`CallProgress`); and that a thread that is to send has the next nonce of the
key's account unless it was disturbed (`NonceIsPending`).  `OfThread` regroups
the parts about calls by thread, so that a step has to show them for the thread
that makes it and, once for all steps, for the others.  About `TxWait`:
`WaitTypeCorrect`, `AnswerTrue` (`AnswerIsTrue`) and `AskedOncePerBlock`
(`AsksOncePerBlock`), for any operations and number of failing requests.
`WaitInv` adds that an endpoint has only what a block included
(`IndexedIsIncluded`), that nothing is sent or asked before the call
(`NotSentYet`), that a call that has not ended has no answer (`NoAnswerYet`)
and, for `AsksOncePerBlock`, that the block a wait was for is made after the
last asking (`BlockIsNew`), which a failed request for the height must not
pretend.

**`SpRouting_proofs`**: `TypeCorrect`, `RoutedCorrect` (`RoutedToWanted`),
`MissesAreTrue` (`BucketMissIsTrue`) and `MapsAreCurrent` (`RefreshIsCurrent`),
for any callers, SPs, families, endpoints and changes on chain.  A refresh lists the SPs
in one step and writes the map in many, while the chain changes and other
refreshes write the same entries, so none of them is inductive.  `IInv` adds
what an endpoint was (`KnownWasOnChain`), where calls of each kind may stand
(`CallProgress`), that the primary SPs of the bucket's family, and of the one a
call was told, are noted until it reads one (`HomesAreNoted`), that every SP
missing during a call is noted (`GoneIsNoted`)
and every other one is still to be put into the map or there
(`WantedIsListed`).  For the map's age, a running refresh has what is on chain
of every SP that did not change since it listed them (`RefreshProgress`), and
the map is only out of date for SPs that changed since the last complete
refresh or during one that still runs (`MapIsCurrent`, `Dirty`).  `Fill` takes
the least id that is left; that there is one is `FirstOf`, from the
well-foundedness of the naturals.  `ForcedIsURL`, that `New` makes no client
that is forced to a malformed endpoint, is an invariant of its own.

**`CrossChainBatch_proofs`**: `TypeCorrect`, `SentAgainOnce` (`ExecutedOnce`),
`RevertsCorrect` (`RevertsForCause`) and `FatalsHaveCause` (`FatalHasCause`),
for any callers, accounts, fees, arguments and number of batches.  That a batch
that is sent again is executed once rests on its nonce: the node takes one
transaction per account and nonce and blocks take the nonces in order
(`InOrder`), the account that signs is the same unless it was switched
(`OneAccount`), and all transactions of a batch have one nonce unless one of
them had the nonce 0 (`OneNonce`), which holds because a batch that was taken
only goes on with the nonce it was taken with (`BatchProgress`).  A nonce can
only be refused when it is used: the one a caller sends again with is, and
remains so (`SentIsUsed`), the one it has just read is not, nor held by another
caller, unless they were disturbed (`HeldIsFree`).  That `Pending`, the first
nonce that is not used, exists and is free is a pigeonhole argument about the
pool (`PendingIsFree`).  For the value of a batch, every message that is not
below the minimum pays for itself (`BatchesPriced`), and sums of numbers that
are larger one by one are larger (`TotalsInOrder`, by the least counterexample,
since the library's induction theorems are not available to the prover).

### What is only model-checked

Liveness (`CallReturns`, `RetriesComplete`, `WaitEnds`, `CallEnds`,
`SentHasReceipt`, `NewReturns`) is beyond the prover: it rests on fairness and on `ENABLED`.  Every
other property of a passing run is a theorem.  The inductive invariants were
checked by TLC on the runs' instances before they were proved.

## Where code and documentation disagree

The two runs that end in a violation each show one such place; PROJECT.json
quotes the lines under `findings`.  Others were found while reading and have
no run; where the models contain the behaviour, the name of the definition
that has it is given.

- A download that failed after exactly one part gets its first part twice when
  resumed: the file is kept, the offset becomes 0, and `O_APPEND` ignores the
  `Seek` (`client/api_object.go:908-938`).  A range that is resumed before its
  first part is complete starts at byte 0 of the object, and one that begins
  beyond the first part skips bytes (`MisplacedResume`).
- An upload whose parts the SP has all, but never took, ends with nil and
  without a `complete` flag (`"allStored"` in `Succeed`), and so does every
  later one with that part size (`NothingLeftToSend`).
- `SubmitProposal` drops the hash when the wait fails although the proposal may
  be committed later (`client/api_proposal.go:59`).
- A tagged creation whose tags cannot be set returns no hash of the creation
  (`client/api_bucket.go:280`).
- The map of SPs is written without a lock (`client/api_sp.go:152`, `MapRace`),
  and of two refreshes that overlap the older may write last (`auxStale`).
- `GetLatestBlockHeight` returns 0 and no error when its request fails, though
  its comment says "Return error when the request failed"
  (`client/api_basic.go:197`, `PollHeightFails`): the waiting goes on as if the
  height were 0.
- After `SetDefaultAccount` "it will be assumed that you are operating on the
  default account", but EVM transactions are signed with the key given to
  `New` (`Signer`), and payment operations take the default account's nonce
  for it (`ReadNonce`).
- `getSPUrlByID` and `getSPUrlByAddr` never refresh the map and report an SP
  that registered after `New` as "not exists on chain" (`LookupMiss`).
- The second version of `GetChallengeInfo` and
  `GetRecommendedVirtualGroupFamilyIDBySPID` leave the body of their answer
  open (`Unclosed`, `ReadUnclosed`).
- A failed `FGetObject` leaves its empty or partial file behind, and the next
  call is refused because of it (`CopyFile`, `StatRefuses`).
- A nonce of 0 given to `bsc.SendTx` is taken as none: an account's first
  transaction cannot be sent again with its own nonce (`ReadNonce`).
- An `AckRelayFee` below the minimum is refused for policies only; other
  callbacks put it into a batch that reverts (`Refused`, `RevertsForCause`).
- `SendMessages`, `Execute`, `CheckTxStatus` and the reading of fees call
  `log.Fatal` and end the whole process for one caller's error (`Fatal`),
  though their signatures return errors.
- `RegisterEDDSAPublicKey` says "Return error when registering failed" and
  returns none when the SP refuses (`PostRefused`); `New` ignores failed
  registrations; with a fixed endpoint the second version registers nowhere,
  without a word, where the first is refused (`New`, `RefuseNew`).
- `DeleteUserPublicKeyV2` returns false and no error when the body of the
  answer cannot be read (`client/api_off_chain_auth.go:306`).
- A client forced to one endpoint "can only make download requests" according
  to its option, but uploads are routed as ever (`Upload`).
- Two updates of a bucket that overlap: the later one takes the earlier one
  back (`auxOverlapped`).  A quota of 2^63 or more is sent as a negative number
  (`Signed`).  Options in which nothing is set are not refused, and ones that
  repeat the visibility are (`NothingToUpdate`).

## What is not modelled

- **Two downloads into one temporary file**: `ResumableDownload` has one
  caller at a time.
- **Contents**: signatures, hashes, names, XML and JSON; a payload is the
  positions of its bytes.
- **Policies, flow rate limits, queries of the chain**: one message or one
  request each, without a state.
- **What an approval says**: its request is an operation of `SpQuery`, the
  transaction it goes into one of `EvmSender`; its expiry height and whether it
  is what was asked for are left out, since the chain checks both.
- **Gas**: arithmetic over the node's estimate, without a state.
- **Off-chain authentication**: an option with an empty seed or domain, which
  is refused at once, a client with both options, and the derivation of keys.
- **Generated bindings, vendored code, examples**.

## Plan

Done: download, upload, waiting, sending, routing, bucket updates, requests to
SPs, cross-chain batches and off-chain authentication, and the proofs of
their safety.  What would come next:

1. Two callers in `ResumableDownload`'s temporary file.
2. Approvals between the SP's answer, their expiry height and the block that
   takes the transaction.
3. `adjustedSimulatedGasLimit`, `simulatedGasPrice` and `CreateTxOpts` as
   operators over bounded inputs, with the integers' width.
