----------------------------- MODULE WalletFlow -----------------------------
(***************************************************************************)
(* The frontend: what a click on "Take a selfie" does, from the upload to  *)
(* the picture shown, with the paymaster service, the login service, a     *)
(* bundler and the contracts of module WebAuthnAccount.                    *)
(*                                                                         *)
(* A page is a tab.  The tabs of one browser share its local storage,      *)
(* which holds one passkey id per login and outlives a reload; the page's  *)
(* own state does not.  Each await whose answer another party can change   *)
(* is a step.  The bundler is what the page sees of it: it refuses an      *)
(* operation, keeps it in memory, bundles it or forgets it.                *)
(***************************************************************************)
EXTENDS WebAuthnAccount, FiniteSetsExt

CONSTANTS
  Pages,         \* the tabs, numbered; a browser is named by its first tab
  Fees,          \* the gas prices the provider may quote
  SponsorTime,   \* 10 minutes, in blocks
  Margin,        \* VALID_UNTIL_FUTURE_SECONDS, in blocks
  Lookback,      \* the 100 blocks waitForUserOp looks back
  MaxRetries,    \* the 50 retries of waitForUserOp
  MaxClicks,     \* bound on the clicks
  MaxScripts,    \* bound on the operations that add a signer
  MaxBlock       \* bound on the blocks

ASSUME CredsAssumption == Creds \subseteq Nat \ {0}
ASSUME RetriesAssumption == MaxRetries \in Nat

VARIABLES
  browser,       \* the browser of each page
  passkeys,      \* local storage: `${login}_passkeyId`
  registered,    \* the passkeys the authenticators hold
  page,          \* where the sendTransaction of each page is
  clicks,
  pool           \* the bundler's mempool

pageVars == <<browser, passkeys, registered, page, clicks>>
vars == <<contractVars, pageVars, pool>>

NotSponsored == [validUntil |-> 0]

IdlePage == [pc |-> "idle", status |-> "none", cred |-> NoCred, retries |-> 0, block |-> 0, shown |-> 0]

Sending == {"nonce", "code", "sponsor", "estimate", "sign", "register"}
Waiting == {"send", "poll", "reveal"}
Ended   == {"idle", "thrown", "done"}

At(p, pc) == page[p].pc = pc

\* The page moves on to pc with this operation.
Continue(p, pc, op) == page' = [page EXCEPT ![p].pc = pc, ![p].op = op]

\* What is left of a page that gave up.
Left(p, pc, status) == page' = [page EXCEPT ![p] = [IdlePage EXCEPT !.pc = pc, !.status = status]]

\* Mutant: a page whose operation failed starts over with the same picture.
FailAgain(p) == page' = [page EXCEPT ![p].pc = "nonce"]

Fail(p) == Left(p, "done", "error")

-----------------------------------------------------------------------------
(* The services *)

\* pm_sponsorUserOperation: signs for anyone, from the latest block on.
Sponsorship(op) ==
  [signed |-> GasLess(op), validAfter |-> now, validUntil |-> now + SponsorTime]

\* login.test: signs for anyone.
Voucher(login, credId) == [login |-> login, credId |-> credId, key |-> credId, signed |-> TRUE]

\* The pool's rule for a second operation with one sender and nonce.
Rivals(op) == {o \in pool : o.sender = op.sender /\ o.nonce = op.nonce}

InTime(op) == now + Margin < op.sponsor.validUntil

Accepted(op) ==
  /\ Executable(op) /\ InTime(op)
  /\ \A o \in Rivals(op) : o.fee < op.fee

\* The estimation runs the account without a signature, which adds a signer.
Estimated(op) ==
  /\ op.initCode <=> ~accounts[op.sender].deployed
  /\ op.nonce = nonces[op.sender]
  /\ CanAddSigner(AccountOf(op))

-----------------------------------------------------------------------------
(* sendTransaction, up to the signature *)

Click(p, l) ==
  /\ At(p, "idle") /\ clicks < MaxClicks
  /\ clicks' = clicks + 1
  /\ page' = [page EXCEPT ![p] =
       [pc |-> "nonce", status |-> "waiting", cred |-> NoCred, retries |-> 0, block |-> 0, shown |-> 0,
        op |-> [sender |-> l, nonce |-> 0, initCode |-> FALSE, fee |-> 0,
                callData |-> [call |-> "mint", image |-> clicks + 1],
                sponsor |-> NotSponsored, sig |-> NoSignature]]]
  /\ UNCHANGED <<browser, passkeys, registered>>

ReadNonce(p) ==
  /\ At(p, "nonce")
  /\ Continue(p, "code", [page[p].op EXCEPT !.nonce = nonces[page[p].op.sender]])
  /\ UNCHANGED <<browser, passkeys, registered, clicks>>

\* getCode, then the first buildOp with the gas price of the moment.
ReadCode(p) ==
  /\ At(p, "code")
  /\ \E fee \in Fees :
       Continue(p, "sponsor", [page[p].op EXCEPT !.initCode = ~accounts[page[p].op.sender].deployed,
                                                 !.fee = fee])
  /\ UNCHANGED <<browser, passkeys, registered, clicks>>

GetPaymasterData(p) ==
  /\ At(p, "sponsor")
  /\ Continue(p, "estimate", [page[p].op EXCEPT !.sponsor = Sponsorship(page[p].op)])
  /\ UNCHANGED <<browser, passkeys, registered, clicks>>

\* The estimation, beside a second buildOp that asks for the gas price again.
GetGasLimits(p) ==
  /\ At(p, "estimate")
  /\ IF Estimated(page[p].op)
     THEN \E fee \in Fees : Continue(p, "sign", [page[p].op EXCEPT !.fee = fee])
     ELSE Left(p, "thrown", "waiting")
  /\ UNCHANGED <<browser, passkeys, registered, clicks>>

StoredPasskey(p) == passkeys[browser[p]][page[p].op.sender]

\* A stored passkey signs; without one a new one is made.
SignUserOp(p) ==
  /\ At(p, "sign")
  /\ LET cred == StoredPasskey(p)
         op == page[p].op
     IN  IF cred = NoCred
         THEN page' = [page EXCEPT ![p].pc = "register"]
         ELSE page' = [page EXCEPT
                ![p].pc = "send", ![p].cred = cred,
                ![p].op.sig = [type |-> "webauthn", challenge |-> Hash(op),
                               credId |-> cred, signedBy |-> cred]]
  /\ UNCHANGED <<browser, passkeys, registered, clicks>>

\* Passkeys are numbered in the order they are made.
NewCreds == {c \in Creds : registered = Creds \cap 1..(c - 1)}

\* The attestation of the authenticator is signed by the new key, or it is not.
Attested(op, c) ==
  LET v == Voucher(op.sender, c)
  IN  {[type |-> "login", voucher |-> v],
       [type |-> "webauthnWithLogin", voucher |-> v,
        challenge |-> Hash(op), credId |-> c, signedBy |-> c]}

\* The new passkey's id is stored, and then the login service is asked, which
\* answers or not: the id stays.
SignUserOpWithCreate(p) ==
  /\ At(p, "register")
  /\ \E c \in NewCreds :
       /\ registered' = registered \cup {c}
       /\ passkeys' = [passkeys EXCEPT ![browser[p]][page[p].op.sender] = c]
       /\ \/ \E sig \in Attested(page[p].op, c) :
               page' = [page EXCEPT ![p].pc = "send", ![p].cred = c, ![p].op.sig = sig]
          \/ Left(p, "thrown", "waiting")
  /\ UNCHANGED <<browser, clicks>>

\* Any await before sendUserOp may throw: nobody catches it.
Throw(p) ==
  /\ page[p].pc \in Sending
  /\ Left(p, "thrown", "waiting")
  /\ UNCHANGED <<browser, passkeys, registered, clicks>>

-----------------------------------------------------------------------------
(* sendUserOp, waitForUserOp and what follows *)

\* The bundler may fail after it has taken the operation.
Send(p) ==
  /\ At(p, "send")
  /\ \/ /\ Accepted(page[p].op)
        /\ pool' = (pool \ Rivals(page[p].op)) \cup {page[p].op}
        /\ \/ page' = [page EXCEPT ![p].pc = "poll", ![p].retries = MaxRetries]
           \/ Fail(p)
     \/ Fail(p) /\ UNCHANGED pool
  /\ UNCHANGED <<browser, passkeys, registered, clicks>>

\* Mutant: the hash is left out of the filter.
EventsOfSender(op) == {i \in DOMAIN events : events[i].op.sender = op.sender}

\* queryFilter(UserOperationEvent(userOpHash), latest - 100).  The transaction
\* of the event is mined, so receipt.wait() answers and the page confirms.
EventsOf(op) == {i \in DOMAIN events : /\ Hash(events[i].op) = Hash(op)
                                       /\ now <= events[i].block + Lookback}

\* Mutants: the retry is counted by the caller and the callee, or by nobody.
NextPollTwice(p) == [page EXCEPT ![p].retries = @ - 2]

NextPollForEver(p) == page

NextPoll(p) == [page EXCEPT ![p].retries = @ - 1]

Poll(p) ==
  /\ At(p, "poll")
  /\ LET found == EventsOf(page[p].op)
     IN  \/ \E i \in found :
              page' = [page EXCEPT ![p].pc = "reveal", ![p].status = "confirmed",
                                   ![p].block = events[i].block]
         \/ found = {} /\ page[p].retries = 0 /\ Fail(p)
         \/ found = {} /\ page[p].retries > 0 /\ page' = NextPoll(p)
  /\ UNCHANGED <<browser, passkeys, registered, clicks>>

\* Mutant: the block is left out of the query.
MintsEver(p) == {k \in DOMAIN tokens : tokens[k].owner = page[p].op.sender}

\* The mints of the wallet from the operation's block on; the first one is shown.
Mints(p) == {k \in DOMAIN tokens : /\ tokens[k].owner = page[p].op.sender
                                  /\ tokens[k].block >= page[p].block}

Reveal(p) ==
  /\ At(p, "reveal")
  /\ IF Mints(p) = {}
     THEN Fail(p)
     ELSE page' = [page EXCEPT ![p].pc = "done", ![p].shown = tokens[Min(Mints(p))].image]
  /\ UNCHANGED <<browser, passkeys, registered, clicks>>

\* A reload forgets the page, not the local storage.  (In the middle of
\* sendTransaction it is an exception first.)
Reload(p) ==
  /\ page[p].pc \in Waiting \cup {"thrown", "done"} /\ clicks < MaxClicks
  /\ page' = [page EXCEPT ![p] = IdlePage]
  /\ UNCHANGED <<browser, passkeys, registered, clicks>>

-----------------------------------------------------------------------------
(* The bundler, the chain and the others who use it *)

\* The second validation of a bundle, then handleOps.
Bundle(op) ==
  /\ op \in pool /\ InTime(op)
  /\ HandleOp(op)
  /\ pool' = pool \ {op}

Discard(op) ==
  /\ op \in pool
  /\ ~(Executable(op) /\ InTime(op))
  /\ pool' = pool \ {op}

\* The mempool is in memory only.
RestartBundler ==
  /\ pool # {}
  /\ pool' = {}

\* A signer of the account adds a signer, by a script and not by the frontend.
OwnerAddsSigner(l, signer, c) ==
  LET bare == [sender |-> l, nonce |-> nonces[l], initCode |-> FALSE, fee |-> 0,
               callData |-> [call |-> "addSigner", credId |-> c],
               sponsor |-> NotSponsored, sig |-> NoSignature]
      op == [bare EXCEPT !.sponsor = Sponsorship(bare)]
  IN  HandleOp([op EXCEPT !.sig = [type |-> "webauthn", challenge |-> Hash(op),
                                   credId |-> signer, signedBy |-> signer]])

Scripted == Cardinality({i \in DOMAIN events : events[i].op.callData.call = "addSigner"})

PageStep(p) ==
  \/ (ReadNonce(p) \/ ReadCode(p) \/ GetPaymasterData(p) \/ GetGasLimits(p)) /\ UNCHANGED pool
  \/ (SignUserOp(p) \/ SignUserOpWithCreate(p)) /\ UNCHANGED pool
  \/ Send(p)
  \/ (Poll(p) \/ Reveal(p)) /\ UNCHANGED pool

UserStep(p) == (\/ \E l \in Logins : Click(p, l)
                \/ Throw(p)
                \/ Reload(p)) /\ UNCHANGED pool

ChainStep ==
  \/ \E op \in pool : Bundle(op)
  \/ /\ \/ now < MaxBlock /\ Mine
        \/ \E l \in Logins : CreateAccount(l)
        \/ \E l \in Logins, c \in registered :
             \/ CreateAccountWithSigner(l, c)
             \/ Scripted < MaxScripts /\ \E s \in registered : OwnerAddsSigner(l, s, c)
     /\ UNCHANGED pool

ServiceStep ==
  \/ \E op \in pool : Discard(op)
  \/ RestartBundler

Init ==
  /\ ContractInit
  /\ browser \in {f \in [Pages -> Pages] : \A p \in Pages : f[p] <= p /\ f[f[p]] = f[p]}
  /\ passkeys = [b \in Pages |-> [l \in Logins |-> NoCred]]
  /\ registered = {}
  /\ page = [p \in Pages |-> IdlePage]
  /\ clicks = 0
  /\ pool = {}

Next ==
  \/ \E p \in Pages : (PageStep(p) \/ UserStep(p)) /\ UNCHANGED contractVars
  \/ ChainStep /\ UNCHANGED pageVars
  \/ ServiceStep /\ UNCHANGED <<contractVars, pageVars>>

\* Every remote call answers or fails, and the user answers the prompt.
Spec == /\ Init /\ [][Next]_vars
        /\ \A p \in Pages : WF_vars(PageStep(p) /\ UNCHANGED contractVars)

-----------------------------------------------------------------------------
(* Properties *)

PageTypeOK ==
  /\ \A p \in Pages :
       /\ page[p].pc \in Sending \cup Waiting \cup Ended
       /\ page[p].status \in {"none", "waiting", "confirmed", "error"}
       /\ page[p].cred \in Key
       /\ page[p].retries \in 0..MaxRetries
  /\ passkeys \in [Pages -> [Logins -> registered \cup {NoCred}]]
  /\ \A l \in Logins : accounts[l].signersCount \in 0..MaxSigners

\* A page says "confirmed" only of its own operation: one that is on chain,
\* and whose passkey is a signer of the wallet from then on
\* (PhotoBooth.tsx:160-164, walletTools.ts:41-65).
ConfirmedIsIncluded ==
  \A p \in Pages :
    page[p].status = "confirmed" =>
      LET l == page[p].op.sender
      IN  /\ \E i \in DOMAIN events : Hash(events[i].op) = Hash(page[p].op)
          /\ accounts[l].signers[page[p].cred] # NoCred

\* The picture a page shows is its own, unless its own call failed or the
\* wallet minted another one in the same block: the page asks for the first
\* mint from its block on (PhotoBooth.tsx:166-172).
ShowsOwnPicture ==
  \A p \in Pages :
    LET inBlock == {i \in DOMAIN events : /\ events[i].block = page[p].block
                                         /\ events[i].op.sender = page[p].op.sender}
    IN  page[p].shown # 0 =>
          \/ page[p].shown = page[p].op.callData.image
          \/ Cardinality(inBlock) > 1
          \/ \E i \in inBlock : ~events[i].success

\* A click mints its picture once, though an operation whose sending failed may
\* still be in the pool, or bundled, when the user clicks again
\* (PhotoBooth.tsx:83-178).
OneMintPerClick ==
  \A j, k \in DOMAIN tokens : j # k => tokens[j].image # tokens[k].image

\* The stored passkey of a login whose wallet has signers, and not this one.
Stranded(b, l) ==
  /\ passkeys[b][l] # NoCred
  /\ accounts[l].signersCount > 0
  /\ accounts[l].signers[passkeys[b][l]] = NoCred

\* A passkey is stored before its operation is known to land
\* (walletTools.ts:169).  Once the wallet has another first signer, only an
\* addSigner of that signer makes the stored passkey of use again: no retry,
\* reload or second click does.
OnlyOwnerRescues ==
  [][\A b \in Pages, l \in Logins :
       Stranded(b, l) /\ ~Stranded(b, l)' =>
         Cardinality(Additions(l)') > Cardinality(Additions(l))]_vars

\* A click ends, in a picture, an error or an exception: waitForUserOp does
\* not wait for ever (walletTools.ts:41-65).
ClickEnds == \A p \in Pages : page[p].pc \notin Ended ~> page[p].pc \in Ended
=============================================================================
