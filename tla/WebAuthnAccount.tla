--------------------------- MODULE WebAuthnAccount ---------------------------
(***************************************************************************)
(* The contracts of the wallet: WebAuthnAccount, its factory, the          *)
(* Paymaster and PolaroidNFT, as the EntryPoint drives them.               *)
(*                                                                         *)
(* One account per login (salt 0).  A key stands for a pair of             *)
(* coordinates, a credential id for its bytes, and a user operation is a   *)
(* record whose hash is the record without its signature.  Whether a       *)
(* WebAuthn signature verifies is a comparison of keys here: the curve     *)
(* arithmetic is in module Secp256r1.  A block is the unit of time.        *)
(*                                                                         *)
(* A step that the EntryPoint reverts changes nothing, so the signature    *)
(* check is a guard: SIG_VALIDATION_FAILED and a revert both refuse the    *)
(* operation and undo what the account wrote while it validated.           *)
(***************************************************************************)
EXTENDS Naturals, FiniteSets, Sequences

CONSTANTS
  Logins,      \* the logins, one account each
  Creds,       \* the passkeys: credential id and key pair
  NoCred,      \* the coordinates [0, 0] of a credential that is not stored
  MaxSigners   \* the largest uint8, at which _signersCount++ reverts

ASSUME MaxSignersAssumption == MaxSigners \in Nat \ {0}
ASSUME NoCredAssumption == NoCred \notin Creds

VARIABLES
  accounts,    \* the account of each login
  nonces,      \* the EntryPoint's next nonce of each account (key 0)
  events,      \* the UserOperationEvents, oldest first
  tokens,      \* PolaroidNFT: the owner and the picture of each token
  now          \* the block that is being built

contractVars == <<accounts, nonces, events, tokens, now>>

Key == Creds \cup {NoCred}

NewAccount == [deployed |-> TRUE, signersCount |-> 0, signers |-> [c \in Creds |-> NoCred]]

NoSignature == [type |-> "none"]

\* The bytes a passkey signs: everything of the operation but the signature.
Hash(op) == [op EXCEPT !.sig = NoSignature]

\* What the paymaster signs; the gas limits are not part of it.
GasLess(op) == [sender   |-> op.sender,   nonce |-> op.nonce, initCode |-> op.initCode,
                callData |-> op.callData, fee   |-> op.fee]

-----------------------------------------------------------------------------
(* WebAuthnAccount *)

CanAddSigner(a) == a.signersCount < MaxSigners

\* The count grows although the credential may be there already.
AddSigner(a, credId, key) ==
  [a EXCEPT !.signers[credId] = key, !.signersCount = @ + 1]

\* Mutant: a voucher is good for any number of signers.
VouchedAlways(a, login, voucher) == voucher.login = login /\ voucher.signed

\* The requires of _addFirstSignerFromLoginService and of the check before it.
Vouched(a, login, voucher) ==
  /\ a.signersCount = 0
  /\ voucher.login = login
  /\ voucher.signed

AfterValidation(a, sig) ==
  IF sig.type \in {"login", "webauthnWithLogin"}
  THEN AddSigner(a, sig.voucher.credId, sig.voucher.key)
  ELSE a

Verified(a, sig, hash) ==
  /\ sig.challenge = hash
  /\ a.signers[sig.credId] # NoCred
  /\ a.signers[sig.credId] = sig.signedBy

\* No signature at all is the dry run of the estimation: never valid.
SignatureValid(a, login, sig, hash, nonce) ==
  \/ /\ sig.type = "webauthn"
     /\ Verified(a, sig, hash)
  \/ /\ sig.type = "login"
     /\ nonce = 0
     /\ Vouched(a, login, sig.voucher)
  \/ /\ sig.type = "webauthnWithLogin"
     /\ Vouched(a, login, sig.voucher)
     /\ Verified(AfterValidation(a, sig), sig, hash)

-----------------------------------------------------------------------------
(* Paymaster *)

PaymasterValid(op) ==
  /\ op.sponsor.signed = GasLess(op)
  /\ now \in op.sponsor.validAfter .. op.sponsor.validUntil

-----------------------------------------------------------------------------
(* EntryPoint *)

AccountOf(op) == IF op.initCode THEN NewAccount ELSE accounts[op.sender]

\* simulateValidation succeeds, and so does the validation loop of handleOps.
Executable(op) ==
  /\ op.initCode <=> ~accounts[op.sender].deployed
  /\ SignatureValid(AccountOf(op), op.sender, op.sig, Hash(op), nonces[op.sender])
  /\ op.nonce = nonces[op.sender]
  /\ PaymasterValid(op)

\* execute of the account: a mint, or a call back into addSigner.
Execute(op, success) ==
  LET a == AfterValidation(AccountOf(op), op.sig)
  IN  \/ /\ success
         /\ op.callData.call = "mint"
         /\ tokens' = Append(tokens, [owner |-> op.sender, image |-> op.callData.image, block |-> now])
         /\ accounts' = [accounts EXCEPT ![op.sender] = a]
      \/ /\ success
         /\ op.callData.call = "addSigner"
         /\ CanAddSigner(a)
         /\ accounts' = [accounts EXCEPT
              ![op.sender] = AddSigner(a, op.callData.credId, op.callData.credId)]
         /\ UNCHANGED tokens
      \/ /\ ~success
         /\ accounts' = [accounts EXCEPT ![op.sender] = a]
         /\ UNCHANGED tokens

\* One operation of handleOps.  Its call may fail, for want of gas for one:
\* the operation counts as included all the same.
HandleOp(op) ==
  /\ Executable(op)
  /\ \E success \in BOOLEAN :
       /\ Execute(op, success)
       /\ events' = Append(events, [op |-> op, block |-> now, success |-> success])
  /\ nonces' = [nonces EXCEPT ![op.sender] = @ + 1]
  /\ UNCHANGED now

-----------------------------------------------------------------------------
(* WebAuthnAccountFactory, called by a transaction of its own *)

CreateAccount(login) ==
  /\ accounts' = IF accounts[login].deployed
                 THEN accounts
                 ELSE [accounts EXCEPT ![login] = NewAccount]
  /\ UNCHANGED <<nonces, events, tokens, now>>

CreateAccountWithSigner(login, credId) ==
  /\ accounts' = IF accounts[login].deployed
                 THEN accounts
                 ELSE [accounts EXCEPT ![login] = AddSigner(NewAccount, credId, credId)]
  /\ UNCHANGED <<nonces, events, tokens, now>>

Mine ==
  /\ now' = now + 1
  /\ UNCHANGED <<accounts, nonces, events, tokens>>

ContractInit ==
  /\ accounts = [l \in Logins |-> [NewAccount EXCEPT !.deployed = FALSE]]
  /\ nonces = [l \in Logins |-> 0]
  /\ events = <<>>
  /\ tokens = <<>>
  /\ now = 1

-----------------------------------------------------------------------------
(* Properties *)

Vouchers(login) ==
  {i \in DOMAIN events : /\ events[i].op.sender = login
                         /\ events[i].op.sig.type \in {"login", "webauthnWithLogin"}}

Additions(login) ==
  {i \in DOMAIN events : /\ events[i].op.sender = login
                         /\ events[i].op.callData.call = "addSigner"
                         /\ events[i].success}

\* The login service, or the factory, gives an account its first signer and
\* nobody gives it a second one that way: every other signer was added by an
\* operation of the account itself, each of them counted
\* (WebAuthnAccount.sol:105-143).
FirstSignerOnce ==
  \A l \in Logins :
    LET stored == {c \in Creds : accounts[l].signers[c] # NoCred}
    IN  /\ Cardinality(Vouchers(l)) <= 1
        /\ accounts[l].signersCount = IF stored = {} THEN 0 ELSE 1 + Cardinality(Additions(l))
=============================================================================
