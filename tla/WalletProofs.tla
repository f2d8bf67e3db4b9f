---------------------------- MODULE WalletProofs ----------------------------
(***************************************************************************)
(* Proofs about WebAuthnAccount and WalletFlow, for every number of        *)
(* logins, tabs, passkeys, clicks and blocks.                              *)
(*                                                                         *)
(* The inductive invariant WalletInv has two halves.  ContractInv is about *)
(* the chain alone: a signer is a passkey that exists (AccountsOK), every  *)
(* operation of the chain was signed by a signer (LedgerOK), an account    *)
(* without signers has had no operation that gives one (SignersCounted),   *)
(* and the tokens are the mints of the operations that succeeded, by block *)
(* (TokensOK).  The rest ties the pages to it: a page that is busy has an  *)
(* operation of its own, of a click that no other page and nothing sent    *)
(* has, unless it is that very operation (PagesOK, OneOpPerClick), and a   *)
(* nonce on the chain is spent (NoncesOK), so no operation runs twice.     *)
(*                                                                         *)
(* Each action of the page is shown to keep the invariant by a lemma of    *)
(* its own; the steps of the chain are grouped in HandleKeeps (entry       *)
(* point), FactoryKeeps and QuietKeeps.                                    *)
(***************************************************************************)
EXTENDS WalletFlow, InductionFacts, FiniteSetTheorems

---------------------------------------------------------------------------
(* The inductive invariant.                                                *)

IsList(s) == s \in Seq({s[i] : i \in DOMAIN s})

VoucherTypes == {"login", "webauthnWithLogin"}

\* The passkey a signature is made with.
SignerOf(sig) == IF sig.type \in VoucherTypes THEN sig.voucher.credId ELSE sig.credId

SigOK(sig) ==
  /\ sig.type \in VoucherTypes \cup {"webauthn"}
  /\ SignerOf(sig) \in registered
  /\ sig.type \in VoucherTypes => sig.voucher.key = sig.voucher.credId

OpOK(op) ==
  /\ op = [sender   |-> op.sender,   nonce |-> op.nonce, initCode |-> op.initCode,
           fee      |-> op.fee,   callData |-> op.callData,
           sponsor  |-> op.sponsor,    sig |-> op.sig]
  /\ op.sender \in Logins
  /\ \/ op.callData.call = "mint" /\ op.callData.image \in 1..clicks
     \/ op.callData.call = "addSigner" /\ op.callData.credId \in registered

Account == [deployed : BOOLEAN, signersCount : 0..MaxSigners, signers : [Creds -> Key]]

\* Only deployed accounts have signers, and signers are passkeys that exist.
AccountsOK ==
  /\ accounts \in [Logins -> Account]
  /\ \A l \in Logins : ~ accounts[l].deployed =>
        accounts[l].signersCount = 0 /\ accounts[l].signers = [c \in Creds |-> NoCred]
  /\ registered \subseteq Creds
  /\ \A l \in Logins, c \in Creds : accounts[l].signers[c] # NoCred => c \in registered

\* An operation of the chain was signed by a passkey that is a signer since.
EventOK(e) ==
  /\ OpOK(e.op) /\ SigOK(e.op.sig)
  /\ e.success \in BOOLEAN
  /\ e.block \in Nat /\ e.block <= now
  /\ accounts[e.op.sender].signers[SignerOf(e.op.sig)] # NoCred

LedgerOK ==
  /\ now \in Nat
  /\ IsList(events)
  /\ \A e \in ToSet(events) : EventOK(e)

\* FirstSignerOnce, and an account without a signer never had an operation
\* that gave it one.
SignersCounted ==
  /\ FirstSignerOnce
  /\ \A l \in Logins : accounts[l].signersCount = 0 => Vouchers(l) = {} /\ Additions(l) = {}

\* A token is the mint of an operation.
MintedBy(t, e) ==
  /\ e.success /\ e.op.callData.call = "mint"
  /\ t = [owner |-> e.op.sender, image |-> e.op.callData.image, block |-> e.block]

\* The tokens are the mints of the operations that succeeded, in the order of
\* their blocks.
TokensOK ==
  /\ IsList(tokens)
  /\ \A t \in ToSet(tokens) : \E e \in ToSet(events) : MintedBy(t, e)
  /\ \A e \in ToSet(events) :
        e.success /\ e.op.callData.call = "mint" => \E t \in ToSet(tokens) : MintedBy(t, e)
  /\ \A j, k \in DOMAIN tokens : j < k => tokens[j].block <= tokens[k].block

ContractInv == AccountsOK /\ LedgerOK /\ SignersCounted /\ TokensOK

\* The page has an operation.
Busy(p) == page[p].pc \in Sending \cup Waiting \/ page[p].status = "confirmed"

Signed(p) == page[p].pc \in Waiting \cup {"done"}

PageOK(p) ==
  \/ /\ ~ Busy(p)
     /\ page[p].pc \in Ended /\ page[p].status \in {"none", "waiting", "error"}
     /\ page[p] = [pc |-> page[p].pc, status |-> page[p].status, cred |-> NoCred,
                   retries |-> 0, block |-> 0, shown |-> 0]
  \/ /\ Busy(p)
     /\ page[p].pc \in Sending \cup Waiting \cup {"done"}
     /\ page[p].status = IF page[p].pc \in {"reveal", "done"} THEN "confirmed" ELSE "waiting"
     /\ page[p].retries \in 0..MaxRetries
     /\ page[p] = [pc |-> page[p].pc, status |-> page[p].status, cred |-> page[p].cred,
                   retries |-> page[p].retries, block |-> page[p].block,
                   shown |-> page[p].shown, op |-> page[p].op]
     /\ OpOK(page[p].op) /\ page[p].op.callData.call = "mint"
     /\ IF Signed(p) THEN SigOK(page[p].op.sig) /\ page[p].cred = SignerOf(page[p].op.sig)
                     ELSE page[p].cred = NoCred
     /\ page[p].pc # "done" => page[p].shown = 0

PagesOK ==
  /\ browser \in [Pages -> Pages]
  /\ passkeys \in [Pages -> [Logins -> registered \cup {NoCred}]]
  /\ clicks \in Nat
  /\ page \in [Pages -> {page[p] : p \in Pages}]
  /\ \A p \in Pages : PageOK(p)

\* Of the click a picture belongs to.
Picture(op) == op.callData.image

\* What the bundlers and the chain know of.
Sent == pool \cup {e.op : e \in ToSet(events)}

\* A nonce is used once.
NoncesOK ==
  /\ nonces \in [Logins -> Nat]
  /\ \A e \in ToSet(events) : e.op.nonce \in Nat /\ e.op.nonce < nonces[e.op.sender]

\* Nothing that was sent is of the same click as another.
OneSentPerClick ==
  \A o1, o2 \in Sent :
    o1.callData.call = "mint" /\ o2.callData.call = "mint" /\ Picture(o1) = Picture(o2) => o1 = o2

\* A click makes one operation: no other page, and nothing in the pool or on
\* the chain, is of the same click, but the operation itself once it is sent.
OneOpPerClick ==
  /\ OneSentPerClick
  /\ \A o \in pool : OpOK(o) /\ SigOK(o.sig) /\ o.callData.call = "mint"
  /\ \A p, q \in Pages : Busy(p) /\ Busy(q) /\ p # q => Picture(page[p].op) # Picture(page[q].op)
  /\ \A p \in Pages, o \in Sent :
        Busy(p) /\ o.callData.call = "mint" /\ Picture(o) = Picture(page[p].op) =>
          page[p].pc \in {"poll", "reveal", "done"} /\ o = page[p].op

\* A confirmed page's operation is on the chain, in the block it reads from.
Confirmed(p) ==
  \E e \in ToSet(events) : e.op = page[p].op /\ e.block = page[p].block

ConfirmedOK == \A p \in Pages : page[p].status = "confirmed" => Confirmed(p)

\* ShowsOwnPicture, of one page.
InBlock(p) ==
  {i \in DOMAIN events : /\ events[i].block = page[p].block
                         /\ events[i].op.sender = page[p].op.sender}

ShowsOwn(p) ==
  page[p].shown # 0 =>
    \/ page[p].shown = Picture(page[p].op)
    \/ Cardinality(InBlock(p)) > 1
    \/ \E i \in InBlock(p) : ~ events[i].success

WalletInv ==
  /\ ContractInv /\ NoncesOK /\ OneMintPerClick
  /\ PagesOK /\ OneOpPerClick /\ ConfirmedOK /\ \A p \in Pages : ShowsOwn(p)

---------------------------------------------------------------------------
(* Lists.                                                                  *)

(* Appending to a list leaves a list, one longer, with the old places. *)
LEMMA AppendToList ==
    ASSUME NEW s, IsList(s), NEW e
    PROVE  /\ IsList(Append(s, e))
           /\ Len(s) \in Nat
           /\ DOMAIN s = 1..Len(s)
           /\ DOMAIN Append(s, e) = 1..(Len(s) + 1)
           /\ \A i \in 1..Len(s) : Append(s, e)[i] = s[i]
           /\ Append(s, e)[Len(s) + 1] = e
           /\ ToSet(Append(s, e)) = ToSet(s) \cup {e}
<1> DEFINE S == {s[i] : i \in DOMAIN s} \cup {e}
           t == Append(s, e)
<1>0. s \in Seq({s[i] : i \in DOMAIN s})
  BY DEF IsList
<1>1. s \in Seq(S)
  BY <1>0
<1> HIDE DEF S
<1>2. e \in S
  BY DEF S
<1>3. /\ Len(s) \in Nat /\ DOMAIN s = 1..Len(s)
      /\ t \in Seq(S)
      /\ Len(t) = Len(s) + 1
      /\ \A i \in 1..Len(s) : t[i] = s[i]
      /\ t[Len(s) + 1] = e
  BY <1>1, <1>2
<1>4. DOMAIN t = 1..(Len(s) + 1)
  BY <1>3
<1>5. t \in Seq({t[i] : i \in DOMAIN t})
  BY <1>3, <1>4
<1>6. ToSet(t) = ToSet(s) \cup {e}
  BY <1>3, <1>4 DEF ToSet
<1> QED
  BY <1>3, <1>4, <1>5, <1>6 DEF IsList

(* A finite set of one element at most has no two. *)
LEMMA AtMostOne ==
    ASSUME NEW S, IsFiniteSet(S), ~ (Cardinality(S) > 1), NEW x \in S, NEW y \in S
    PROVE  x = y
<1> SUFFICES ASSUME x # y PROVE FALSE
  OBVIOUS
<1>1. IsFiniteSet({x}) /\ Cardinality({x}) = 1
  BY FS_Singleton
<1>2. IsFiniteSet({x} \cup {y}) /\ Cardinality({x} \cup {y}) = 2
  <2> DEFINE T == {x}
  <2>1. IsFiniteSet(T) /\ Cardinality(T) = 1 /\ y \notin T
    BY <1>1
  <2> HIDE DEF T
  <2>2. IsFiniteSet(T \cup {y}) /\ Cardinality(T \cup {y}) = Cardinality(T) + 1
    BY <2>1, FS_AddElement
  <2>3. Cardinality(T \cup {y}) = 2
    BY <2>1, <2>2
  <2> QED
    BY <2>2, <2>3 DEF T
<1>3. Cardinality({x} \cup {y}) <= Cardinality(S) /\ Cardinality(S) \in Nat
  BY FS_Subset, FS_CardinalityType, {x} \cup {y} \subseteq S
<1> QED
  BY <1>2, <1>3

---------------------------------------------------------------------------
(* The contracts.                                                          *)

(* addSigner stores the credential and counts it. *)
LEMMA AddSignerAdds ==
    ASSUME NEW a \in Account, a.signersCount < MaxSigners, NEW c \in Creds, NEW key \in Key
    PROVE  /\ AddSigner(a, c, key) \in Account
           /\ AddSigner(a, c, key).deployed = a.deployed
           /\ AddSigner(a, c, key).signersCount = a.signersCount + 1
           /\ \A d \in Creds : AddSigner(a, c, key).signers[d] = IF d = c THEN key ELSE a.signers[d]
<1> DEFINE b == [a EXCEPT !.signers[c] = key]
<1>0. /\ a = [deployed |-> a.deployed, signersCount |-> a.signersCount, signers |-> a.signers]
      /\ a.deployed \in BOOLEAN /\ a.signersCount \in 0..MaxSigners
      /\ a.signers \in [Creds -> Key]
  BY DEF Account
<1>1. b = [deployed |-> a.deployed, signersCount |-> a.signersCount,
           signers |-> [a.signers EXCEPT ![c] = key]]
  BY <1>0
<1>2. AddSigner(a, c, key) = [b EXCEPT !.signersCount = a.signersCount + 1]
  BY <1>0, <1>1 DEF AddSigner
<1>3. AddSigner(a, c, key) =
        [deployed |-> a.deployed, signersCount |-> a.signersCount + 1,
         signers |-> [a.signers EXCEPT ![c] = key]]
  BY <1>1, <1>2
<1>4. a.signersCount + 1 \in 0..MaxSigners
  BY <1>0, MaxSignersAssumption
<1>5. [a.signers EXCEPT ![c] = key] \in [Creds -> Key]
  BY <1>0
<1> QED
  BY <1>0, <1>3, <1>4, <1>5 DEF Account

First(op) == op.sig.type \in VoucherTypes

Added(op, success) == success /\ op.callData.call = "addSigner"

(* What handleOps does with one operation. *)
Handled(op, success) ==
  /\ success \in BOOLEAN
  /\ op.nonce = nonces[op.sender] /\ nonces' = [nonces EXCEPT ![op.sender] = @ + 1]
  /\ events' = Append(events, [op |-> op, block |-> now, success |-> success])
  /\ accounts' \in [Logins -> Account]
  /\ accounts'[op.sender].deployed
  /\ \A l \in Logins : l # op.sender => accounts'[l] = accounts[l]
  /\ IF First(op) THEN accounts[op.sender].signersCount = 0
                  ELSE accounts[op.sender].signers[SignerOf(op.sig)] # NoCred
  /\ accounts'[op.sender].signersCount =
        accounts[op.sender].signersCount
           + (IF First(op) THEN 1 ELSE 0) + (IF Added(op, success) THEN 1 ELSE 0)
  /\ \A c \in Creds : accounts'[op.sender].signers[c] =
        IF (Added(op, success) /\ c = op.callData.credId) \/ (First(op) /\ c = SignerOf(op.sig))
        THEN c ELSE accounts[op.sender].signers[c]
  /\ tokens' = IF success /\ op.callData.call = "mint"
               THEN Append(tokens, [owner |-> op.sender, image |-> op.callData.image, block |-> now])
               ELSE tokens
  /\ now' = now

(* An account that is not deployed counts as one without a signer. *)
LEMMA AccountOfIs ==
    ASSUME AccountsOK, NEW op, op.sender \in Logins, op.initCode <=> ~ accounts[op.sender].deployed
    PROVE  /\ AccountOf(op) \in Account
           /\ AccountOf(op).deployed
           /\ AccountOf(op).signersCount = accounts[op.sender].signersCount
           /\ \A c \in Creds : AccountOf(op).signers[c] = accounts[op.sender].signers[c]
<1>1. accounts[op.sender] \in Account
  BY DEF AccountsOK
<1>2. CASE op.initCode
  <2>1. accounts[op.sender].signersCount = 0
        /\ accounts[op.sender].signers = [c \in Creds |-> NoCred]
    BY <1>2 DEF AccountsOK
  <2>2. AccountOf(op) = [deployed |-> TRUE, signersCount |-> 0, signers |-> [c \in Creds |-> NoCred]]
    BY <1>2 DEF AccountOf, NewAccount
  <2>3. NoCred \in Key /\ 0 \in 0..MaxSigners
    BY MaxSignersAssumption DEF Key
  <2> QED
    BY <2>1, <2>2, <2>3 DEF Account
<1>3. CASE ~ op.initCode
  BY <1>1, <1>3 DEF AccountOf
<1> QED
  BY <1>2, <1>3

(* An operation is executed only for a signer, or for the first one. *)
LEMMA HandleOpEffect ==
    ASSUME AccountsOK, NEW op, OpOK(op), SigOK(op.sig), HandleOp(op)
    PROVE  \E success \in BOOLEAN : Handled(op, success)
<1> DEFINE l == op.sender
           a == AccountOf(op)
           b == AfterValidation(a, op.sig)
<1>0. l \in Logins /\ (op.initCode <=> ~ accounts[l].deployed)
  BY DEF OpOK, HandleOp, Executable
<1>1. /\ a \in Account /\ a.deployed
      /\ a.signersCount = accounts[l].signersCount
      /\ \A c \in Creds : a.signers[c] = accounts[l].signers[c]
  BY <1>0, AccountOfIs
<1>2. SignatureValid(a, l, op.sig, Hash(op), nonces[l])
  BY DEF HandleOp, Executable
<1>3. SignerOf(op.sig) \in Creds /\ SignerOf(op.sig) \in Key
  BY DEF AccountsOK, SigOK, Key
<1> HIDE DEF a
<1>4. First(op) => a.signersCount = 0
  BY <1>2 DEF First, VoucherTypes, SignatureValid, Vouched
<1>5. ~ First(op) => a.signers[SignerOf(op.sig)] # NoCred
  BY <1>2 DEF First, VoucherTypes, SignatureValid, Verified, SignerOf
<1>6. /\ b \in Account /\ b.deployed
      /\ b.signersCount = a.signersCount + (IF First(op) THEN 1 ELSE 0)
      /\ \A c \in Creds : b.signers[c] =
            IF First(op) /\ c = SignerOf(op.sig) THEN c ELSE a.signers[c]
  <2>1. CASE First(op)
    <3>1. b = AddSigner(a, SignerOf(op.sig), SignerOf(op.sig))
      BY <2>1 DEF AfterValidation, First, VoucherTypes, SignerOf, SigOK
    <3>2. a.signersCount < MaxSigners
      BY <1>4, <2>1, MaxSignersAssumption
    <3> HIDE DEF b
    <3> QED
      BY <1>1, <1>3, <2>1, <3>1, <3>2, AddSignerAdds
  <2>2. CASE ~ First(op)
    <3>1. b = a
      BY <2>2 DEF AfterValidation, First, VoucherTypes
    <3>2. a.signersCount \in Nat
      BY <1>1 DEF Account
    <3> QED
      BY <1>1, <2>2, <3>1, <3>2
  <2> QED
    BY <2>1, <2>2
<1>7. PICK success \in BOOLEAN :
        /\ Execute(op, success)
        /\ events' = Append(events, [op |-> op, block |-> now, success |-> success])
  BY DEF HandleOp
<1>8. now' = now /\ op.nonce = nonces[l] /\ nonces' = [nonces EXCEPT ![l] = @ + 1]
  BY DEF HandleOp, Executable
<1>9. accounts \in [Logins -> Account]
  BY DEF AccountsOK
<1>10. a.signersCount \in Nat /\ b.signersCount \in Nat
  BY <1>1, <1>6 DEF Account
<1>11. \/ success /\ op.callData.call = "mint"
       \/ success /\ op.callData.call = "addSigner"
       \/ ~ success
  BY DEF OpOK
<1>12. CASE success /\ op.callData.call = "addSigner"
  <2> DEFINE d == AddSigner(b, op.callData.credId, op.callData.credId)
  <2>1. CanAddSigner(b) /\ accounts' = [accounts EXCEPT ![l] = d] /\ tokens' = tokens
    BY <1>7, <1>12 DEF Execute, a
  <2>2. op.callData.credId \in Creds /\ op.callData.credId \in Key
    BY <1>12 DEF OpOK, AccountsOK, Key
  <2> HIDE DEF b
  <2>3. /\ d \in Account /\ d.deployed = b.deployed
        /\ d.signersCount = b.signersCount + 1
        /\ \A c \in Creds : d.signers[c] = IF c = op.callData.credId THEN op.callData.credId ELSE b.signers[c]
    <3>1. b.signersCount < MaxSigners /\ b \in Account
      BY <1>6, <2>1 DEF CanAddSigner
    <3> QED
      BY <2>2, <3>1, AddSignerAdds
  <2> HIDE DEF d
  <2>4. /\ accounts' \in [Logins -> Account] /\ accounts'[l] = d
        /\ \A m \in Logins : m # l => accounts'[m] = accounts[m]
    BY <1>0, <1>9, <2>1, <2>3
  <2>5. d.signersCount = a.signersCount + (IF First(op) THEN 1 ELSE 0) + (IF Added(op, success) THEN 1 ELSE 0)
    BY <1>6, <1>10, <1>12, <2>3 DEF Added
  <2>6. \A c \in Creds : d.signers[c] =
          IF (Added(op, success) /\ c = op.callData.credId) \/ (First(op) /\ c = SignerOf(op.sig))
          THEN c ELSE a.signers[c]
    BY <1>6, <1>12, <2>3 DEF Added
  <2>7. ~ (success /\ op.callData.call = "mint")
    BY <1>12
  <2>8. accounts'[l].deployed
    BY <1>6, <2>3, <2>4
  <2>9. \A c \in Creds : accounts'[l].signers[c] =
          IF (Added(op, success) /\ c = op.callData.credId) \/ (First(op) /\ c = SignerOf(op.sig))
          THEN c ELSE accounts[l].signers[c]
    BY <1>1, <2>4, <2>6
  <2>10. accounts'[l].signersCount =
           accounts[l].signersCount + (IF First(op) THEN 1 ELSE 0) + (IF Added(op, success) THEN 1 ELSE 0)
    BY <1>1, <2>4, <2>5
  <2>11. IF First(op) THEN accounts[l].signersCount = 0 ELSE accounts[l].signers[SignerOf(op.sig)] # NoCred
    BY <1>1, <1>3, <1>4, <1>5
  <2> QED
    BY <1>7, <1>8, <2>1, <2>4, <2>7, <2>8, <2>9, <2>10, <2>11 DEF Handled
<1>13. CASE ~ (success /\ op.callData.call = "addSigner")
  <2>1. /\ accounts' = [accounts EXCEPT ![l] = b]
        /\ tokens' = IF success /\ op.callData.call = "mint"
               THEN Append(tokens, [owner |-> l, image |-> op.callData.image, block |-> now])
               ELSE tokens
    BY <1>7, <1>11, <1>13 DEF Execute, a
  <2> HIDE DEF b
  <2>2. /\ accounts' \in [Logins -> Account] /\ accounts'[l] = b
        /\ \A m \in Logins : m # l => accounts'[m] = accounts[m]
    BY <1>0, <1>6, <1>9, <2>1
  <2>3. ~ Added(op, success)
    BY <1>13 DEF Added
  <2>4. b.signersCount = a.signersCount + (IF First(op) THEN 1 ELSE 0) + (IF Added(op, success) THEN 1 ELSE 0)
    BY <1>6, <1>10, <2>3
  <2> QED
    BY <1>0, <1>1, <1>3, <1>4, <1>5, <1>6, <1>7, <1>8, <2>1, <2>2, <2>3, <2>4 DEF Handled
<1> QED
  BY <1>12, <1>13

(* No step takes a signer away, and none of an event's facts is lost. *)
LEMMA LedgerStays ==
    ASSUME LedgerOK,
           registered \subseteq Creds, registered \subseteq registered',
           clicks \in Nat, clicks' \in Nat, clicks <= clicks',
           now' \in Nat, now <= now',
           \A l \in Logins, c \in Creds :
              accounts[l].signers[c] # NoCred => accounts'[l].signers[c] # NoCred
    PROVE  \A e \in ToSet(events) : EventOK(e)'
<1> SUFFICES ASSUME NEW e \in ToSet(events) PROVE EventOK(e)'
  OBVIOUS
<1>1. EventOK(e)
  BY DEF LedgerOK
<1>2. SignerOf(e.op.sig) \in registered /\ SignerOf(e.op.sig) \in Creds
  BY <1>1 DEF EventOK, SigOK
<1>3. OpOK(e.op)'
  BY <1>1 DEF EventOK, OpOK
<1>4. SigOK(e.op.sig)'
  BY <1>1, <1>2 DEF EventOK, SigOK
<1>5. e.op.sender \in Logins
  BY <1>1 DEF EventOK, OpOK
<1>6. e.block \in Nat /\ e.block <= now' /\ e.success \in BOOLEAN
  BY <1>1 DEF EventOK, LedgerOK
<1>7. accounts'[e.op.sender].signers[SignerOf(e.op.sig)] # NoCred
  BY <1>1, <1>2, <1>5 DEF EventOK
<1> QED
  BY <1>3, <1>4, <1>6, <1>7 DEF EventOK

(* Handling an operation keeps the accounts in order and takes no signer. *)
LEMMA HandledAccounts ==
    ASSUME AccountsOK, NEW op, OpOK(op), SigOK(op.sig), NEW success, Handled(op, success),
           UNCHANGED registered
    PROVE  /\ AccountsOK'
           /\ \A l \in Logins, c \in Creds :
                 accounts[l].signers[c] # NoCred => accounts'[l].signers[c] # NoCred
           /\ accounts'[op.sender].signers[SignerOf(op.sig)] # NoCred
<1>0. op.sender \in Logins /\ SignerOf(op.sig) \in registered /\ SignerOf(op.sig) \in Creds
  BY DEF OpOK, SigOK, AccountsOK
<1>1. \A c \in Creds : c # NoCred
  BY NoCredAssumption
<1>2. Added(op, success) => op.callData.credId \in registered
  BY DEF Added, OpOK
<1>3. \A c \in Creds : accounts'[op.sender].signers[c] =
        IF (Added(op, success) /\ c = op.callData.credId) \/ (First(op) /\ c = SignerOf(op.sig))
        THEN c ELSE accounts[op.sender].signers[c]
  BY DEF Handled
<1>4. \A l \in Logins : l # op.sender => accounts'[l] = accounts[l]
  BY DEF Handled
<1>5. \A l \in Logins, c \in Creds :
        accounts[l].signers[c] # NoCred => accounts'[l].signers[c] # NoCred
  BY <1>0, <1>1, <1>3, <1>4
<1>6. accounts'[op.sender].signers[SignerOf(op.sig)] # NoCred
  BY <1>0, <1>1, <1>3 DEF Handled
<1>7. \A l \in Logins, c \in Creds : accounts'[l].signers[c] # NoCred => c \in registered
  BY <1>0, <1>2, <1>3, <1>4 DEF AccountsOK
<1>8. \A l \in Logins : ~ accounts'[l].deployed =>
        accounts'[l].signersCount = 0 /\ accounts'[l].signers = [c \in Creds |-> NoCred]
  BY <1>4 DEF Handled, AccountsOK
<1>9. accounts' \in [Logins -> Account] /\ registered' \subseteq Creds
  BY DEF Handled, AccountsOK
<1>10. AccountsOK'
  BY <1>7, <1>8, <1>9 DEF AccountsOK, Account
<1> QED
  BY <1>5, <1>6, <1>10

(* The events with the new one are in order. *)
LEMMA HandledLedger ==
    ASSUME AccountsOK, LedgerOK, NEW op, OpOK(op), SigOK(op.sig), NEW success, Handled(op, success),
           clicks \in Nat, UNCHANGED <<registered, clicks>>
    PROVE  LedgerOK'
<1>0. now \in Nat /\ now' = now /\ success \in BOOLEAN
  BY DEF LedgerOK, Handled
<1>1. \A e \in ToSet(events) : EventOK(e)'
  BY <1>0, HandledAccounts, LedgerStays DEF AccountsOK
<1> DEFINE new == [op |-> op, block |-> now, success |-> success]
<1>2. EventOK(new)'
  <2>1. new'.op = op /\ new'.block = now' /\ new'.success = success
    BY <1>0
  <2>2. OpOK(op)' /\ SigOK(op.sig)'
    BY DEF OpOK, SigOK
  <2> QED
    BY <1>0, <2>1, <2>2, HandledAccounts DEF EventOK
<1>3. IsList(events') /\ ToSet(events') = ToSet(events) \cup {new}
  BY AppendToList DEF Handled, LedgerOK
<1>4. new' = new
  BY <1>0
<1>5. ASSUME NEW e \in ToSet(events') PROVE EventOK(e)'
  <2>1. CASE e \in ToSet(events)
    BY <1>1, <2>1
  <2>2. CASE e = new
    <3>1. EventOK(e)' <=> EventOK(new)'
      BY <1>4, <2>2 DEF EventOK, OpOK, SigOK
    <3> QED
      BY <1>2, <3>1
  <2> QED
    BY <1>3, <2>1, <2>2
<1> QED
  BY <1>0, <1>3, <1>5 DEF LedgerOK, IsList, ToSet

(* Places up to n can be counted, and place n + 1 is one more. *)
LEMMA PlacesAreFinite ==
    ASSUME NEW n \in Nat
    PROVE  IsFiniteSet(1..n)
<1>1. 1 \in Int /\ n \in Int
  OBVIOUS
<1> QED
  BY <1>1, FS_Interval

LEMMA CountOneMore ==
    ASSUME NEW n \in Nat, NEW S, S \subseteq 1..n
    PROVE  /\ IsFiniteSet(S) /\ Cardinality(S) \in Nat
           /\ Cardinality(S \cup {n + 1}) = Cardinality(S) + 1
<1>1. IsFiniteSet(1..n)
  BY PlacesAreFinite
<1>2. IsFiniteSet(S) /\ Cardinality(S) \in Nat
  BY <1>1, FS_Subset, FS_CardinalityType
<1>3. n + 1 \notin S
  OBVIOUS
<1> QED
  BY <1>2, <1>3, FS_AddElement

(* How a new event counts among those that brought an account its first     *)
(* signer, and those that added another one.                               *)
LEMMA HandledCounts ==
    ASSUME LedgerOK, NEW op, NEW success, Handled(op, success), NEW l
    PROVE  /\ IsFiniteSet(Vouchers(l)) /\ Cardinality(Vouchers(l)) \in Nat
           /\ IsFiniteSet(Additions(l)) /\ Cardinality(Additions(l)) \in Nat
           /\ Cardinality(Vouchers(l)') =
                Cardinality(Vouchers(l)) + (IF op.sender = l /\ First(op) THEN 1 ELSE 0)
           /\ Cardinality(Additions(l)') =
                Cardinality(Additions(l)) + (IF op.sender = l /\ Added(op, success) THEN 1 ELSE 0)
<1> DEFINE n == Len(events)
           new == [op |-> op, block |-> now, success |-> success]
<1>1. /\ n \in Nat /\ DOMAIN events = 1..n
      /\ DOMAIN events' = 1..(n + 1)
      /\ \A i \in 1..n : events'[i] = events[i]
      /\ events'[n + 1] = new
  BY AppendToList DEF Handled, LedgerOK
<1>2. /\ Vouchers(l) \subseteq 1..n /\ Additions(l) \subseteq 1..n
  BY <1>1 DEF Vouchers, Additions
<1> HIDE DEF n
<1>3. /\ IsFiniteSet(Vouchers(l)) /\ Cardinality(Vouchers(l)) \in Nat
      /\ Cardinality(Vouchers(l) \cup {n + 1}) = Cardinality(Vouchers(l)) + 1
      /\ IsFiniteSet(Additions(l)) /\ Cardinality(Additions(l)) \in Nat
      /\ Cardinality(Additions(l) \cup {n + 1}) = Cardinality(Additions(l)) + 1
  BY <1>1, <1>2, CountOneMore
<1>4. new.op = op /\ new.success = success
  OBVIOUS
<1> HIDE DEF new
<1>5. Vouchers(l)' = IF op.sender = l /\ First(op) THEN Vouchers(l) \cup {n + 1} ELSE Vouchers(l)
  BY <1>1, <1>4 DEF Vouchers, First, VoucherTypes
<1>6. Additions(l)' = IF op.sender = l /\ Added(op, success) THEN Additions(l) \cup {n + 1} ELSE Additions(l)
  BY <1>1, <1>4 DEF Additions, Added, Handled
<1> QED
  BY <1>3, <1>5, <1>6

(* A new event counts as the signer it brings. *)
LEMMA HandledSigners ==
    ASSUME AccountsOK, LedgerOK, SignersCounted, NEW op, OpOK(op), SigOK(op.sig),
           NEW success, Handled(op, success), UNCHANGED registered
    PROVE  SignersCounted'
<1> SUFFICES ASSUME NEW l \in Logins
             PROVE  /\ Cardinality(Vouchers(l)') <= 1
                    /\ accounts'[l].signersCount =
                         IF {c \in Creds : accounts'[l].signers[c] # NoCred} = {} THEN 0
                         ELSE 1 + Cardinality(Additions(l)')
                    /\ accounts'[l].signersCount = 0 => Vouchers(l)' = {} /\ Additions(l)' = {}
  BY DEF SignersCounted, FirstSignerOnce
<1> DEFINE stored == {c \in Creds : accounts[l].signers[c] # NoCred}
<1>1. /\ Cardinality(Vouchers(l)) <= 1
      /\ accounts[l].signersCount = IF stored = {} THEN 0 ELSE 1 + Cardinality(Additions(l))
      /\ accounts[l].signersCount = 0 => Vouchers(l) = {} /\ Additions(l) = {}
  BY DEF SignersCounted, FirstSignerOnce
<1>2. /\ IsFiniteSet(Vouchers(l)) /\ Cardinality(Vouchers(l)) \in Nat
      /\ IsFiniteSet(Additions(l)) /\ Cardinality(Additions(l)) \in Nat
      /\ Cardinality(Vouchers(l)') =
           Cardinality(Vouchers(l)) + (IF op.sender = l /\ First(op) THEN 1 ELSE 0)
      /\ Cardinality(Additions(l)') =
           Cardinality(Additions(l)) + (IF op.sender = l /\ Added(op, success) THEN 1 ELSE 0)
  BY HandledCounts
<1>3. op.sender \in Logins /\ SignerOf(op.sig) \in Creds
  BY DEF OpOK, SigOK, AccountsOK
<1>4. CASE l # op.sender
  <2>1. accounts'[l] = accounts[l]
    BY <1>4 DEF Handled
  <2>2. Vouchers(l)' = Vouchers(l) /\ Additions(l)' = Additions(l)
    <3> DEFINE n == Len(events)
    <3>1. /\ n \in Nat /\ DOMAIN events = 1..n /\ DOMAIN events' = 1..(n + 1)
          /\ \A i \in 1..n : events'[i] = events[i]
          /\ events'[n + 1].op = op
      BY AppendToList DEF Handled, LedgerOK
    <3> HIDE DEF n
    <3> QED
      BY <1>4, <3>1 DEF Vouchers, Additions
  <2> QED
    BY <1>1, <2>1, <2>2
<1>5. CASE l = op.sender
  <2>1. {c \in Creds : accounts'[l].signers[c] # NoCred} # {}
    BY <1>3, <1>5, HandledAccounts
  <2>2. accounts'[l].signersCount =
          accounts[l].signersCount
             + (IF First(op) THEN 1 ELSE 0) + (IF Added(op, success) THEN 1 ELSE 0)
    BY <1>5 DEF Handled
  <2>3. CASE First(op)
    <3>1. accounts[l].signersCount = 0 /\ Vouchers(l) = {} /\ Additions(l) = {}
      BY <1>1, <1>5, <2>3 DEF Handled
    <3>2. Cardinality(Vouchers(l)) = 0 /\ Cardinality(Additions(l)) = 0
      BY <3>1, FS_EmptySet
    <3> QED
      BY <1>2, <1>5, <2>1, <2>2, <2>3, <3>1, <3>2
  <2>4. CASE ~ First(op)
    <3>1. stored # {}
      BY <1>3, <1>5, <2>4 DEF Handled
    <3>2. accounts[l].signersCount = 1 + Cardinality(Additions(l))
      BY <1>1, <3>1
    <3> HIDE DEF stored
    <3> QED
      BY <1>1, <1>2, <1>5, <2>1, <2>2, <2>4, <3>2
  <2> QED
    BY <2>3, <2>4
<1> QED
  BY <1>4, <1>5

(* A token is minted with its operation, in the block of the moment. *)
LEMMA HandledTokens ==
    ASSUME LedgerOK, TokensOK, NEW op, OpOK(op), NEW success, Handled(op, success)
    PROVE  TokensOK'
<1> DEFINE new == [op |-> op, block |-> now, success |-> success]
           token == [owner |-> op.sender, image |-> op.callData.image, block |-> now]
           minted == success /\ op.callData.call = "mint"
<1>1. ToSet(events') = ToSet(events) \cup {new}
  BY AppendToList DEF Handled, LedgerOK
<1>2. new.op = op /\ new.block = now /\ new.success = success
  OBVIOUS
<1> HIDE DEF new
<1>3. CASE minted
  <2>1. /\ IsList(tokens') /\ Len(tokens) \in Nat /\ DOMAIN tokens = 1..Len(tokens)
        /\ DOMAIN tokens' = 1..(Len(tokens) + 1)
        /\ \A k \in 1..Len(tokens) : tokens'[k] = tokens[k]
        /\ tokens'[Len(tokens) + 1] = token
        /\ ToSet(tokens') = ToSet(tokens) \cup {token}
    BY <1>3, AppendToList DEF Handled, TokensOK
  <2>2. MintedBy(token, new)
    BY <1>2, <1>3 DEF MintedBy
  <2>3. \A t \in ToSet(tokens') : \E e \in ToSet(events') : MintedBy(t, e)
    BY <1>1, <2>1, <2>2 DEF TokensOK
  <2>4. \A e \in ToSet(events') :
          e.success /\ e.op.callData.call = "mint" => \E t \in ToSet(tokens') : MintedBy(t, e)
    BY <1>1, <2>1, <2>2 DEF TokensOK
  <2>5. \A k \in DOMAIN tokens : tokens[k].block \in Nat /\ tokens[k].block <= now
    <3> SUFFICES ASSUME NEW k \in DOMAIN tokens
                 PROVE  tokens[k].block \in Nat /\ tokens[k].block <= now
      OBVIOUS
    <3>1. PICK e \in ToSet(events) : MintedBy(tokens[k], e)
      BY DEF TokensOK, ToSet
    <3>2. EventOK(e)
      BY DEF LedgerOK
    <3> QED
      BY <3>1, <3>2 DEF MintedBy, EventOK
  <2>6. token.block = now /\ now \in Nat
    BY DEF LedgerOK
  <2> HIDE DEF token
  <2>7. ASSUME NEW j \in DOMAIN tokens', NEW k \in DOMAIN tokens', j < k
        PROVE  tokens'[j].block <= tokens'[k].block
    <3>1. j \in 1..Len(tokens)
      BY <2>1, <2>7
    <3>2. CASE k \in 1..Len(tokens)
      BY <2>1, <2>7, <3>1, <3>2 DEF TokensOK
    <3>3. CASE k = Len(tokens) + 1
      BY <2>1, <2>5, <2>6, <3>1, <3>3
    <3> QED
      BY <2>1, <3>2, <3>3
  <2> QED
    BY <2>1, <2>3, <2>4, <2>7 DEF TokensOK, IsList, ToSet
<1>4. CASE ~ minted
  <2>1. tokens' = tokens
    BY <1>4 DEF Handled
  <2>2. ~ (new.success /\ new.op.callData.call = "mint")
    BY <1>2, <1>4
  <2>3. \A t \in ToSet(tokens') : \E e \in ToSet(events') : MintedBy(t, e)
    BY <1>1, <2>1 DEF TokensOK
  <2>4. \A e \in ToSet(events') :
          e.success /\ e.op.callData.call = "mint" => \E t \in ToSet(tokens') : MintedBy(t, e)
    BY <1>1, <2>1, <2>2 DEF TokensOK
  <2> QED
    BY <2>1, <2>3, <2>4 DEF TokensOK, IsList, ToSet
<1> QED
  BY <1>3, <1>4

(* handleOps keeps the contracts in order. *)
LEMMA HandledKeepsContracts ==
    ASSUME ContractInv, NEW op, OpOK(op), SigOK(op.sig), NEW success, Handled(op, success),
           clicks \in Nat, UNCHANGED <<registered, clicks>>
    PROVE  ContractInv'
<1>1. AccountsOK'
  BY HandledAccounts DEF ContractInv
<1>2. LedgerOK'
  BY HandledLedger DEF ContractInv
<1>3. SignersCounted'
  BY HandledSigners DEF ContractInv
<1>4. TokensOK'
  BY HandledTokens DEF ContractInv
<1> QED
  BY <1>1, <1>2, <1>3, <1>4 DEF ContractInv

(* So does everything that leaves the contracts alone but for the block,    *)
(* however many clicks and passkeys it adds.                                *)
LEMMA OthersKeepContracts ==
    ASSUME ContractInv, clicks \in Nat, clicks' \in Nat, clicks <= clicks',
           registered' \subseteq Creds, registered \subseteq registered',
           now' \in Nat, now <= now', UNCHANGED <<accounts, events, tokens>>
    PROVE  ContractInv'
<1>1. AccountsOK'
  BY DEF ContractInv, AccountsOK, Account
<1>2. LedgerOK'
  <2>1. \A e \in ToSet(events) : EventOK(e)'
    BY LedgerStays DEF ContractInv
  <2> QED
    BY <2>1 DEF ContractInv, LedgerOK, IsList, ToSet
<1>3. SignersCounted'
  BY DEF ContractInv, SignersCounted, FirstSignerOnce, Vouchers, Additions
<1>4. TokensOK'
  BY DEF ContractInv, TokensOK, IsList, ToSet
<1> QED
  BY <1>1, <1>2, <1>3, <1>4 DEF ContractInv

(* What the factory makes of an account that is not deployed. *)
Fresh(a) ==
  \/ a = NewAccount
  \/ \E c \in registered : a = AddSigner(NewAccount, c, c)

(* The factory keeps the contracts in order: it creates an account once. *)
LEMMA FactoryKeepsContracts ==
    ASSUME ContractInv, NEW l \in Logins, NEW a, Fresh(a),
           accounts' = IF accounts[l].deployed THEN accounts ELSE [accounts EXCEPT ![l] = a],
           clicks \in Nat, UNCHANGED <<events, tokens, now, registered, clicks>>
    PROVE  ContractInv'
<1>1. CASE accounts[l].deployed
  <2>1. accounts' = accounts
    BY <1>1
  <2> QED
    BY <2>1, OthersKeepContracts DEF ContractInv, AccountsOK, LedgerOK
<1>2. CASE ~ accounts[l].deployed
  <2>0. /\ accounts \in [Logins -> Account]
        /\ accounts[l].signersCount = 0 /\ accounts[l].signers = [c \in Creds |-> NoCred]
    BY <1>2 DEF ContractInv, AccountsOK
  <2>1. accounts' = [accounts EXCEPT ![l] = a]
    BY <1>2
  <2>2. NewAccount \in Account /\ NewAccount.deployed
        /\ NewAccount.signersCount = 0 /\ NewAccount.signers = [c \in Creds |-> NoCred]
    BY MaxSignersAssumption DEF NewAccount, Account, Key
  <2>3. registered \subseteq Creds /\ \A c \in registered : c # NoCred /\ c \in Key
    BY NoCredAssumption DEF ContractInv, AccountsOK, Key
  <2>4. /\ a \in Account /\ a.deployed
        /\ \A c \in Creds : a.signers[c] # NoCred => c \in registered
        /\ a.signersCount = IF {c \in Creds : a.signers[c] # NoCred} = {} THEN 0 ELSE 1
    <3>1. CASE a = NewAccount
      <4>1. a.signers = [c \in Creds |-> NoCred]
        BY <2>2, <3>1
      <4>2. {c \in Creds : a.signers[c] # NoCred} = {}
        BY <4>1
      <4> QED
        BY <2>2, <3>1, <4>1, <4>2
    <3>2. CASE \E c \in registered : a = AddSigner(NewAccount, c, c)
      <4>1. PICK c \in registered : a = AddSigner(NewAccount, c, c)
        BY <3>2
      <4>2. NewAccount.signersCount < MaxSigners
        BY <2>2, MaxSignersAssumption
      <4>3. /\ a \in Account /\ a.deployed = NewAccount.deployed
            /\ a.signersCount = NewAccount.signersCount + 1
            /\ \A d \in Creds : a.signers[d] = IF d = c THEN c ELSE NewAccount.signers[d]
        <5>1. NewAccount \in Account /\ c \in Creds /\ c \in Key
          BY <2>2, <2>3
        <5> QED
          BY <4>1, <4>2, <5>1, AddSignerAdds
      <4>4. c \in {d \in Creds : a.signers[d] # NoCred}
        BY <2>3, <4>3
      <4> QED
        BY <2>2, <2>3, <4>3, <4>4
    <3> QED
      BY <3>1, <3>2 DEF Fresh
  <2>5. accounts' \in [Logins -> Account] /\ accounts'[l] = a
        /\ \A m \in Logins : m # l => accounts'[m] = accounts[m]
    BY <2>0, <2>1, <2>4
  <2>6. AccountsOK'
    BY <2>3, <2>4, <2>5 DEF ContractInv, AccountsOK, Account
  <2>7. \A m \in Logins, c \in Creds :
          accounts[m].signers[c] # NoCred => accounts'[m].signers[c] # NoCred
    BY <2>0, <2>5
  <2>8. LedgerOK'
    <3>1. LedgerOK /\ now' = now /\ now \in Nat
      BY DEF ContractInv, LedgerOK
    <3>2. \A e \in ToSet(events) : EventOK(e)'
      BY <2>3, <2>7, <3>1, LedgerStays
    <3> QED
      BY <3>1, <3>2 DEF LedgerOK, IsList, ToSet
  <2>9. Vouchers(l) = {} /\ Additions(l) = {} /\ Cardinality(Additions(l)) = 0
    BY <2>0, FS_EmptySet DEF ContractInv, SignersCounted
  <2>10. \A m \in Logins : Vouchers(m)' = Vouchers(m) /\ Additions(m)' = Additions(m)
    BY DEF Vouchers, Additions
  <2>11. SignersCounted'
    <3> SUFFICES ASSUME NEW m \in Logins
                 PROVE  /\ Cardinality(Vouchers(m)') <= 1
                        /\ accounts'[m].signersCount =
                             IF {c \in Creds : accounts'[m].signers[c] # NoCred} = {} THEN 0
                             ELSE 1 + Cardinality(Additions(m)')
                        /\ accounts'[m].signersCount = 0 => Vouchers(m)' = {} /\ Additions(m)' = {}
      BY DEF SignersCounted, FirstSignerOnce
    <3>1. CASE m = l
      BY <2>4, <2>5, <2>9, <2>10, <3>1, FS_EmptySet
    <3>2. CASE m # l
      BY <2>5, <2>10, <3>2 DEF ContractInv, SignersCounted, FirstSignerOnce
    <3> QED
      BY <3>1, <3>2
  <2>12. TokensOK'
    BY DEF ContractInv, TokensOK, IsList, ToSet
  <2> QED
    BY <2>6, <2>8, <2>11, <2>12 DEF ContractInv
<1> QED
  BY <1>1, <1>2

---------------------------------------------------------------------------
(* The pages.                                                              *)

(* A page keeps its shape while passkeys are made and others click. *)
LEMMA PageStaysOK ==
    ASSUME NEW p \in Pages, PageOK(p), page'[p] = page[p],
           registered \subseteq registered',
           clicks \in Nat, clicks' \in Nat, clicks <= clicks'
    PROVE  PageOK(p)'
<1>1. Busy(p)' = Busy(p) /\ Signed(p)' = Signed(p)
  BY DEF Busy, Signed
<1>2. CASE ~ Busy(p)
  BY <1>1, <1>2 DEF PageOK
<1>3. CASE Busy(p)
  <2>1. OpOK(page[p].op)'
    BY <1>3 DEF PageOK, OpOK
  <2>2. Signed(p) => SigOK(page[p].op.sig)'
    BY <1>3 DEF PageOK, SigOK
  <2> QED
    BY <1>1, <1>3, <2>1, <2>2 DEF PageOK
<1> QED
  BY <1>2, <1>3

(* What a step of the chain or the bundler may do to the pages: nothing. *)
LEMMA ChainKeepsPages ==
    ASSUME PagesOK, OneOpPerClick, ConfirmedOK, LedgerOK, \A p \in Pages : ShowsOwn(p),
           UNCHANGED pageVars, pool' \subseteq pool,
           \/ events' = events
           \/ \E e : /\ events' = Append(events, e)
                     /\ e.op \in pool \/ e.op.callData.call # "mint"
    PROVE  PagesOK' /\ OneOpPerClick' /\ ConfirmedOK' /\ \A p \in Pages : ShowsOwn(p)'
<1>0. UNCHANGED <<browser, passkeys, registered, page, clicks>>
  BY DEF pageVars
<1>1. /\ ToSet(events) \subseteq ToSet(events')
      /\ \A o \in Sent' : o \in Sent \/ o.callData.call # "mint"
      /\ DOMAIN events \subseteq DOMAIN events' /\ IsFiniteSet(DOMAIN events')
      /\ \A i \in DOMAIN events : events'[i] = events[i]
  <2>0. IsList(events)
    BY DEF LedgerOK
  <2>1. CASE events' = events
    <3>1. Len(events) \in Nat /\ DOMAIN events = 1..Len(events)
      BY <2>0, AppendToList
    <3> QED
      BY <2>1, <3>1, PlacesAreFinite DEF Sent, ToSet
  <2>2. CASE ~ (events' = events)
    <3>1. PICK e : /\ events' = Append(events, e)
                   /\ e.op \in pool \/ e.op.callData.call # "mint"
      BY <2>2
    <3>2. /\ ToSet(events') = ToSet(events) \cup {e}
          /\ Len(events) \in Nat /\ DOMAIN events = 1..Len(events)
          /\ DOMAIN events' = 1..(Len(events) + 1)
          /\ \A i \in 1..Len(events) : events'[i] = events[i]
      BY <2>0, <3>1, AppendToList
    <3>3. IsFiniteSet(DOMAIN events')
      <4>1. Len(events) + 1 \in Nat
        BY <3>2
      <4>2. IsFiniteSet(1..(Len(events) + 1))
        BY <4>1, PlacesAreFinite
      <4> QED
        BY <3>2, <4>2
    <3>4. Sent' = pool' \cup {x.op : x \in ToSet(events')}
      BY DEF Sent, ToSet
    <3>5. \A o \in Sent' : o \in Sent \/ o.callData.call # "mint"
      BY <3>1, <3>2, <3>4 DEF Sent
    <3> QED
      BY <3>2, <3>3, <3>5
  <2> QED
    BY <2>1, <2>2
<1>2. PagesOK'
  <2>1. \A p \in Pages : PageOK(p)'
    BY <1>0, PageStaysOK DEF PagesOK
  <2> QED
    BY <1>0, <2>1 DEF PagesOK
<1>3. OneOpPerClick'
  <2>1. \A o \in pool' : OpOK(o)' /\ SigOK(o.sig)' /\ o.callData.call = "mint"
    BY <1>0 DEF OneOpPerClick, OpOK, SigOK
  <2>2. \A p \in Pages : Busy(p)' = Busy(p) /\ page'[p] = page[p]
    BY <1>0 DEF Busy
  <2>3. \A p, q \in Pages :
          Busy(p)' /\ Busy(q)' /\ p # q => Picture(page'[p].op) # Picture(page'[q].op)
    BY <2>2 DEF OneOpPerClick
  <2>4. \A p \in Pages, o \in Sent' :
          Busy(p)' /\ o.callData.call = "mint" /\ Picture(o) = Picture(page'[p].op) =>
            page'[p].pc \in {"poll", "reveal", "done"} /\ o = page'[p].op
    BY <1>1, <2>2 DEF OneOpPerClick
  <2>5. OneSentPerClick'
    BY <1>1 DEF OneOpPerClick, OneSentPerClick, Picture
  <2> QED
    BY <2>1, <2>3, <2>4, <2>5 DEF OneOpPerClick, Picture
<1>4. ConfirmedOK'
  BY <1>0, <1>1 DEF ConfirmedOK, Confirmed, ToSet
<1>5. ASSUME NEW p \in Pages PROVE ShowsOwn(p)'
  <2>1. InBlock(p) \subseteq InBlock(p)'
    BY <1>0, <1>1 DEF InBlock
  <2>2. IsFiniteSet(InBlock(p)')
    BY <1>1, FS_Subset DEF InBlock
  <2>3. /\ Cardinality(InBlock(p)) <= Cardinality(InBlock(p)')
        /\ Cardinality(InBlock(p)) \in Nat /\ Cardinality(InBlock(p)') \in Nat
    BY <2>1, <2>2, FS_Subset, FS_CardinalityType
  <2>4. \A i \in InBlock(p) : events'[i] = events[i]
    BY <1>1 DEF InBlock
  <2>5. ShowsOwn(p) /\ page'[p] = page[p]
    BY <1>0
  <2> QED
    BY <2>1, <2>3, <2>4, <2>5 DEF ShowsOwn, Picture
<1> QED
  BY <1>2, <1>3, <1>4, <1>5

(* What a page may do: it leaves what it did, goes on with its operation,   *)
(* starts one for a new click, or sends it.                                 *)
LEMMA PageMoves ==
    ASSUME WalletInv, NEW p \in Pages, page' = [page EXCEPT ![p] = page'[p]],
           UNCHANGED <<contractVars, browser>>,
           registered' \subseteq Creds, registered \subseteq registered',
           passkeys' \in [Pages -> [Logins -> registered' \cup {NoCred}]],
           clicks' \in Nat, clicks <= clicks',
           \/ pool' \subseteq pool
           \/ At(p, "send") /\ pool' \subseteq pool \cup {page[p].op},
           PageOK(p)', ShowsOwn(p)',
           Busy(p)' =>
             /\ \/ Busy(p) /\ Picture(page'[p].op) = Picture(page[p].op)
                \/ Picture(page'[p].op) \notin 1..clicks
             /\ \A o \in Sent' :
                  o.callData.call = "mint" /\ Picture(o) = Picture(page'[p].op) =>
                    page'[p].pc \in {"poll", "reveal", "done"} /\ o = page'[p].op,
           page'[p].status = "confirmed" => Confirmed(p)'
    PROVE  WalletInv'
<1>0. UNCHANGED <<accounts, nonces, events, tokens, now>>
  BY DEF contractVars
<1>1. clicks \in Nat /\ page \in [Pages -> {page[q] : q \in Pages}] /\ \A q \in Pages : PageOK(q)
  BY DEF WalletInv, PagesOK
<1>2. \A q \in Pages : q # p => page'[q] = page[q] /\ Busy(q)' = Busy(q)
  BY <1>1 DEF Busy
<1>3. page' \in [Pages -> {page'[q] : q \in Pages}]
  BY <1>1
<1>4. \A q \in Pages : PageOK(q)'
  BY <1>1, <1>2, PageStaysOK
<1>5. ContractInv'
  <2>1. now \in Nat
    BY DEF WalletInv, ContractInv, LedgerOK
  <2> QED
    BY <1>0, <1>1, <2>1, OthersKeepContracts DEF WalletInv
<1>6. PagesOK'
  BY <1>1, <1>3, <1>4 DEF WalletInv, PagesOK
<1>7. \A q \in Pages : Busy(q) => Picture(page[q].op) \in 1..clicks
  BY <1>1 DEF PageOK, OpOK, Picture
<1>8. OneOpPerClick
  BY DEF WalletInv
<1>9. Sent' \subseteq Sent \/ (At(p, "send") /\ Sent' \subseteq Sent \cup {page[p].op})
  BY <1>0 DEF Sent, ToSet
<1>10. At(p, "send") => OpOK(page[p].op) /\ SigOK(page[p].op.sig) /\ page[p].op.callData.call = "mint" /\ Busy(p)
  BY <1>1 DEF At, PageOK, Busy, Waiting, Signed
<1>11. \A o \in pool' : OpOK(o)' /\ SigOK(o.sig)' /\ o.callData.call = "mint"
  <2> SUFFICES ASSUME NEW o \in pool' PROVE OpOK(o)' /\ SigOK(o.sig)' /\ o.callData.call = "mint"
    OBVIOUS
  <2>1. OpOK(o) /\ SigOK(o.sig) /\ o.callData.call = "mint"
    BY <1>8, <1>10 DEF OneOpPerClick
  <2> QED
    BY <1>1, <2>1 DEF OpOK, SigOK
<1>12. \A q, r \in Pages :
         Busy(q)' /\ Busy(r)' /\ q # r => Picture(page'[q].op) # Picture(page'[r].op)
  BY <1>2, <1>7, <1>8 DEF OneOpPerClick
<1>13. ASSUME NEW q \in Pages, NEW o \in Sent',
              Busy(q)', o.callData.call = "mint", Picture(o) = Picture(page'[q].op)
       PROVE  page'[q].pc \in {"poll", "reveal", "done"} /\ o = page'[q].op
  <2>1. CASE q = p
    BY <1>13, <2>1
  <2>2. CASE q # p
    <3>1. page'[q] = page[q] /\ Busy(q)
      BY <1>2, <1>13, <2>2
    <3>2. CASE o \in Sent
      BY <1>8, <1>13, <3>1, <3>2 DEF OneOpPerClick
    <3>3. CASE At(p, "send") /\ o = page[p].op
      BY <1>8, <1>10, <1>13, <2>2, <3>1, <3>3 DEF OneOpPerClick
    <3> QED
      BY <1>9, <3>2, <3>3
  <2> QED
    BY <2>1, <2>2
<1>a. OneSentPerClick'
  <2>1. At(p, "send") =>
          \A o \in Sent : ~ (o.callData.call = "mint" /\ Picture(o) = Picture(page[p].op))
    BY <1>8, <1>10 DEF OneOpPerClick, At
  <2> QED
    BY <1>8, <1>9, <2>1 DEF OneOpPerClick, OneSentPerClick, Picture
<1>14. OneOpPerClick'
  BY <1>11, <1>12, <1>13, <1>a DEF OneOpPerClick, Picture
<1>15. ConfirmedOK'
  BY <1>0, <1>2 DEF WalletInv, ConfirmedOK, Confirmed, ToSet
<1>16. ASSUME NEW q \in Pages PROVE ShowsOwn(q)'
  <2>1. CASE q = p
    BY <2>1
  <2>2. CASE q # p
    <3>1. page'[q] = page[q] /\ ShowsOwn(q)
      BY <1>2, <2>2 DEF WalletInv
    <3>2. InBlock(q)' = InBlock(q)
      BY <1>0, <3>1 DEF InBlock
    <3> QED
      BY <1>0, <3>1, <3>2 DEF ShowsOwn, Picture
  <2> QED
    BY <2>1, <2>2
<1>17. NoncesOK' /\ OneMintPerClick'
  BY <1>0 DEF WalletInv, NoncesOK, OneMintPerClick, ToSet
<1> QED
  BY <1>5, <1>6, <1>14, <1>15, <1>16, <1>17 DEF WalletInv

(* A page that has an operation is a record of all its fields. *)
LEMMA BusyPage ==
    ASSUME PagesOK, NEW p \in Pages, Busy(p)
    PROVE  /\ page \in [Pages -> {page[q] : q \in Pages}]
           /\ page[p] = [pc |-> page[p].pc, status |-> page[p].status, cred |-> page[p].cred,
                         retries |-> page[p].retries, block |-> page[p].block,
                         shown |-> page[p].shown, op |-> page[p].op]
           /\ page[p].status = IF page[p].pc \in {"reveal", "done"} THEN "confirmed" ELSE "waiting"
           /\ page[p].retries \in 0..MaxRetries
           /\ OpOK(page[p].op) /\ page[p].op.callData.call = "mint"
           /\ page[p].pc # "done" => page[p].shown = 0
           /\ page[p].pc \in Sending => page[p].cred = NoCred
           /\ page[p].pc \in Waiting =>
                SigOK(page[p].op.sig) /\ page[p].cred = SignerOf(page[p].op.sig)
  BY DEF PagesOK, PageOK, Signed, Waiting, Sending

(* Whatever the page gives up at, and whatever becomes of what it sent, it  *)
(* is a page without an operation.                                          *)
LEMMA LeftMoves ==
    ASSUME WalletInv, NEW p \in Pages, NEW pc \in Ended, NEW st \in {"none", "waiting", "error"},
           Left(p, pc, st), UNCHANGED <<contractVars, browser, clicks>>,
           registered' \subseteq Creds, registered \subseteq registered',
           passkeys' \in [Pages -> [Logins -> registered' \cup {NoCred}]],
           \/ pool' \subseteq pool
           \/ At(p, "send") /\ pool' \subseteq pool \cup {page[p].op}
    PROVE  WalletInv'
<1>0. page \in [Pages -> {page[q] : q \in Pages}] /\ clicks \in Nat
  BY DEF WalletInv, PagesOK
<1> DEFINE a == [IdlePage EXCEPT !.pc = pc]
           r == [pc |-> pc, status |-> st, cred |-> NoCred, retries |-> 0, block |-> 0, shown |-> 0]
<1>1. a = [pc |-> pc, status |-> "none", cred |-> NoCred, retries |-> 0, block |-> 0, shown |-> 0]
  BY DEF IdlePage
<1>2. [IdlePage EXCEPT !.pc = pc, !.status = st] = [a EXCEPT !.status = st]
  BY DEF IdlePage
<1> HIDE DEF a
<1>3. [IdlePage EXCEPT !.pc = pc, !.status = st] = r
  BY <1>1, <1>2
<1>4. page' = [page EXCEPT ![p] = r]
  BY <1>3 DEF Left
<1>5. page'[p] = r /\ page' = [page EXCEPT ![p] = page'[p]]
  BY <1>0, <1>4
<1>6. /\ r.pc = pc /\ r.status = st /\ r.shown = 0
      /\ r = [pc |-> r.pc, status |-> r.status, cred |-> NoCred, retries |-> 0, block |-> 0, shown |-> 0]
  OBVIOUS
<1> HIDE DEF r
<1>7. ~ Busy(p)'
  BY <1>5, <1>6 DEF Busy, Ended, Sending, Waiting
<1>8. PageOK(p)'
  BY <1>5, <1>6, <1>7 DEF PageOK
<1>9. ShowsOwn(p)'
  BY <1>5, <1>6 DEF ShowsOwn
<1>10. page'[p].status # "confirmed"
  BY <1>5, <1>6
<1>11. UNCHANGED <<contractVars, browser>> /\ clicks' \in Nat /\ clicks <= clicks'
  BY <1>0
<1> QED
  BY <1>5, <1>7, <1>8, <1>9, <1>10, <1>11, PageMoves

(* Nothing is known yet of an operation that a page is still making. *)
LEMMA NotSentYet ==
    ASSUME WalletInv, NEW p \in Pages, page[p].pc \in Sending \cup {"send"}
    PROVE  \A o \in Sent : ~ (o.callData.call = "mint" /\ Picture(o) = Picture(page[p].op))
<1>1. Busy(p) /\ page[p].pc \notin {"poll", "reveal", "done"}
  BY DEF Busy, Sending, Waiting
<1> QED
  BY <1>1 DEF WalletInv, OneOpPerClick

(* The page goes on with the operation of its click. *)
LEMMA ContinueMoves ==
    ASSUME WalletInv, NEW p \in Pages, page[p].pc \in Sending, NEW pc \in Sending,
           NEW op, OpOK(op), op.callData = page[p].op.callData, Continue(p, pc, op),
           UNCHANGED <<contractVars, browser, passkeys, registered, clicks, pool>>
    PROVE  WalletInv'
<1>0. Busy(p) /\ PagesOK
  BY DEF Busy, WalletInv
<1> DEFINE r == [pc |-> pc, status |-> page[p].status, cred |-> page[p].cred,
                 retries |-> page[p].retries, block |-> page[p].block,
                 shown |-> page[p].shown, op |-> op]
           a == [page EXCEPT ![p].pc = pc]
           old == page[p]
<1>1. a[p] = [pc |-> pc, status |-> old.status, cred |-> old.cred,
              retries |-> old.retries, block |-> old.block,
              shown |-> old.shown, op |-> old.op]
  <2>1. a[p] = [old EXCEPT !.pc = pc]
    BY <1>0, BusyPage
  <2>2. old = [pc |-> old.pc, status |-> old.status, cred |-> old.cred,
               retries |-> old.retries, block |-> old.block,
               shown |-> old.shown, op |-> old.op]
    BY <1>0, BusyPage
  <2> HIDE DEF a, old
  <2> QED
    BY <2>1, <2>2
<1>2. page' = [a EXCEPT ![p].op = op] /\ DOMAIN a = Pages /\ DOMAIN page = Pages
  BY <1>0, BusyPage DEF Continue
<1>3. page'[p] = r
  <2>1. page'[p] = [a[p] EXCEPT !.op = op]
    BY <1>2
  <2> HIDE DEF a
  <2> QED
    BY <1>1, <2>1
<1>4. page' = [page EXCEPT ![p] = page'[p]]
  BY <1>2
<1>5. /\ r.pc = pc /\ r.status = page[p].status /\ r.cred = page[p].cred
      /\ r.retries = page[p].retries /\ r.shown = page[p].shown /\ r.op = op
      /\ r = [pc |-> r.pc, status |-> r.status, cred |-> r.cred, retries |-> r.retries,
              block |-> r.block, shown |-> r.shown, op |-> r.op]
  OBVIOUS
<1> HIDE DEF r
<1>6. r.status = "waiting" /\ r.shown = 0 /\ r.cred = NoCred /\ r.retries \in 0..MaxRetries
  BY <1>0, <1>5, BusyPage DEF Sending
<1>7. Busy(p)' /\ ~ Signed(p)'
  BY <1>3, <1>5 DEF Busy, Signed, Sending, Waiting
<1>8. OpOK(page[p].op)' /\ r.op.callData.call = "mint"
  <2>1. OpOK(op)'
    BY DEF OpOK
  <2> QED
    BY <1>0, <1>3, <1>5, <2>1, BusyPage DEF OpOK
<1>9. PageOK(p)'
  BY <1>3, <1>5, <1>6, <1>7, <1>8 DEF PageOK, Sending
<1>10. ShowsOwn(p)' /\ page'[p].status # "confirmed"
  BY <1>3, <1>6 DEF ShowsOwn
<1>11. Picture(page'[p].op) = Picture(page[p].op)
  BY <1>3, <1>5 DEF Picture
<1>12. Sent' = Sent
  BY DEF Sent, ToSet, contractVars
<1>13. \A o \in Sent' : ~ (o.callData.call = "mint" /\ Picture(o) = Picture(page'[p].op))
  BY <1>11, <1>12, NotSentYet
<1>14. /\ registered' \subseteq Creds /\ registered \subseteq registered'
       /\ passkeys' \in [Pages -> [Logins -> registered' \cup {NoCred}]]
       /\ clicks' \in Nat /\ clicks <= clicks'
  BY DEF WalletInv, ContractInv, AccountsOK, PagesOK
<1>15. UNCHANGED <<contractVars, browser>> /\ pool' \subseteq pool
  OBVIOUS
<1> QED
  BY <1>0, <1>4, <1>9, <1>10, <1>11, <1>13, <1>14, <1>15, PageMoves

(* Filling in the fields of an operation leaves an operation. *)
LEMMA FillIn ==
    ASSUME NEW op, OpOK(op), NEW x
    PROVE  /\ OpOK([op EXCEPT !.nonce = x]) /\ [op EXCEPT !.nonce = x].callData = op.callData
           /\ OpOK([op EXCEPT !.initCode = x]) /\ [op EXCEPT !.initCode = x].callData = op.callData
           /\ OpOK([op EXCEPT !.fee = x]) /\ [op EXCEPT !.fee = x].callData = op.callData
           /\ OpOK([op EXCEPT !.sponsor = x]) /\ [op EXCEPT !.sponsor = x].callData = op.callData
           /\ OpOK([op EXCEPT !.sig = x]) /\ [op EXCEPT !.sig = x].callData = op.callData
           /\ [op EXCEPT !.sig = x].sig = x
<1> DEFINE Op(n, i, f, sp, sg) ==
             [sender |-> op.sender, nonce |-> n, initCode |-> i, fee |-> f, callData |-> op.callData,
              sponsor |-> sp, sig |-> sg]
<1>1. op = Op(op.nonce, op.initCode, op.fee, op.sponsor, op.sig)
  BY DEF OpOK
<1>2. \A n, i, f, sp, sg : OpOK(Op(n, i, f, sp, sg))
  BY DEF OpOK
<1>3. [op EXCEPT !.nonce = x] = Op(x, op.initCode, op.fee, op.sponsor, op.sig)
  BY <1>1
<1>4. [op EXCEPT !.initCode = x] = Op(op.nonce, x, op.fee, op.sponsor, op.sig)
  BY <1>1
<1>5. [op EXCEPT !.fee = x] = Op(op.nonce, op.initCode, x, op.sponsor, op.sig)
  BY <1>1
<1>6. [op EXCEPT !.sponsor = x] = Op(op.nonce, op.initCode, op.fee, x, op.sig)
  BY <1>1
<1>7. [op EXCEPT !.sig = x] = Op(op.nonce, op.initCode, op.fee, op.sponsor, x)
  BY <1>1
<1> QED
  BY <1>2, <1>3, <1>4, <1>5, <1>6, <1>7

(* What the passkeys of a step without a new one are. *)
LEMMA SamePasskeys ==
    ASSUME WalletInv, UNCHANGED <<passkeys, registered, clicks>>
    PROVE  /\ registered' \subseteq Creds /\ registered \subseteq registered'
           /\ passkeys' \in [Pages -> [Logins -> registered' \cup {NoCred}]]
           /\ clicks' \in Nat /\ clicks <= clicks'
  BY DEF WalletInv, ContractInv, AccountsOK, PagesOK

(* The page signs its operation, with a passkey that is there by now. *)
LEMMA SignedMoves ==
    ASSUME WalletInv, NEW p \in Pages, page[p].pc \in Sending, NEW c, NEW sig,
           SigOK(sig)', c = SignerOf(sig),
           page' = [page EXCEPT ![p].pc = "send", ![p].cred = c, ![p].op.sig = sig],
           UNCHANGED <<contractVars, browser, clicks, pool>>,
           registered' \subseteq Creds, registered \subseteq registered',
           passkeys' \in [Pages -> [Logins -> registered' \cup {NoCred}]]
    PROVE  WalletInv'
<1>0. Busy(p) /\ PagesOK
  BY DEF Busy, WalletInv
<1>a. PICK op : op = [page[p].op EXCEPT !.sig = sig]
  OBVIOUS
<1> DEFINE old == page[p]
           r == [pc |-> "send", status |-> old.status, cred |-> c, retries |-> old.retries,
                 block |-> old.block, shown |-> old.shown, op |-> op]
           a == [page EXCEPT ![p].pc = "send"]
           b == [a EXCEPT ![p].cred = c]
<1>1. /\ DOMAIN page = Pages /\ DOMAIN a = Pages /\ DOMAIN b = Pages
      /\ old = [pc |-> old.pc, status |-> old.status, cred |-> old.cred,
                retries |-> old.retries, block |-> old.block,
                shown |-> old.shown, op |-> old.op]
  BY <1>0, BusyPage
<1>2. a[p] = [pc |-> "send", status |-> old.status, cred |-> old.cred,
              retries |-> old.retries, block |-> old.block,
              shown |-> old.shown, op |-> old.op]
  <2>1. a[p] = [old EXCEPT !.pc = "send"]
    BY <1>1
  <2> HIDE DEF a, old
  <2> QED
    BY <1>1, <2>1
<1>3. b[p] = [pc |-> "send", status |-> old.status, cred |-> c,
              retries |-> old.retries, block |-> old.block,
              shown |-> old.shown, op |-> old.op]
  <2>1. b[p] = [a[p] EXCEPT !.cred = c]
    BY <1>1
  <2> HIDE DEF a, b, old
  <2> QED
    BY <1>2, <2>1
<1>4. page' = [b EXCEPT ![p].op.sig = sig] /\ \A q \in Pages : q # p => b[q] = page[q]
  BY <1>1
<1>5. page'[p] = r
  <2>1. page'[p] = [b[p] EXCEPT !.op.sig = sig]
    BY <1>1, <1>4
  <2> HIDE DEF a, b, old
  <2>2. page'[p] = [b[p] EXCEPT !.op = [b[p].op EXCEPT !.sig = sig]]
    BY <2>1
  <2>3. b[p].op = old.op
    BY <1>3
  <2>4. op = [old.op EXCEPT !.sig = sig]
    BY <1>a DEF old
  <2>5. page'[p] = [b[p] EXCEPT !.op = op]
    BY <2>2, <2>3, <2>4
  <2> QED
    BY <1>3, <2>5
<1>6. page' = [page EXCEPT ![p] = page'[p]]
  BY <1>1, <1>4
<1>7. OpOK(op) /\ op.callData = page[p].op.callData /\ op.sig = sig
  <2>1. OpOK(page[p].op)
    BY <1>0, BusyPage
  <2> QED
    BY <1>a, <2>1, FillIn
<1>8. /\ r.pc = "send" /\ r.status = old.status /\ r.cred = c
      /\ r.retries = old.retries /\ r.shown = old.shown /\ r.op = op
      /\ r = [pc |-> r.pc, status |-> r.status, cred |-> r.cred, retries |-> r.retries,
              block |-> r.block, shown |-> r.shown, op |-> r.op]
  OBVIOUS
<1>9. old.status = "waiting" /\ old.shown = 0 /\ old.retries \in 0..MaxRetries
      /\ old.op.callData.call = "mint"
  BY <1>0, BusyPage DEF Sending
<1> HIDE DEF r
<1>10. Busy(p)' /\ Signed(p)'
  BY <1>5, <1>8 DEF Busy, Signed, Waiting
<1>11. clicks' = clicks /\ clicks' \in Nat
  BY <1>0 DEF PagesOK
<1>12. OpOK(page[p].op)'
  <2>1. OpOK(op)'
    BY <1>7, <1>11 DEF OpOK
  <2>2. page'[p].op = op
    BY <1>5, <1>8
  <2> QED
    BY <2>1, <2>2 DEF OpOK
<1>13. SigOK(page[p].op.sig)'
  <2>1. page'[p].op.sig = sig
    BY <1>5, <1>7, <1>8
  <2> QED
    BY <2>1 DEF SigOK
<1>14. PageOK(p)'
  BY <1>5, <1>7, <1>8, <1>9, <1>10, <1>12, <1>13 DEF PageOK, Waiting
<1>15. ShowsOwn(p)' /\ page'[p].status # "confirmed"
  BY <1>5, <1>8, <1>9 DEF ShowsOwn
<1>16. Picture(page'[p].op) = Picture(page[p].op)
  BY <1>5, <1>7, <1>8 DEF Picture
<1>17. Sent' = Sent
  BY DEF Sent, ToSet, contractVars
<1>18. \A o \in Sent' : ~ (o.callData.call = "mint" /\ Picture(o) = Picture(page'[p].op))
  BY <1>16, <1>17, NotSentYet
<1>19. UNCHANGED <<contractVars, browser>> /\ pool' \subseteq pool /\ clicks <= clicks'
  BY <1>11
<1> QED
  BY <1>0, <1>6, <1>11, <1>14, <1>15, <1>16, <1>18, <1>19, PageMoves

(* The awaits before the signature. *)
LEMMA PrepareKeeps ==
    ASSUME WalletInv, NEW p \in Pages, UNCHANGED contractVars, UNCHANGED pool,
           ReadNonce(p) \/ ReadCode(p) \/ GetPaymasterData(p) \/ GetGasLimits(p)
    PROVE  WalletInv'
<1>0. UNCHANGED <<contractVars, browser, passkeys, registered, clicks, pool>>
  BY DEF ReadNonce, ReadCode, GetPaymasterData, GetGasLimits
<1>1. page[p].pc \in Sending
  BY DEF ReadNonce, ReadCode, GetPaymasterData, GetGasLimits, At, Sending
<1>2. OpOK(page[p].op)
  BY <1>1, BusyPage DEF WalletInv, Busy
<1>3. {"code", "sponsor", "estimate", "sign"} \subseteq Sending /\ "thrown" \in Ended
  BY DEF Sending, Ended
<1>4. CASE ReadNonce(p)
  <2>1. PICK op : op = [page[p].op EXCEPT !.nonce = nonces[page[p].op.sender]]
    OBVIOUS
  <2>2. OpOK(op) /\ op.callData = page[p].op.callData
    BY <1>2, <2>1, FillIn
  <2>3. Continue(p, "code", op)
    BY <1>4, <2>1 DEF ReadNonce
  <2> QED
    BY <1>0, <1>1, <1>3, <2>2, <2>3, ContinueMoves
<1>5. CASE ReadCode(p)
  <2>1. PICK fee \in Fees :
          Continue(p, "sponsor",
            [page[p].op EXCEPT !.initCode = ~ accounts[page[p].op.sender].deployed, !.fee = fee])
    BY <1>5 DEF ReadCode
  <2>2. PICK m : m = [page[p].op EXCEPT !.initCode = ~ accounts[page[p].op.sender].deployed]
    OBVIOUS
  <2>3. PICK op : op = [m EXCEPT !.fee = fee]
    OBVIOUS
  <2>4. OpOK(m) /\ m.callData = page[p].op.callData
    BY <1>2, <2>2, FillIn
  <2>5. OpOK(op) /\ op.callData = page[p].op.callData
    BY <2>3, <2>4, FillIn
  <2>6. op = [page[p].op EXCEPT !.initCode = ~ accounts[page[p].op.sender].deployed, !.fee = fee]
    BY <2>2, <2>3
  <2>7. Continue(p, "sponsor", op)
    BY <2>1, <2>6
  <2> QED
    BY <1>0, <1>1, <1>3, <2>5, <2>7, ContinueMoves
<1>6. CASE GetPaymasterData(p)
  <2>1. PICK op : op = [page[p].op EXCEPT !.sponsor = Sponsorship(page[p].op)]
    OBVIOUS
  <2>2. OpOK(op) /\ op.callData = page[p].op.callData
    BY <1>2, <2>1, FillIn
  <2>3. Continue(p, "estimate", op)
    BY <1>6, <2>1 DEF GetPaymasterData
  <2> QED
    BY <1>0, <1>1, <1>3, <2>2, <2>3, ContinueMoves
<1>7. CASE GetGasLimits(p)
  <2>1. CASE Estimated(page[p].op)
    <3>1. PICK fee \in Fees : Continue(p, "sign", [page[p].op EXCEPT !.fee = fee])
      BY <1>7, <2>1 DEF GetGasLimits
    <3>2. PICK op : op = [page[p].op EXCEPT !.fee = fee]
      OBVIOUS
    <3>3. OpOK(op) /\ op.callData = page[p].op.callData
      BY <1>2, <3>2, FillIn
    <3>4. Continue(p, "sign", op)
      BY <3>1, <3>2
    <3> QED
      BY <1>0, <1>1, <1>3, <3>3, <3>4, ContinueMoves
  <2>2. CASE ~ Estimated(page[p].op)
    <3>1. Left(p, "thrown", "waiting")
      BY <1>7, <2>2 DEF GetGasLimits
    <3> QED
      BY <1>0, <1>3, <3>1, LeftMoves, SamePasskeys
  <2> QED
    BY <2>1, <2>2
<1> QED
  BY <1>4, <1>5, <1>6, <1>7

(* A new passkey is one that was not there. *)
LEMMA NewCredIsNew ==
    ASSUME NEW c \in NewCreds
    PROVE  c \in Creds /\ c \notin registered
<1>1. c \in Creds /\ c \in Nat /\ registered = Creds \cap 1..(c - 1)
  BY CredsAssumption DEF NewCreds
<1> QED
  BY <1>1

(* The signature: with the stored passkey, or with one made for it. *)
LEMMA SignKeeps ==
    ASSUME WalletInv, NEW p \in Pages, UNCHANGED contractVars, UNCHANGED pool,
           SignUserOp(p) \/ SignUserOpWithCreate(p)
    PROVE  WalletInv'
<1>0. page[p].pc \in Sending /\ Busy(p) /\ PagesOK
  BY DEF SignUserOp, SignUserOpWithCreate, At, Sending, Busy, WalletInv
<1>1. /\ DOMAIN page = Pages /\ OpOK(page[p].op)
      /\ page[p] = [pc |-> page[p].pc, status |-> page[p].status, cred |-> page[p].cred,
                    retries |-> page[p].retries, block |-> page[p].block,
                    shown |-> page[p].shown, op |-> page[p].op]
  BY <1>0, BusyPage
<1>2. CASE SignUserOp(p)
  <2>0. UNCHANGED <<contractVars, browser, passkeys, registered, clicks, pool>>
    BY <1>2 DEF SignUserOp
  <2>1. CASE StoredPasskey(p) = NoCred
    <3>1. page' = [page EXCEPT ![p].pc = "register"]
      BY <1>2, <2>1 DEF SignUserOp
    <3> DEFINE a == [page EXCEPT ![p].pc = "register"]
               r == [page[p] EXCEPT !.pc = "register"]
    <3>2. r.op = page[p].op /\ [r EXCEPT !.op = page[p].op] = r
      <4> DEFINE old == page[p]
      <4>1. old = [pc |-> old.pc, status |-> old.status, cred |-> old.cred,
                   retries |-> old.retries, block |-> old.block,
                   shown |-> old.shown, op |-> old.op]
        BY <1>1
      <4> HIDE DEF old
      <4>2. [old EXCEPT !.pc = "register"] =
              [pc |-> "register", status |-> old.status, cred |-> old.cred,
               retries |-> old.retries, block |-> old.block,
               shown |-> old.shown, op |-> old.op]
        BY <4>1
      <4> HIDE DEF r
      <4>3. r = [pc |-> "register", status |-> old.status, cred |-> old.cred,
               retries |-> old.retries, block |-> old.block,
               shown |-> old.shown, op |-> old.op]
        BY <4>2 DEF r, old
      <4>4. r.op = old.op /\ [r EXCEPT !.op = old.op] = r
        BY <4>3
      <4> QED
        BY <4>4 DEF old
    <3>3. a[p] = r /\ DOMAIN a = Pages /\ a = [q \in Pages |-> a[q]]
      BY <1>1
    <3> HIDE DEF a, r
    <3>4. [a EXCEPT ![p].op = page[p].op] = a
      <4>1. [a EXCEPT ![p].op = page[p].op] = [a EXCEPT ![p] = [a[p] EXCEPT !.op = page[p].op]]
        BY <3>3
      <4>2. [a[p] EXCEPT !.op = page[p].op] = a[p]
        BY <3>2, <3>3
      <4>3. [a EXCEPT ![p] = a[p]] = a
        BY <3>3
      <4> QED
        BY <4>1, <4>2, <4>3
    <3>5. Continue(p, "register", page[p].op)
      BY <3>1, <3>4 DEF Continue, a
    <3>6. "register" \in Sending
      BY DEF Sending
    <3> QED
      BY <1>0, <1>1, <2>0, <3>5, <3>6, ContinueMoves
  <2>2. CASE StoredPasskey(p) # NoCred
    <3> DEFINE cred == StoredPasskey(p)
               sig == [type |-> "webauthn", challenge |-> Hash(page[p].op),
                       credId |-> cred, signedBy |-> cred]
    <3>1. page' = [page EXCEPT ![p].pc = "send", ![p].cred = cred, ![p].op.sig = sig]
      BY <1>2, <2>2 DEF SignUserOp
    <3>2. cred \in registered
      BY <1>0, <1>1, <2>2 DEF PagesOK, StoredPasskey, OpOK
    <3>3. sig.type = "webauthn" /\ sig.credId = cred
      OBVIOUS
    <3>4. PICK s, c : s = sig /\ c = cred
      OBVIOUS
    <3> HIDE DEF cred, sig
    <3>5. s.type = "webauthn" /\ SignerOf(s) = c
      BY <3>3, <3>4 DEF SignerOf, VoucherTypes
    <3>6. SigOK(s)'
      BY <2>0, <3>2, <3>4, <3>5 DEF SigOK, VoucherTypes
    <3>7. page' = [page EXCEPT ![p].pc = "send", ![p].cred = c, ![p].op.sig = s]
      BY <3>1, <3>4
    <3> QED
      BY <1>0, <2>0, <3>5, <3>6, <3>7, SignedMoves, SamePasskeys
  <2> QED
    BY <2>1, <2>2
<1>3. CASE SignUserOpWithCreate(p)
  <2>1. PICK c \in NewCreds :
          /\ registered' = registered \cup {c}
          /\ passkeys' = [passkeys EXCEPT ![browser[p]][page[p].op.sender] = c]
          /\ \/ \E sig \in Attested(page[p].op, c) :
                  page' = [page EXCEPT ![p].pc = "send", ![p].cred = c, ![p].op.sig = sig]
             \/ Left(p, "thrown", "waiting")
    BY <1>3 DEF SignUserOpWithCreate
  <2>2. UNCHANGED <<contractVars, browser, clicks, pool>>
    BY <1>3 DEF SignUserOpWithCreate
  <2>3. registered' \subseteq Creds /\ registered \subseteq registered'
    BY <2>1, NewCredIsNew DEF WalletInv, ContractInv, AccountsOK
  <2>4. passkeys' \in [Pages -> [Logins -> registered' \cup {NoCred}]]
    <3>1. /\ passkeys \in [Pages -> [Logins -> registered \cup {NoCred}]]
          /\ browser[p] \in Pages /\ page[p].op.sender \in Logins
      BY <1>0, <1>1 DEF PagesOK, OpOK
    <3> QED
      BY <2>1, <3>1
  <2>5. CASE \E sig \in Attested(page[p].op, c) :
               page' = [page EXCEPT ![p].pc = "send", ![p].cred = c, ![p].op.sig = sig]
    <3>1. PICK sig \in Attested(page[p].op, c) :
            page' = [page EXCEPT ![p].pc = "send", ![p].cred = c, ![p].op.sig = sig]
      BY <2>5
    <3>2. sig.type \in VoucherTypes /\ sig.voucher.credId = c /\ sig.voucher.key = c
      BY DEF Attested, Voucher, VoucherTypes
    <3>3. SigOK(sig)' /\ c = SignerOf(sig)
      BY <2>1, <3>2 DEF SigOK, SignerOf
    <3> QED
      BY <1>0, <2>2, <2>3, <2>4, <3>1, <3>3, SignedMoves
  <2>6. CASE Left(p, "thrown", "waiting")
    <3>1. "thrown" \in Ended
      BY DEF Ended
    <3> QED
      BY <2>2, <2>3, <2>4, <2>6, <3>1, LeftMoves
  <2> QED
    BY <2>1, <2>5, <2>6
<1> QED
  BY <1>2, <1>3

(* What a page does once its operation is signed: the operation stays. *)
LEMMA SentMoves ==
    ASSUME WalletInv, NEW p \in Pages, page[p].pc \in Waiting, NEW r,
           r = [pc |-> r.pc, status |-> r.status, cred |-> page[p].cred, retries |-> r.retries,
                block |-> r.block, shown |-> r.shown, op |-> page[p].op],
           r.pc \in {"poll", "reveal", "done"}, r.retries \in 0..MaxRetries,
           r.status = IF r.pc = "poll" THEN "waiting" ELSE "confirmed",
           r.pc # "done" => r.shown = 0,
           page' = [page EXCEPT ![p] = r],
           UNCHANGED <<contractVars, browser, passkeys, registered, clicks>>,
           \/ pool' \subseteq pool
           \/ At(p, "send") /\ pool' \subseteq pool \cup {page[p].op},
           ShowsOwn(p)', r.status = "confirmed" => Confirmed(p)'
    PROVE  WalletInv'
<1>0. Busy(p) /\ PagesOK
  BY DEF Busy, WalletInv
<1>1. page'[p] = r /\ page' = [page EXCEPT ![p] = page'[p]]
  BY <1>0, BusyPage
<1>2. r.cred = page[p].cred /\ r.op = page[p].op
  OBVIOUS
<1>3. /\ OpOK(page[p].op) /\ page[p].op.callData.call = "mint"
      /\ SigOK(page[p].op.sig) /\ page[p].cred = SignerOf(page[p].op.sig)
  BY <1>0, BusyPage
<1>4. Busy(p)' /\ Signed(p)'
  BY <1>1 DEF Busy, Signed, Waiting
<1>5. OpOK(page[p].op)' /\ SigOK(page[p].op.sig)'
  BY <1>1, <1>2, <1>3 DEF OpOK, SigOK
<1>6. r = [pc |-> r.pc, status |-> r.status, cred |-> r.cred, retries |-> r.retries,
           block |-> r.block, shown |-> r.shown, op |-> r.op]
  BY <1>2
<1>7. PageOK(p)'
  BY <1>1, <1>2, <1>3, <1>4, <1>5, <1>6 DEF PageOK, Waiting
<1>8. Picture(page'[p].op) = Picture(page[p].op)
  BY <1>1, <1>2
<1>9. /\ Sent' \subseteq Sent \cup {page[p].op}
      /\ \A o \in Sent : o.callData.call = "mint" /\ Picture(o) = Picture(page[p].op) => o = page[p].op
  <2>1. Sent' \subseteq Sent \cup {page[p].op}
    BY DEF Sent, ToSet, contractVars
  <2> QED
    BY <1>0, <2>1 DEF WalletInv, OneOpPerClick
<1>10. \A o \in Sent' :
         o.callData.call = "mint" /\ Picture(o) = Picture(page'[p].op) =>
           page'[p].pc \in {"poll", "reveal", "done"} /\ o = page'[p].op
  BY <1>1, <1>2, <1>8, <1>9
<1>11. /\ registered' \subseteq Creds /\ registered \subseteq registered'
       /\ passkeys' \in [Pages -> [Logins -> registered' \cup {NoCred}]]
       /\ clicks' \in Nat /\ clicks <= clicks'
  BY SamePasskeys
<1>12. UNCHANGED <<contractVars, browser>> /\ (page'[p].status = "confirmed" => Confirmed(p)')
  BY <1>1
<1> QED
  BY <1>0, <1>1, <1>7, <1>8, <1>10, <1>11, <1>12, PageMoves

(* A click starts an operation with a picture of its own. *)
LEMMA ClickKeeps ==
    ASSUME WalletInv, NEW p \in Pages, NEW l \in Logins, Click(p, l),
           UNCHANGED contractVars, UNCHANGED pool
    PROVE  WalletInv'
<1> DEFINE op == [sender |-> l, nonce |-> 0, initCode |-> FALSE, fee |-> 0,
                  callData |-> [call |-> "mint", image |-> clicks + 1],
                  sponsor |-> NotSponsored, sig |-> NoSignature]
           r == [pc |-> "nonce", status |-> "waiting", cred |-> NoCred, retries |-> 0,
                 block |-> 0, shown |-> 0, op |-> op]
<1>0. clicks \in Nat /\ DOMAIN page = Pages
  BY DEF WalletInv, PagesOK
<1>1. /\ clicks' = clicks + 1 /\ page' = [page EXCEPT ![p] = r]
      /\ UNCHANGED <<browser, passkeys, registered>>
  BY DEF Click
<1>2. /\ r.pc = "nonce" /\ r.status = "waiting" /\ r.cred = NoCred /\ r.retries = 0 /\ r.shown = 0
      /\ r.op = op
      /\ r = [pc |-> r.pc, status |-> r.status, cred |-> r.cred, retries |-> r.retries,
              block |-> r.block, shown |-> r.shown, op |-> r.op]
  OBVIOUS
<1>3. /\ op.sender = l /\ op.callData.call = "mint" /\ Picture(op) = clicks + 1
      /\ op.callData.image = clicks + 1
      /\ op = [sender   |-> op.sender,   nonce |-> op.nonce, initCode |-> op.initCode,
               fee      |-> op.fee,   callData |-> op.callData,
               sponsor  |-> op.sponsor,    sig |-> op.sig]
  BY DEF Picture
<1>a. PICK o : o = op
  OBVIOUS
<1>4. page'[p] = r /\ page' = [page EXCEPT ![p] = page'[p]]
  BY <1>0, <1>1
<1> HIDE DEF r, op
<1>5. Busy(p)' /\ ~ Signed(p)'
  BY <1>2, <1>4 DEF Busy, Signed, Sending, Waiting
<1>6. OpOK(page[p].op)'
  <2>1. OpOK(o)'
    BY <1>0, <1>1, <1>3, <1>a DEF OpOK
  <2>2. page'[p].op = o
    BY <1>2, <1>4, <1>a
  <2> QED
    BY <2>1, <2>2 DEF OpOK
<1>7. PageOK(p)'
  BY <1>2, <1>3, <1>4, <1>5, <1>6, RetriesAssumption DEF PageOK, Sending
<1>8. ShowsOwn(p)' /\ page'[p].status # "confirmed"
  BY <1>2, <1>4 DEF ShowsOwn
<1>9. Picture(page'[p].op) = clicks + 1 /\ clicks + 1 \notin 1..clicks
  BY <1>0, <1>2, <1>3, <1>4
<1>10. Sent' = Sent
  BY DEF Sent, ToSet, contractVars
<1>11. \A x \in Sent : ~ (x.callData.call = "mint" /\ Picture(x) = clicks + 1)
  <2> SUFFICES ASSUME NEW x \in Sent, x.callData.call = "mint"
               PROVE  Picture(x) # clicks + 1
    OBVIOUS
  <2>1. OpOK(x)
    BY DEF Sent, WalletInv, OneOpPerClick, ContractInv, LedgerOK, EventOK
  <2> QED
    BY <1>0, <2>1 DEF OpOK, Picture
<1>12. /\ registered' \subseteq Creds /\ registered \subseteq registered'
       /\ passkeys' \in [Pages -> [Logins -> registered' \cup {NoCred}]]
       /\ clicks' \in Nat /\ clicks <= clicks'
       /\ UNCHANGED <<contractVars, browser>> /\ pool' \subseteq pool
  BY <1>0, <1>1 DEF WalletInv, ContractInv, AccountsOK, PagesOK
<1> QED
  BY <1>4, <1>7, <1>8, <1>9, <1>10, <1>11, <1>12, PageMoves

(* Sending puts the operation into the pool, or it does not. *)
LEMMA SendKeeps ==
    ASSUME WalletInv, NEW p \in Pages, Send(p), UNCHANGED contractVars
    PROVE  WalletInv'
<1>0. Busy(p) /\ PagesOK /\ page[p].pc \in Waiting
  BY DEF Send, At, Waiting, Busy, WalletInv
<1>1. /\ UNCHANGED <<contractVars, browser, passkeys, registered, clicks>>
      /\ \/ pool' \subseteq pool
         \/ At(p, "send") /\ pool' \subseteq pool \cup {page[p].op}
  BY DEF Send
<1>2. CASE Fail(p)
  <2>1. "done" \in Ended
    BY DEF Ended
  <2> QED
    BY <1>1, <1>2, <2>1, LeftMoves, SamePasskeys DEF Fail
<1>3. CASE page' = [page EXCEPT ![p].pc = "poll", ![p].retries = MaxRetries]
  <2> DEFINE old == page[p]
             a == [page EXCEPT ![p].pc = "poll"]
             r == [pc |-> "poll", status |-> old.status, cred |-> old.cred, retries |-> MaxRetries,
                   block |-> old.block, shown |-> old.shown, op |-> old.op]
  <2>1. /\ DOMAIN page = Pages /\ DOMAIN a = Pages
        /\ old = [pc |-> old.pc, status |-> old.status, cred |-> old.cred,
                  retries |-> old.retries, block |-> old.block,
                  shown |-> old.shown, op |-> old.op]
        /\ old.status = "waiting" /\ old.shown = 0
    BY <1>0, BusyPage DEF Send, At
  <2>2. a[p] = [pc |-> "poll", status |-> old.status, cred |-> old.cred,
                retries |-> old.retries, block |-> old.block,
                shown |-> old.shown, op |-> old.op]
    <3>1. a[p] = [old EXCEPT !.pc = "poll"]
      BY <2>1
    <3> HIDE DEF a, old
    <3> QED
      BY <2>1, <3>1
  <2>3. page' = [a EXCEPT ![p].retries = MaxRetries]
    BY <1>3
  <2>4. page'[p] = r
    <3>1. page'[p] = [a[p] EXCEPT !.retries = MaxRetries]
      BY <2>1, <2>3
    <3> HIDE DEF a, old
    <3> QED
      BY <2>2, <3>1
  <2>5. page' = [page EXCEPT ![p] = r]
    BY <2>1, <2>3, <2>4
  <2>6. /\ r = [pc |-> r.pc, status |-> r.status, cred |-> old.cred, retries |-> r.retries,
                block |-> r.block, shown |-> r.shown, op |-> old.op]
        /\ r.pc = "poll" /\ r.retries \in 0..MaxRetries /\ r.status = "waiting" /\ r.shown = 0
    BY <2>1, RetriesAssumption
  <2> HIDE DEF r
  <2>7. ShowsOwn(p)'
    BY <2>4, <2>6 DEF ShowsOwn
  <2>8. PICK s : s = r
    OBVIOUS
  <2> QED
    BY <1>0, <1>1, <2>5, <2>6, <2>7, <2>8, SentMoves
<1> QED
  BY <1>2, <1>3 DEF Send

(* The hash covers the call. *)
LEMMA HashCovers ==
    ASSUME NEW op, OpOK(op)
    PROVE  Hash(op).callData = op.callData
<1>1. PICK x : x = NoSignature
  OBVIOUS
<1>2. Hash(op) = [op EXCEPT !.sig = x]
  BY <1>1 DEF Hash
<1> QED
  BY <1>2, FillIn

(* An event with the hash of the page's operation is the event of that      *)
(* operation.                                                               *)
LEMMA EventOfPage ==
    ASSUME WalletInv, NEW p \in Pages, Busy(p), NEW i \in EventsOf(page[p].op)
    PROVE  events[i] \in ToSet(events) /\ events[i].op = page[p].op
<1>1. i \in DOMAIN events /\ Hash(events[i].op) = Hash(page[p].op)
  BY DEF EventsOf
<1>2. events[i] \in ToSet(events)
  BY <1>1 DEF ToSet
<1>3. OpOK(events[i].op) /\ OpOK(page[p].op) /\ page[p].op.callData.call = "mint"
  BY <1>2, BusyPage DEF WalletInv, ContractInv, LedgerOK, EventOK
<1>4. events[i].op.callData = page[p].op.callData
  BY <1>1, <1>3, HashCovers
<1>5. events[i].op \in Sent
  BY <1>2 DEF Sent
<1> QED
  BY <1>2, <1>3, <1>4, <1>5 DEF WalletInv, OneOpPerClick, Picture

(* A poll finds the event, or counts down, or gives up. *)
LEMMA PollKeeps ==
    ASSUME WalletInv, NEW p \in Pages, Poll(p), UNCHANGED contractVars, UNCHANGED pool
    PROVE  WalletInv'
<1>0. Busy(p) /\ PagesOK /\ page[p].pc \in Waiting /\ page[p].pc = "poll"
  BY DEF Poll, At, Waiting, Busy, WalletInv
<1>1. UNCHANGED <<contractVars, browser, passkeys, registered, clicks>> /\ pool' \subseteq pool
  BY DEF Poll
<1> DEFINE old == page[p]
<1>2. /\ DOMAIN page = Pages
      /\ old = [pc |-> old.pc, status |-> old.status, cred |-> old.cred,
                retries |-> old.retries, block |-> old.block,
                shown |-> old.shown, op |-> old.op]
      /\ old.status = "waiting" /\ old.shown = 0 /\ old.retries \in 0..MaxRetries
  BY <1>0, BusyPage
<1>3. CASE Fail(p)
  <2>1. "done" \in Ended
    BY DEF Ended
  <2> QED
    BY <1>1, <1>3, <2>1, LeftMoves, SamePasskeys DEF Fail
<1>4. CASE page[p].retries > 0 /\ page' = NextPoll(p)
  <2> DEFINE r == [pc |-> "poll", status |-> old.status, cred |-> old.cred,
                   retries |-> old.retries - 1,
                   block |-> old.block, shown |-> old.shown, op |-> old.op]
  <2>1. page' = [page EXCEPT ![p].retries = old.retries - 1]
    BY <1>2, <1>4 DEF NextPoll
  <2>2. page'[p] = [old EXCEPT !.retries = old.retries - 1]
    BY <1>2, <2>1
  <2>3. page'[p] = r
    <3>1. old.pc = "poll"
      BY <1>0
    <3> HIDE DEF old
    <3> QED
      BY <1>2, <2>2, <3>1
  <2>4. page' = [page EXCEPT ![p] = r]
    BY <1>2, <2>1, <2>3
  <2>5. /\ r = [pc |-> r.pc, status |-> r.status, cred |-> old.cred, retries |-> r.retries,
                block |-> r.block, shown |-> r.shown, op |-> old.op]
        /\ r.pc = "poll" /\ r.retries \in 0..MaxRetries /\ r.status = "waiting" /\ r.shown = 0
    BY <1>2, <1>4, RetriesAssumption
  <2> HIDE DEF r
  <2>6. ShowsOwn(p)'
    BY <2>3, <2>5 DEF ShowsOwn
  <2>7. PICK s : s = r
    OBVIOUS
  <2> QED
    BY <1>0, <1>1, <2>4, <2>5, <2>6, <2>7, SentMoves
<1>5. CASE \E i \in EventsOf(page[p].op) :
             page' = [page EXCEPT ![p].pc = "reveal", ![p].status = "confirmed",
                                  ![p].block = events[i].block]
  <2>1. PICK i \in EventsOf(page[p].op) :
          page' = [page EXCEPT ![p].pc = "reveal", ![p].status = "confirmed",
                               ![p].block = events[i].block]
    BY <1>5
  <2> DEFINE block == events[i].block
             r == [pc |-> "reveal", status |-> "confirmed", cred |-> old.cred,
                   retries |-> old.retries, block |-> block, shown |-> old.shown, op |-> old.op]
             a == [page EXCEPT ![p].pc = "reveal"]
             b == [a EXCEPT ![p].status = "confirmed"]
  <2>2. DOMAIN a = Pages /\ DOMAIN b = Pages
    BY <1>2
  <2>3. a[p] = [pc |-> "reveal", status |-> old.status, cred |-> old.cred,
                retries |-> old.retries, block |-> old.block, shown |-> old.shown, op |-> old.op]
    <3>1. a[p] = [old EXCEPT !.pc = "reveal"]
      BY <1>2
    <3> HIDE DEF a, old
    <3> QED
      BY <1>2, <3>1
  <2>4. b[p] = [pc |-> "reveal", status |-> "confirmed", cred |-> old.cred,
                retries |-> old.retries, block |-> old.block, shown |-> old.shown, op |-> old.op]
    <3>1. b[p] = [a[p] EXCEPT !.status = "confirmed"]
      BY <2>2
    <3> HIDE DEF a, b, old
    <3> QED
      BY <2>3, <3>1
  <2>5. page' = [b EXCEPT ![p].block = block] /\ \A q \in Pages : q # p => b[q] = page[q]
    BY <1>2, <2>1
  <2>6. page'[p] = r
    <3>1. page'[p] = [b[p] EXCEPT !.block = block]
      BY <2>2, <2>5
    <3> HIDE DEF a, b, old, block
    <3> QED
      BY <2>4, <3>1
  <2>7. page' = [page EXCEPT ![p] = r]
    BY <1>2, <2>2, <2>5, <2>6
  <2>8. /\ r = [pc |-> r.pc, status |-> r.status, cred |-> old.cred, retries |-> r.retries,
                block |-> r.block, shown |-> r.shown, op |-> old.op]
        /\ r.pc = "reveal" /\ r.retries \in 0..MaxRetries /\ r.status = "confirmed" /\ r.shown = 0
        /\ r.block = events[i].block /\ r.op = page[p].op
    BY <1>2
  <2> HIDE DEF r
  <2>9. ShowsOwn(p)'
    BY <2>6, <2>8 DEF ShowsOwn
  <2>10. Confirmed(p)'
    <3>1. events[i] \in ToSet(events) /\ events[i].op = page[p].op
      BY <1>0, EventOfPage
    <3>2. ToSet(events') = ToSet(events)
      BY <1>1 DEF ToSet, contractVars
    <3> QED
      BY <2>6, <2>8, <3>1, <3>2 DEF Confirmed, ToSet
  <2>11. PICK s : s = r
    OBVIOUS
  <2> QED
    BY <1>0, <1>1, <2>7, <2>8, <2>9, <2>10, <2>11, SentMoves
<1> QED
  BY <1>3, <1>4, <1>5 DEF Poll

(* The first mint from the block of the page's operation on is its own, or  *)
(* another operation of the wallet is in that block, or its call failed.    *)
LEMMA FirstMint ==
    ASSUME WalletInv, NEW p \in Pages, Confirmed(p), OpOK(page[p].op),
           page[p].op.callData.call = "mint", Mints(p) # {}
    PROVE  \/ tokens[Min(Mints(p))].image = Picture(page[p].op)
           \/ Cardinality(InBlock(p)) > 1
           \/ \E i \in InBlock(p) : ~ events[i].success
<1> SUFFICES ASSUME ~ (Cardinality(InBlock(p)) > 1), \A i \in InBlock(p) : events[i].success
             PROVE  tokens[Min(Mints(p))].image = Picture(page[p].op)
  OBVIOUS
<1>0. TokensOK /\ LedgerOK
  BY DEF WalletInv, ContractInv
<1>1. /\ Len(events) \in Nat /\ DOMAIN events = 1..Len(events)
      /\ Len(tokens) \in Nat /\ DOMAIN tokens = 1..Len(tokens)
  BY <1>0, AppendToList DEF TokensOK, LedgerOK
<1>2. IsFiniteSet(InBlock(p))
  <2>0. Len(events) \in Nat
    BY <1>1
  <2>1. IsFiniteSet(1..Len(events))
    BY <2>0, PlacesAreFinite
  <2>2. InBlock(p) \subseteq 1..Len(events)
    BY <1>1, Zenon DEF InBlock
  <2> QED
    BY <2>1, <2>2, FS_Subset
<1> DEFINE k == Min(Mints(p))
<1>3. k \in Mints(p) /\ \A j \in Mints(p) : k <= j
  <2>1. Mints(p) \in SUBSET Nat
    BY <1>1 DEF Mints
  <2>2. PICK m \in Mints(p) : \A j \in Mints(p) : m <= j
    BY <2>1, SmallestElement
  <2> QED
    BY <2>2 DEF Min
<1> HIDE DEF k
<1>4. /\ k \in DOMAIN tokens
      /\ tokens[k].owner = page[p].op.sender /\ tokens[k].block >= page[p].block
  BY <1>3 DEF Mints
<1>5. PICK e \in ToSet(events) : e.op = page[p].op /\ e.block = page[p].block
  BY DEF Confirmed
<1>6. PICK i \in DOMAIN events : e = events[i]
  BY <1>5 DEF ToSet
<1>7. i \in InBlock(p) /\ e.success
  BY <1>5, <1>6 DEF InBlock
<1>8. PICK j \in DOMAIN tokens : MintedBy(tokens[j], e)
  BY <1>0, <1>5, <1>7 DEF TokensOK, ToSet
<1>9. tokens[j].owner = page[p].op.sender /\ tokens[j].block = page[p].block
  BY <1>5, <1>8 DEF MintedBy
<1>10. PICK d \in ToSet(events) : MintedBy(tokens[k], d)
  BY <1>0, <1>4 DEF TokensOK, ToSet
<1>11. e.block \in Nat /\ d.block \in Nat
  BY <1>0, <1>5, <1>10 DEF LedgerOK, EventOK
<1>12. d.op.sender = page[p].op.sender /\ d.block = tokens[k].block
       /\ d.op.callData.image = tokens[k].image
  BY <1>4, <1>10 DEF MintedBy
<1>13. j \in Mints(p)
  BY <1>5, <1>9, <1>11 DEF Mints
<1>14. tokens[k].block <= tokens[j].block
  <2>1. CASE k = j
    BY <1>5, <1>9, <1>11, <2>1
  <2>2. CASE k < j
    BY <1>0, <1>4, <2>2 DEF TokensOK
  <2> QED
    BY <1>1, <1>3, <1>4, <1>13, <2>1, <2>2
<1>15. d.block = page[p].block
  BY <1>4, <1>5, <1>9, <1>11, <1>12, <1>14
<1>16. PICK h \in DOMAIN events : d = events[h]
  BY <1>10 DEF ToSet
<1>17. h \in InBlock(p)
  BY <1>12, <1>15, <1>16 DEF InBlock
<1>18. h = i
  BY <1>2, <1>7, <1>17, AtMostOne
<1> QED
  BY <1>5, <1>6, <1>12, <1>16, <1>18 DEF Picture, k

(* The picture is shown, or there is none. *)
LEMMA RevealKeeps ==
    ASSUME WalletInv, NEW p \in Pages, Reveal(p), UNCHANGED contractVars, UNCHANGED pool
    PROVE  WalletInv'
<1>0. Busy(p) /\ PagesOK /\ page[p].pc \in Waiting /\ page[p].pc = "reveal"
  BY DEF Reveal, At, Waiting, Busy, WalletInv
<1>1. UNCHANGED <<contractVars, browser, passkeys, registered, clicks>> /\ pool' \subseteq pool
  BY DEF Reveal
<1>2. CASE Mints(p) = {}
  <2>1. "done" \in Ended /\ Fail(p)
    BY <1>2 DEF Ended, Reveal
  <2> QED
    BY <1>1, <2>1, LeftMoves, SamePasskeys DEF Fail
<1>3. CASE Mints(p) # {}
  <2>1. PICK image : image = tokens[Min(Mints(p))].image
    OBVIOUS
  <2>2. page' = [page EXCEPT ![p].pc = "done", ![p].shown = image]
    BY <1>3, <2>1 DEF Reveal
  <2> DEFINE old == page[p]
             a == [page EXCEPT ![p].pc = "done"]
             r == [pc |-> "done", status |-> old.status, cred |-> old.cred,
                   retries |-> old.retries, block |-> old.block, shown |-> image, op |-> old.op]
  <2>3. /\ DOMAIN page = Pages /\ DOMAIN a = Pages
        /\ old = [pc |-> old.pc, status |-> old.status, cred |-> old.cred,
                  retries |-> old.retries, block |-> old.block,
                  shown |-> old.shown, op |-> old.op]
        /\ old.status = "confirmed" /\ old.retries \in 0..MaxRetries
        /\ OpOK(old.op) /\ old.op.callData.call = "mint"
    BY <1>0, BusyPage
  <2>4. a[p] = [pc |-> "done", status |-> old.status, cred |-> old.cred,
                retries |-> old.retries, block |-> old.block, shown |-> old.shown, op |-> old.op]
    <3>1. a[p] = [old EXCEPT !.pc = "done"]
      BY <2>3
    <3> HIDE DEF a, old
    <3> QED
      BY <2>3, <3>1
  <2>5. page' = [a EXCEPT ![p].shown = image] /\ \A q \in Pages : q # p => a[q] = page[q]
    BY <2>2, <2>3
  <2>6. page'[p] = r
    <3>1. page'[p] = [a[p] EXCEPT !.shown = image]
      BY <2>3, <2>5
    <3> HIDE DEF a, old
    <3> QED
      BY <2>4, <3>1
  <2>7. page' = [page EXCEPT ![p] = r]
    BY <2>3, <2>5, <2>6
  <2>8. /\ r = [pc |-> r.pc, status |-> r.status, cred |-> old.cred, retries |-> r.retries,
                block |-> r.block, shown |-> r.shown, op |-> old.op]
        /\ r.pc = "done" /\ r.retries \in 0..MaxRetries /\ r.status = "confirmed"
        /\ r.shown = image /\ r.block = page[p].block /\ r.op = page[p].op
    BY <2>3
  <2> HIDE DEF r
  <2>9. Confirmed(p)
    BY <2>3 DEF WalletInv, ConfirmedOK
  <2>10. Confirmed(p)'
    BY <1>1, <2>6, <2>8, <2>9 DEF Confirmed, ToSet, contractVars
  <2>11. ShowsOwn(p)'
    <3>1. \/ image = Picture(page[p].op)
          \/ Cardinality(InBlock(p)) > 1
          \/ \E i \in InBlock(p) : ~ events[i].success
      BY <1>3, <2>1, <2>3, <2>9, FirstMint
    <3>2. InBlock(p)' = InBlock(p) /\ events' = events
      BY <1>1, <2>6, <2>8 DEF InBlock, contractVars
    <3> QED
      BY <2>6, <2>8, <3>1, <3>2 DEF ShowsOwn, Picture
  <2>12. PICK s : s = r
    OBVIOUS
  <2> QED
    BY <1>0, <1>1, <2>7, <2>8, <2>10, <2>11, <2>12, SentMoves
<1> QED
  BY <1>2, <1>3

(* A page that throws or is loaded again has no operation any more. *)
LEMMA GoneKeeps ==
    ASSUME WalletInv, NEW p \in Pages, Throw(p) \/ Reload(p),
           UNCHANGED contractVars, UNCHANGED pool
    PROVE  WalletInv'
<1>1. UNCHANGED <<contractVars, browser, passkeys, registered, clicks>> /\ pool' \subseteq pool
  BY DEF Throw, Reload
<1>2. "thrown" \in Ended /\ "idle" \in Ended
  BY DEF Ended
<1>3. CASE Throw(p)
  <2>1. Left(p, "thrown", "waiting")
    BY <1>3 DEF Throw
  <2> QED
    BY <1>1, <1>2, <2>1, LeftMoves, SamePasskeys
<1>4. CASE Reload(p)
  <2> DEFINE a == [IdlePage EXCEPT !.pc = "idle"]
  <2>1. a = IdlePage
    BY DEF IdlePage
  <2>2. [IdlePage EXCEPT !.status = "none"] = IdlePage
    BY DEF IdlePage
  <2>3. [IdlePage EXCEPT !.pc = "idle", !.status = "none"] = [a EXCEPT !.status = "none"]
    OBVIOUS
  <2> HIDE DEF a
  <2>4. [IdlePage EXCEPT !.pc = "idle", !.status = "none"] = IdlePage
    BY <2>1, <2>2, <2>3
  <2>5. Left(p, "idle", "none")
    BY <1>4, <2>4 DEF Reload, Left
  <2> QED
    BY <1>1, <1>2, <2>5, LeftMoves, SamePasskeys
<1> QED
  BY <1>3, <1>4

---------------------------------------------------------------------------
(* The steps of the chain and of the bundler, and all steps together.      *)

(* A nonce is used up by the operation that has it. *)
LEMMA HandledNonces ==
    ASSUME LedgerOK, NoncesOK, NEW op, OpOK(op), NEW success, Handled(op, success)
    PROVE  NoncesOK'
<1> DEFINE new == [op |-> op, block |-> now, success |-> success]
<1>1. ToSet(events') = ToSet(events) \cup {new} /\ new.op = op
  BY AppendToList DEF Handled, LedgerOK
<1>2. /\ op.sender \in Logins /\ nonces \in [Logins -> Nat]
      /\ op.nonce = nonces[op.sender] /\ nonces' = [nonces EXCEPT ![op.sender] = @ + 1]
  BY DEF Handled, OpOK, NoncesOK
<1> HIDE DEF new
<1>3. /\ nonces' \in [Logins -> Nat]
      /\ nonces'[op.sender] = nonces[op.sender] + 1
      /\ \A l \in Logins : nonces[l] <= nonces'[l]
  BY <1>2
<1>4. ASSUME NEW e \in ToSet(events') PROVE e.op.nonce \in Nat /\ e.op.nonce < nonces'[e.op.sender]
  <2>1. CASE e \in ToSet(events)
    <3>1. e.op.sender \in Logins /\ e.op.nonce \in Nat /\ e.op.nonce < nonces[e.op.sender]
      BY <2>1 DEF LedgerOK, EventOK, OpOK, NoncesOK
    <3> QED
      BY <1>2, <1>3, <3>1
  <2>2. CASE e = new
    BY <1>1, <1>2, <1>3, <2>2
  <2> QED
    BY <1>1, <2>1, <2>2
<1> QED
  BY <1>3, <1>4 DEF NoncesOK, ToSet

(* A picture that is minted was not minted before: the operation of its     *)
(* click used up its nonce.                                                *)
LEMMA HandledOneMint ==
    ASSUME WalletInv, NEW op, OpOK(op), NEW success, Handled(op, success),
           op \in pool \/ op.callData.call # "mint"
    PROVE  OneMintPerClick'
<1>0. TokensOK /\ LedgerOK /\ OneSentPerClick /\ OneMintPerClick
  BY DEF WalletInv, ContractInv, OneOpPerClick
<1>1. CASE success /\ op.callData.call = "mint"
  <2> DEFINE token == [owner |-> op.sender, image |-> op.callData.image, block |-> now]
  <2>1. /\ Len(tokens) \in Nat /\ DOMAIN tokens = 1..Len(tokens)
        /\ DOMAIN tokens' = 1..(Len(tokens) + 1)
        /\ \A k \in 1..Len(tokens) : tokens'[k] = tokens[k]
        /\ tokens'[Len(tokens) + 1] = token
    BY <1>0, <1>1, AppendToList DEF Handled, TokensOK
  <2>2. token.image = Picture(op)
    BY DEF Picture
  <2> HIDE DEF token
  <2>3. ASSUME NEW k \in DOMAIN tokens, tokens[k].image = Picture(op) PROVE FALSE
    <3>1. PICK e \in ToSet(events) : MintedBy(tokens[k], e)
      BY <1>0 DEF TokensOK, ToSet
    <3>2. e.op.callData.call = "mint" /\ Picture(e.op) = Picture(op)
      BY <2>3, <3>1 DEF MintedBy, Picture
    <3>3. e.op \in Sent /\ op \in Sent
      BY <1>1 DEF Sent
    <3>4. e.op = op
      BY <1>0, <1>1, <3>2, <3>3 DEF OneSentPerClick
    <3>5. e.op.nonce \in Nat /\ e.op.nonce < nonces[e.op.sender] /\ nonces[e.op.sender] \in Nat
      BY DEF WalletInv, NoncesOK, ContractInv, LedgerOK, EventOK, OpOK
    <3>6. op.nonce = nonces[op.sender]
      BY DEF Handled
    <3> QED
      BY <3>4, <3>5, <3>6
  <2>4. ASSUME NEW j \in DOMAIN tokens', NEW k \in DOMAIN tokens', j # k
        PROVE  tokens'[j].image # tokens'[k].image
    <3>1. CASE j \in 1..Len(tokens) /\ k \in 1..Len(tokens)
      BY <1>0, <2>1, <2>4, <3>1 DEF OneMintPerClick
    <3>2. CASE j = Len(tokens) + 1 /\ k \in 1..Len(tokens)
      BY <2>1, <2>2, <2>3, <3>2
    <3>3. CASE j \in 1..Len(tokens) /\ k = Len(tokens) + 1
      BY <2>1, <2>2, <2>3, <3>3
    <3> QED
      BY <2>1, <2>4, <3>1, <3>2, <3>3
  <2> QED
    BY <2>4 DEF OneMintPerClick
<1>2. CASE ~ (success /\ op.callData.call = "mint")
  <2>1. tokens' = tokens
    BY <1>2 DEF Handled
  <2> QED
    BY <1>0, <2>1 DEF OneMintPerClick
<1> QED
  BY <1>1, <1>2

(* An operation of the pool, or one that adds a signer, is executed. *)
LEMMA HandleKeeps ==
    ASSUME WalletInv, NEW op, OpOK(op), SigOK(op.sig), HandleOp(op),
           op \in pool \/ op.callData.call # "mint",
           UNCHANGED pageVars, pool' \subseteq pool
    PROVE  WalletInv'
<1>0. ContractInv /\ AccountsOK /\ LedgerOK /\ clicks \in Nat /\ UNCHANGED <<registered, clicks>>
  BY DEF WalletInv, ContractInv, PagesOK, pageVars
<1>1. PICK success \in BOOLEAN : Handled(op, success)
  BY <1>0, HandleOpEffect
<1>2. ContractInv'
  BY <1>0, <1>1, HandledKeepsContracts
<1>3. PICK e : e = [op |-> op, block |-> now, success |-> success]
  OBVIOUS
<1>4. events' = Append(events, e) /\ e.op = op
  BY <1>1, <1>3 DEF Handled
<1>5. PagesOK' /\ OneOpPerClick' /\ ConfirmedOK' /\ \A p \in Pages : ShowsOwn(p)'
  BY <1>0, <1>4, ChainKeepsPages DEF WalletInv
<1>6. NoncesOK'
  BY <1>0, <1>1, HandledNonces DEF WalletInv
<1>7. OneMintPerClick'
  BY <1>1, HandledOneMint
<1> QED
  BY <1>2, <1>5, <1>6, <1>7 DEF WalletInv

(* The operation with which a signer adds another. *)
LEMMA OwnerOperation ==
    ASSUME NEW l \in Logins, NEW s \in registered, NEW c \in registered, OwnerAddsSigner(l, s, c)
    PROVE  \E op : /\ OpOK(op) /\ SigOK(op.sig) /\ HandleOp(op)
                   /\ op.sender = l /\ op.callData.call = "addSigner"
<1>1. PICK bare :
        bare = [sender |-> l, nonce |-> nonces[l], initCode |-> FALSE, fee |-> 0,
                callData |-> [call |-> "addSigner", credId |-> c],
                sponsor |-> NotSponsored, sig |-> NoSignature]
  OBVIOUS
<1>2. PICK op : op = [bare EXCEPT !.sponsor = Sponsorship(bare)]
  OBVIOUS
<1>3. PICK sig : sig = [type |-> "webauthn", challenge |-> Hash(op), credId |-> s, signedBy |-> s]
  OBVIOUS
<1>4. PICK signed : signed = [op EXCEPT !.sig = sig]
  OBVIOUS
<1>5. HandleOp(signed)
  BY <1>1, <1>2, <1>3, <1>4 DEF OwnerAddsSigner
<1>6. OpOK(bare) /\ bare.callData.call = "addSigner" /\ bare.sender = l
  BY <1>1 DEF OpOK
<1>7. OpOK(op) /\ op.callData = bare.callData /\ op.sender = l
  <2>1. op.sender = l
    BY <1>1, <1>2
  <2> QED
    BY <1>2, <1>6, <2>1, FillIn
<1>8. OpOK(signed) /\ signed.callData = op.callData /\ signed.sig = sig
  BY <1>4, <1>7, FillIn
<1>9. signed.sender = op.sender
  BY <1>4, <1>7 DEF OpOK
<1>10. SigOK(sig)
  BY <1>3 DEF SigOK, SignerOf, VoucherTypes
<1> QED
  BY <1>5, <1>6, <1>7, <1>8, <1>9, <1>10

(* The factory, by a transaction of its own. *)
LEMMA FactoryKeeps ==
    ASSUME WalletInv, NEW l \in Logins,
           CreateAccount(l) \/ \E c \in registered : CreateAccountWithSigner(l, c),
           UNCHANGED pageVars, UNCHANGED pool
    PROVE  WalletInv'
<1>0. ContractInv /\ LedgerOK /\ clicks \in Nat /\ UNCHANGED <<registered, clicks>>
  BY DEF WalletInv, ContractInv, PagesOK, pageVars
<1>1. UNCHANGED <<nonces, events, tokens, now>> /\ pool' \subseteq pool
  BY DEF CreateAccount, CreateAccountWithSigner
<1>2. \E a : /\ Fresh(a)
             /\ accounts' = IF accounts[l].deployed THEN accounts ELSE [accounts EXCEPT ![l] = a]
  <2>1. CASE CreateAccount(l)
    BY <2>1 DEF CreateAccount, Fresh
  <2>2. CASE \E c \in registered : CreateAccountWithSigner(l, c)
    BY <2>2 DEF CreateAccountWithSigner, Fresh
  <2> QED
    BY <2>1, <2>2
<1>3. ContractInv'
  BY <1>0, <1>1, <1>2, FactoryKeepsContracts
<1>4. PagesOK' /\ OneOpPerClick' /\ ConfirmedOK' /\ \A p \in Pages : ShowsOwn(p)'
  BY <1>0, <1>1, ChainKeepsPages DEF WalletInv
<1>5. NoncesOK' /\ OneMintPerClick'
  BY <1>1 DEF WalletInv, NoncesOK, OneMintPerClick, ToSet
<1> QED
  BY <1>3, <1>4, <1>5 DEF WalletInv

(* A block more, or an operation less in the pool. *)
LEMMA QuietKeeps ==
    ASSUME WalletInv, UNCHANGED <<accounts, nonces, events, tokens>>, UNCHANGED pageVars,
           now' \in Nat, now <= now', pool' \subseteq pool
    PROVE  WalletInv'
<1>0. ContractInv /\ LedgerOK /\ registered \subseteq Creds /\ clicks \in Nat /\ UNCHANGED <<registered, clicks>>
  BY DEF WalletInv, ContractInv, AccountsOK, PagesOK, pageVars
<1>1. ContractInv'
  BY <1>0, OthersKeepContracts
<1>2. PagesOK' /\ OneOpPerClick' /\ ConfirmedOK' /\ \A p \in Pages : ShowsOwn(p)'
  BY <1>0, ChainKeepsPages DEF WalletInv
<1>3. NoncesOK' /\ OneMintPerClick'
  BY DEF WalletInv, NoncesOK, OneMintPerClick, ToSet
<1> QED
  BY <1>1, <1>2, <1>3 DEF WalletInv

(* At first nothing is deployed, and no page has an operation. *)
LEMMA InitWalletInv == Init => WalletInv
<1> SUFFICES ASSUME Init PROVE WalletInv
  OBVIOUS
<1>1. /\ accounts = [l \in Logins |-> [NewAccount EXCEPT !.deployed = FALSE]]
      /\ nonces = [l \in Logins |-> 0]
      /\ events = <<>> /\ tokens = <<>> /\ now = 1
      /\ registered = {} /\ pool = {} /\ clicks = 0
      /\ passkeys = [b \in Pages |-> [l \in Logins |-> NoCred]]
      /\ page = [p \in Pages |-> IdlePage]
      /\ browser \in [Pages -> Pages]
  BY DEF Init, ContractInit
<1>a. PICK none : none = [c \in Creds |-> NoCred]
  OBVIOUS
<1>b. NewAccount = [deployed |-> TRUE, signersCount |-> 0, signers |-> none]
  BY <1>a DEF NewAccount
<1>2. [NewAccount EXCEPT !.deployed = FALSE] =
        [deployed |-> FALSE, signersCount |-> 0, signers |-> none]
  <2>1. PICK a, t, u : a = NewAccount /\ t = TRUE /\ u = FALSE
    OBVIOUS
  <2>2. a = [deployed |-> t, signersCount |-> 0, signers |-> none]
    BY <1>b, <2>1, Zenon
  <2>3. [a EXCEPT !.deployed = u] = [deployed |-> u, signersCount |-> 0, signers |-> none]
    BY <2>2
  <2> QED
    BY <2>1, <2>3, Zenon
<1>3. AccountsOK
  <2>1. 0 \in 0..MaxSigners /\ NoCred \in Key
    BY MaxSignersAssumption DEF Key
  <2>2. PICK fresh : fresh = [deployed |-> FALSE, signersCount |-> 0, signers |-> none]
    OBVIOUS
  <2>3. none \in [Creds -> Key] /\ \A c \in Creds : none[c] = NoCred
    BY <1>a, <2>1
  <2>4. fresh \in Account /\ fresh.signersCount = 0 /\ fresh.signers = none
    BY <2>1, <2>2, <2>3 DEF Account
  <2>5. accounts = [l \in Logins |-> fresh]
    BY <1>1, <1>2, <2>2
  <2> QED
    BY <1>1, <1>a, <2>3, <2>4, <2>5 DEF AccountsOK
<1>4. IsList(<<>>) /\ ToSet(<<>>) = {} /\ DOMAIN <<>> = {}
  BY DEF IsList, ToSet
<1>5. LedgerOK /\ TokensOK
  BY <1>1, <1>4 DEF LedgerOK, TokensOK
<1>6. SignersCounted
  <2>1. \A l : Vouchers(l) = {} /\ Additions(l) = {}
    BY <1>1, <1>4 DEF Vouchers, Additions
  <2>2. \A l \in Logins : accounts[l].signersCount = 0
                          /\ {c \in Creds : accounts[l].signers[c] # NoCred} = {}
    BY <1>1, <1>2, <1>a
  <2>3. Cardinality({}) <= 1
    BY FS_EmptySet
  <2> QED
    BY <2>1, <2>2, <2>3 DEF SignersCounted, FirstSignerOnce
<1>7. \A p \in Pages : ~ Busy(p) /\ page[p].status # "confirmed" /\ page[p].shown = 0
  BY <1>1 DEF Busy, IdlePage, Sending, Waiting
<1>8. PagesOK
  <2>1. \A p \in Pages : PageOK(p)
    BY <1>1, <1>7 DEF PageOK, IdlePage, Ended
  <2> QED
    BY <1>1, <2>1 DEF PagesOK
<1>9. OneOpPerClick /\ ConfirmedOK /\ \A p \in Pages : ShowsOwn(p)
  <2>1. Sent = {}
    BY <1>1, <1>4 DEF Sent
  <2> QED
    BY <1>1, <1>7, <2>1 DEF OneOpPerClick, OneSentPerClick, ConfirmedOK, ShowsOwn
<1>10. NoncesOK /\ OneMintPerClick
  BY <1>1, <1>4 DEF NoncesOK, OneMintPerClick
<1> QED
  BY <1>3, <1>5, <1>6, <1>8, <1>9, <1>10 DEF WalletInv, ContractInv

(* The operations of the pool are those of the pages. *)
LEMMA PoolOperation ==
    ASSUME WalletInv, NEW op \in pool
    PROVE  OpOK(op) /\ SigOK(op.sig)
  BY DEF WalletInv, OneOpPerClick

(* Every step keeps the invariant. *)
LEMMA NextKeepsWalletInv == WalletInv /\ [Next]_vars => WalletInv'
<1> SUFFICES ASSUME WalletInv, [Next]_vars PROVE WalletInv'
  OBVIOUS
<1>0. now \in Nat
  BY DEF WalletInv, ContractInv, LedgerOK
<1>1. ASSUME NEW p \in Pages, PageStep(p), UNCHANGED contractVars
      PROVE  WalletInv'
  BY <1>1, PrepareKeeps, SignKeeps, SendKeeps, PollKeeps, RevealKeeps DEF PageStep
<1>2. ASSUME NEW p \in Pages, UserStep(p), UNCHANGED contractVars
      PROVE  WalletInv'
  BY <1>2, ClickKeeps, GoneKeeps DEF UserStep
<1>3. CASE ChainStep /\ UNCHANGED pageVars
  <2>1. ASSUME NEW op \in pool, Bundle(op) PROVE WalletInv'
    BY <1>3, <2>1, PoolOperation, HandleKeeps DEF Bundle
  <2>2. CASE Mine /\ UNCHANGED pool
    BY <1>0, <1>3, <2>2, QuietKeeps DEF Mine
  <2>3. ASSUME NEW l \in Logins, CreateAccount(l), UNCHANGED pool PROVE WalletInv'
    BY <1>3, <2>3, FactoryKeeps
  <2>4. ASSUME NEW l \in Logins, NEW c \in registered, CreateAccountWithSigner(l, c), UNCHANGED pool
        PROVE  WalletInv'
    BY <1>3, <2>4, FactoryKeeps
  <2>5. ASSUME NEW l \in Logins, NEW s \in registered, NEW c \in registered,
               OwnerAddsSigner(l, s, c), UNCHANGED pool
        PROVE  WalletInv'
    <3>1. PICK op : OpOK(op) /\ SigOK(op.sig) /\ HandleOp(op) /\ op.callData.call = "addSigner"
      BY <2>5, OwnerOperation
    <3> QED
      BY <1>3, <2>5, <3>1, HandleKeeps
  <2> QED
    BY <1>3, <2>1, <2>2, <2>3, <2>4, <2>5 DEF ChainStep
<1>4. CASE ServiceStep /\ UNCHANGED <<contractVars, pageVars>>
  <2>1. pool' \subseteq pool
    BY <1>4 DEF ServiceStep, Discard, RestartBundler
  <2>2. UNCHANGED <<accounts, nonces, events, tokens>> /\ UNCHANGED pageVars /\ now' = now
    BY <1>4 DEF contractVars
  <2> QED
    BY <1>0, <2>1, <2>2, QuietKeeps
<1>5. CASE UNCHANGED vars
  <2>1. UNCHANGED <<accounts, nonces, events, tokens>> /\ UNCHANGED pageVars /\ now' = now /\ pool' \subseteq pool
    BY <1>5 DEF vars, contractVars
  <2> QED
    BY <1>0, <2>1, QuietKeeps
<1> QED
  BY <1>1, <1>2, <1>3, <1>4, <1>5 DEF Next

---------------------------------------------------------------------------
(* Stored passkeys.                                                        *)

(* While the accounts and the stored passkeys stay, so does what is         *)
(* stranded.                                                               *)
LEMMA StrandedStays ==
    ASSUME UNCHANGED <<accounts, passkeys>>, NEW b, NEW l
    PROVE  Stranded(b, l)' = Stranded(b, l)
  BY DEF Stranded

(* A passkey made in the place of a stranded one is no signer either. *)
LEMMA NewPasskeyStranded ==
    ASSUME WalletInv, NEW p \in Pages, SignUserOp(p) \/ SignUserOpWithCreate(p),
           UNCHANGED contractVars, NEW b \in Pages, NEW l \in Logins, Stranded(b, l)
    PROVE  Stranded(b, l)'
<1>0. UNCHANGED accounts
  BY DEF contractVars
<1>1. CASE SignUserOp(p)
  BY <1>0, <1>1, StrandedStays DEF SignUserOp
<1>2. CASE SignUserOpWithCreate(p)
  <2>1. PICK c \in NewCreds : passkeys' = [passkeys EXCEPT ![browser[p]][page[p].op.sender] = c]
    BY <1>2 DEF SignUserOpWithCreate
  <2>2. c \in Creds /\ c \notin registered /\ c # NoCred
    BY NewCredIsNew, NoCredAssumption
  <2>3. accounts[l].signers[c] = NoCred
    BY <2>2 DEF WalletInv, ContractInv, AccountsOK
  <2>4. passkeys'[b][l] = passkeys[b][l] \/ passkeys'[b][l] = c
    <3>1. passkeys \in [Pages -> [Logins -> registered \cup {NoCred}]]
      BY DEF WalletInv, PagesOK
    <3> QED
      BY <2>1, <3>1
  <2> QED
    BY <1>0, <2>2, <2>3, <2>4 DEF Stranded
<1> QED
  BY <1>1, <1>2

(* An operation that is executed leaves a passkey stranded, but for one that *)
(* adds a signer.                                                          *)
LEMMA HandleStranded ==
    ASSUME WalletInv, NEW op, OpOK(op), SigOK(op.sig), HandleOp(op), UNCHANGED pageVars,
           NEW b \in Pages, NEW l \in Logins, Stranded(b, l), ~ Stranded(b, l)'
    PROVE  Cardinality(Additions(l)') > Cardinality(Additions(l))
<1>0. AccountsOK /\ LedgerOK /\ UNCHANGED passkeys
  BY DEF WalletInv, ContractInv, pageVars
<1>1. PICK success \in BOOLEAN : Handled(op, success)
  BY <1>0, HandleOpEffect
<1>2. accounts[l].signersCount \in Nat /\ accounts[l].signersCount > 0
  BY <1>0 DEF AccountsOK, Account, Stranded
<1>3. passkeys[b][l] \in Creds
  BY <1>0 DEF WalletInv, PagesOK, AccountsOK, Stranded
<1>4. l = op.sender
  <2>1. CASE l # op.sender
    <3>1. accounts'[l] = accounts[l]
      BY <1>1, <2>1 DEF Handled
    <3> QED
      BY <1>0, <3>1 DEF Stranded
  <2> QED
    BY <2>1
<1>5. ~ First(op)
  BY <1>1, <1>2, <1>4 DEF Handled
<1>6. Added(op, success)
  <2>1. CASE ~ Added(op, success)
    <3>1. accounts'[l].signersCount = accounts[l].signersCount
      BY <1>1, <1>2, <1>4, <1>5, <2>1 DEF Handled
    <3>2. \A c \in Creds : accounts'[l].signers[c] = accounts[l].signers[c]
      BY <1>1, <1>4, <1>5, <2>1 DEF Handled
    <3> QED
      BY <1>0, <1>3, <3>1, <3>2 DEF Stranded
  <2> QED
    BY <2>1
<1> QED
  BY <1>0, <1>1, <1>4, <1>6, HandledCounts

(* No step rescues a stranded passkey but the operation of an owner. *)
LEMMA StepStranded ==
    ASSUME WalletInv, [Next]_vars, NEW b \in Pages, NEW l \in Logins,
           Stranded(b, l), ~ Stranded(b, l)'
    PROVE  Cardinality(Additions(l)') > Cardinality(Additions(l))
<1>0. ~ UNCHANGED <<accounts, passkeys>>
  BY StrandedStays
<1>1. ASSUME NEW p \in Pages, PageStep(p) \/ UserStep(p), UNCHANGED contractVars
      PROVE  FALSE
  <2>1. UNCHANGED accounts
    BY <1>1 DEF contractVars
  <2>2. UNCHANGED passkeys \/ SignUserOp(p) \/ SignUserOpWithCreate(p)
    BY <1>1 DEF PageStep, UserStep, ReadNonce, ReadCode, GetPaymasterData, GetGasLimits, Send, Poll,
                Reveal, Click, Throw, Reload
  <2> QED
    BY <1>0, <1>1, <2>1, <2>2, NewPasskeyStranded
<1>2. CASE ChainStep /\ UNCHANGED pageVars
  <2>0. UNCHANGED passkeys
    BY <1>2 DEF pageVars
  <2>1. ASSUME NEW op \in pool, Bundle(op)
        PROVE  Cardinality(Additions(l)') > Cardinality(Additions(l))
    BY <1>2, <2>1, PoolOperation, HandleStranded DEF Bundle
  <2>2. CASE Mine
    BY <1>0, <2>0, <2>2 DEF Mine
  <2>3. ASSUME NEW m \in Logins, CreateAccount(m) \/ \E c \in registered : CreateAccountWithSigner(m, c)
        PROVE  FALSE
    <3>1. accounts[l].deployed
      BY DEF WalletInv, ContractInv, AccountsOK, Account, Stranded
    <3>2. accounts'[l] = accounts[l]
      <4>1. \/ accounts' = accounts
            \/ ~ accounts[m].deployed /\ \E a : accounts' = [accounts EXCEPT ![m] = a]
        BY <2>3 DEF CreateAccount, CreateAccountWithSigner
      <4>2. accounts \in [Logins -> Account]
        BY DEF WalletInv, ContractInv, AccountsOK
      <4> QED
        BY <3>1, <4>1, <4>2
    <3> QED
      BY <2>0, <3>2 DEF Stranded
  <2>4. ASSUME NEW m \in Logins, NEW s \in registered, NEW c \in registered, OwnerAddsSigner(m, s, c)
        PROVE  Cardinality(Additions(l)') > Cardinality(Additions(l))
    <3>1. PICK op : OpOK(op) /\ SigOK(op.sig) /\ HandleOp(op)
      BY <2>4, OwnerOperation
    <3> QED
      BY <1>2, <3>1, HandleStranded
  <2> QED
    BY <1>2, <2>1, <2>2, <2>3, <2>4 DEF ChainStep
<1>3. CASE ServiceStep /\ UNCHANGED <<contractVars, pageVars>>
  BY <1>0, <1>3 DEF contractVars, pageVars
<1>4. CASE UNCHANGED vars
  BY <1>0, <1>4 DEF vars, contractVars, pageVars
<1> QED
  BY <1>1, <1>2, <1>3, <1>4 DEF Next

---------------------------------------------------------------------------
(* The results.                                                            *)

(* The pages and the accounts have their types: a page that shows a status  *)
(* is where that status belongs, the stored passkeys exist, and the count of *)
(* an account's signers never passes the uint8.                             *)
THEOREM PageTypeCorrect == Spec => []PageTypeOK
<1>1. WalletInv => PageTypeOK
  <2> SUFFICES ASSUME WalletInv PROVE PageTypeOK
    OBVIOUS
  <2>0. registered \subseteq Creds
    BY DEF WalletInv, ContractInv, AccountsOK
  <2>1. ASSUME NEW p \in Pages
        PROVE  /\ page[p].pc \in Sending \cup Waiting \cup Ended
               /\ page[p].status \in {"none", "waiting", "confirmed", "error"}
               /\ page[p].cred \in Key
               /\ page[p].retries \in 0..MaxRetries
    <3>1. CASE ~ Busy(p)
      <4>1. /\ page[p].pc \in Ended /\ page[p].status \in {"none", "waiting", "error"}
            /\ page[p].cred = NoCred /\ page[p].retries = 0
        BY <3>1 DEF WalletInv, PagesOK, PageOK
      <4> QED
        BY <4>1, RetriesAssumption DEF Key
    <3>2. CASE Busy(p)
      <4>1. /\ page[p].pc \in Sending \cup Waiting \cup {"done"}
            /\ page[p].status \in {"waiting", "confirmed"}
            /\ page[p].retries \in 0..MaxRetries
            /\ page[p].cred \in registered \cup {NoCred}
        BY <3>2 DEF WalletInv, PagesOK, PageOK, SigOK
      <4> QED
        BY <2>0, <4>1 DEF Key, Ended
    <3> QED
      BY <3>1, <3>2
  <2>2. passkeys \in [Pages -> [Logins -> registered \cup {NoCred}]]
    BY DEF WalletInv, PagesOK
  <2>3. \A l \in Logins : accounts[l].signersCount \in 0..MaxSigners
    BY DEF WalletInv, ContractInv, AccountsOK, Account
  <2> QED
    BY <2>1, <2>2, <2>3 DEF PageTypeOK
<1> QED
  BY <1>1, InitWalletInv, NextKeepsWalletInv, PTL DEF Spec

(* An account gets its first signer from the login service or the factory,  *)
(* once, and every other one is an operation of its own, counted.           *)
THEOREM FirstSigner == Spec => []FirstSignerOnce
<1>1. WalletInv => FirstSignerOnce
  BY DEF WalletInv, ContractInv, SignersCounted
<1> QED
  BY <1>1, InitWalletInv, NextKeepsWalletInv, PTL DEF Spec

(* Whatever tabs, reloads, lost answers and forgetful bundlers there are, no *)
(* click mints its picture twice.                                          *)
THEOREM OneMint == Spec => []OneMintPerClick
<1>1. WalletInv => OneMintPerClick
  BY DEF WalletInv
<1> QED
  BY <1>1, InitWalletInv, NextKeepsWalletInv, PTL DEF Spec

(* A page that says "confirmed" says it of its own operation, which is on   *)
(* the chain, and its passkey is a signer from then on.                     *)
THEOREM ConfirmedIncluded == Spec => []ConfirmedIsIncluded
<1>1. WalletInv => ConfirmedIsIncluded
  <2> SUFFICES ASSUME WalletInv, NEW p \in Pages, page[p].status = "confirmed"
               PROVE  /\ \E i \in DOMAIN events : Hash(events[i].op) = Hash(page[p].op)
                      /\ accounts[page[p].op.sender].signers[page[p].cred] # NoCred
    BY DEF ConfirmedIsIncluded
  <2>1. PICK e \in ToSet(events) : e.op = page[p].op
    BY DEF WalletInv, ConfirmedOK, Confirmed
  <2>2. PICK i \in DOMAIN events : e = events[i]
    BY DEF ToSet
  <2>3. page[p].cred = SignerOf(page[p].op.sig)
    <3>1. Busy(p) /\ page[p].pc \in {"reveal", "done"}
      BY DEF WalletInv, PagesOK, PageOK, Busy
    <3> QED
      BY <3>1 DEF WalletInv, PagesOK, PageOK, Signed, Waiting
  <2>4. accounts[e.op.sender].signers[SignerOf(e.op.sig)] # NoCred
    BY DEF WalletInv, ContractInv, LedgerOK, EventOK
  <2> QED
    BY <2>1, <2>2, <2>3, <2>4
<1> QED
  BY <1>1, InitWalletInv, NextKeepsWalletInv, PTL DEF Spec

(* The picture a page shows is its own, or its call failed, or the wallet   *)
(* had another operation in the same block.                                 *)
THEOREM OwnPicture == Spec => []ShowsOwnPicture
<1>1. WalletInv => ShowsOwnPicture
  BY DEF WalletInv, ShowsOwnPicture, ShowsOwn, InBlock, Picture
<1> QED
  BY <1>1, InitWalletInv, NextKeepsWalletInv, PTL DEF Spec

(* A stored passkey that the wallet does not know is of use again only when  *)
(* a signer of the wallet adds one: nothing the page does rescues it.       *)
THEOREM OwnerRescues == Spec => OnlyOwnerRescues
<1>1. WalletInv /\ [Next]_vars =>
        [\A b \in Pages, l \in Logins :
           Stranded(b, l) /\ ~Stranded(b, l)' =>
             Cardinality(Additions(l)') > Cardinality(Additions(l))]_vars
  BY StepStranded
<1> QED
  BY <1>1, InitWalletInv, NextKeepsWalletInv, PTL DEF Spec, OnlyOwnerRescues
=============================================================================
