-------------------------- MODULE SignedOperations --------------------------
(***************************************************************************)
(* Signing by the client: modules/SignedOperations.ts, WalletLogin.ts,     *)
(* Signer.ts and lib/SignatureHelper.ts. A hash is the message it is of,   *)
(* in the domain it is for: messages that differ have different hashes.    *)
(***************************************************************************)
EXTENDS AccountOperation

CONSTANTS
  Networks,        (* network ids                                          *)
  Proxy,           (* the proxy's address on each network                  *)
  Wallet           (* how each owner's wallet answers eth_sign: "prefix",  *)
                   (* whether it prepends the message header, and "low",   *)
                   (* whether its v is 0 or 1 instead of 27 or 28          *)

(* A wallet that prepends the length in hexadecimal is served by none of   *)
(* the methods.                                                            *)
ASSUME PrefixAssumption ==
  \A owner \in Owners : Wallet[owner].prefix \in {"NO_PREPEND", "DECIMAL"}

(* The first byte of the type of a signature: what the wallet prepended.   *)
SIGNATURE_TYPES == {"NO_PREPEND", "DECIMAL", "HEXADECIMAL"}

-----------------------------------------------------------------------------
(* Domains and hashes *)

(* "contract" and "chainId" are the client's fields when it is asked.      *)
getDomainHash(chainId, contract) ==
  [name |-> "SignedOperationProxy", chainId |-> chainId, contract |-> contract]
LoginDomainHash(chainId) ==
  [name |-> "Dolomite", chainId |-> chainId, contract |-> ZERO]

getEIP712Hash(domain, type, struct) ==
  [domain |-> domain, type |-> type, struct |-> struct]

getAssetAmountHash(amount) == amount

getActionHash(a) ==
  [actionType |-> a.actionType, primary |-> a.primaryAccount,
   amount |-> getAssetAmountHash(a.amount),
   markets |-> <<a.primaryMarketId, a.secondaryMarketId>>,
   otherAddress |-> a.otherAddress, secondary |-> a.secondaryAccount, data |-> a.data]

getActionsHash(actions) == [i \in DOMAIN actions |-> getActionHash(actions[i])]

getOperationHash(domain, operation) ==
  getEIP712Hash(domain, "Operation",
    [actions |-> getActionsHash(operation.actions), header |-> operation.header])

operationHashToCancelOperationHash(domain, hash) ==
  getEIP712Hash(domain, "CancelOperation", hash)

getWalletLoginHash(chainId, expiration) ==
  getEIP712Hash(LoginDomainHash(chainId), "Login", expiration)

-----------------------------------------------------------------------------
(* Signatures *)

(* What a wallet returns for a hash: a signature over what it prepended to *)
(* the hash, with its own notion of v.                                     *)
EthSign(owner, hash) ==
  [over |-> <<Wallet[owner].prefix, hash>>, by |-> owner, low |-> Wallet[owner].low]

fixRawSignature(raw) == [raw EXCEPT !.low = FALSE]

createTypedSignature(raw, type) ==
  Over([type |-> type], fixRawSignature(raw))

(* Signing typed data: the wallet hashes the data itself, prepends         *)
(* nothing, and (assumed of wallets, for the code does not fix it) answers *)
(* 27 or 28.                                                               *)
ethSignTypedDataInternal(owner, hash) ==
  [type |-> "NO_PREPEND", over |-> <<"NO_PREPEND", hash>>, by |-> owner, low |-> FALSE]

(* Another address than any owner's comes out of a signature over          *)
(* something else; the client's library corrects v, the chain does not     *)
(* (see the proxy).                                                        *)
ecRecoverTypedSignature(hash, sig) ==
  IF sig.over = <<sig.type, hash>> THEN sig.by ELSE ZERO

HasValidSignature(hash, sig, signer) == ecRecoverTypedSignature(hash, sig) = signer

(* Mutant: Compatibility keeps the signature without a prefix when the one *)
(* with a prefix would be the valid one.                                   *)
MutantSignWith(owner, hash, method, valid) ==
  IF method \in {"TypedData", "MetaMask", "MetaMaskLatest", "CoinbaseWallet"}
  THEN ethSignTypedDataInternal(owner, hash)
  ELSE createTypedSignature(EthSign(owner, hash),
         IF method = "Hash" \/ (method = "Compatibility" /\ valid)
         THEN "DECIMAL" ELSE "NO_PREPEND")

(* The switch that the three signing functions share; "valid" is the check *)
(* Compatibility makes of a signature without a prefix.                    *)
SignWith(owner, hash, method, valid) ==
  IF method \in {"TypedData", "MetaMask", "MetaMaskLatest", "CoinbaseWallet"}
  THEN ethSignTypedDataInternal(owner, hash)
  ELSE createTypedSignature(EthSign(owner, hash),
         IF method = "UnsafeHash" \/ (method = "Compatibility" /\ valid)
         THEN "NO_PREPEND" ELSE "DECIMAL")

UnsafeSignature(owner, hash) ==
  createTypedSignature(EthSign(owner, hash), "NO_PREPEND")

signOperation(domain, operation, method) ==
  LET hash   == getOperationHash(domain, operation)
      signer == operation.header.signer
  IN  SignWith(signer, hash, method,
               HasValidSignature(hash, UnsafeSignature(signer, hash), signer))

signCancelOperationByHash(domain, hash, signer, method) ==
  LET cancelHash == operationHashToCancelOperationHash(domain, hash)
  IN  SignWith(signer, cancelHash, method,
               HasValidSignature(cancelHash, UnsafeSignature(signer, cancelHash), signer))

walletLoginIsValid(chainId, expiration, sig, signer, now) ==
  /\ HasValidSignature(getWalletLoginHash(chainId, expiration), sig, signer)
  /\ expiration > now

signLogin(chainId, expiration, signer, method, now) ==
  LET hash == getWalletLoginHash(chainId, expiration)
  IN  SignWith(signer, hash, method,
               walletLoginIsValid(chainId, expiration, UnsafeSignature(signer, hash),
                                  signer, now))

operationHasValidSignature(domain, signed) ==
  HasValidSignature(getOperationHash(domain, signed), signed.signature,
                    signed.header.signer)

cancelOperationByHashHasValidSignature(domain, hash, sig, signer) ==
  HasValidSignature(operationHashToCancelOperationHash(domain, hash), sig, signer)

-----------------------------------------------------------------------------
(* cancelOperation: the accounts and actions it sends. indexOf never finds *)
(* an account, which is a fresh object each time, so that every mention of *)
(* an account has a place of its own.                                      *)

CancelAccounts(actions) ==
  FlattenSeq([i \in DOMAIN actions |->
    IF actions[i].secondaryAccount.owner = ZERO THEN <<actions[i].primaryAccount>>
    ELSE <<actions[i].primaryAccount, actions[i].secondaryAccount>>])

(* The place of the primary account of action i.                           *)
CancelPlace(actions, i) == Len(CancelAccounts(SubSeq(actions, 1, i - 1)))

(* Mutant: the second account's place is the first one's.                  *)
MutantCancelArgs(actions) ==
  [i \in DOMAIN actions |->
    LET a == actions[i]
    IN  [actionType |-> a.actionType, amount |-> a.amount, data |-> a.data,
         otherAddress |-> a.otherAddress,
         accountId |-> CancelPlace(actions, i), otherAccountId |-> CancelPlace(actions, i),
         primaryMarketId |-> a.primaryMarketId, secondaryMarketId |-> a.secondaryMarketId]]

CancelArgs(actions) ==
  [i \in DOMAIN actions |->
    LET a == actions[i]
    IN  [actionType |-> a.actionType, amount |-> a.amount, data |-> a.data,
         otherAddress |-> a.otherAddress,
         accountId |-> CancelPlace(actions, i),
         otherAccountId |-> IF a.secondaryAccount.owner = ZERO THEN 0
                            ELSE CancelPlace(actions, i) + 1,
         primaryMarketId |-> a.primaryMarketId, secondaryMarketId |-> a.secondaryMarketId]]

cancelOperation(operation) ==
  [accounts |-> CancelAccounts(operation.actions), actions |-> CancelArgs(operation.actions),
   auth |-> [numActions |-> Len(operation.actions), header |-> operation.header,
             signature |-> <<>>]]
=============================================================================
