------------------------------ MODULE Wallets ------------------------------
(***************************************************************************)
(* Wallets, the master key and what is done with their secrets             *)
(* (server/src/services/wallet_manager.py, secret_vault.py,                *)
(* server/src/shared/crypto/fernet.py).                                    *)
(*                                                                         *)
(* Secrets are stored under one master key, which every process of the     *)
(* agent resolves for itself: a keyfile first, then the keychain of the    *)
(* operating system, which may be locked or out of reach; a caller that    *)
(* encrypts may make a new key when it finds neither.  A plaintext secret  *)
(* waits for its owner in the vault of the process, once and not for long. *)
(* What the signing guard refuses is no step: its conditions on the fields *)
(* of a transaction, an authorization or a sign-in are not modelled.       *)
(***************************************************************************)
EXTENDS Integers, FiniteSets

CONSTANTS
  Wallet,    \* addresses
  Procs,     \* processes on one agent-data directory
  MaxKeys,   \* master keys
  MaxTokens, \* vault tokens
  Ttl        \* lifetime of a vault entry, in ticks

None == 0
Key == 1..MaxKeys    \* numbered in the order they are persisted

VARIABLES
  keyfile,   \* the key in the keyfile, or None
  keychain,  \* external: the key of the keychain, and whether it can be read
  cache,     \* _master_key_cache of each process
  missed,    \* processes that looked for a key under the lock and found none
  keys,      \* keys made so far
  wallets,   \* the table of wallets
  vaults,    \* _entries of each process
  tokens,    \* tokens drawn so far
  signed,    \* what each wallet has signed
  swap,      \* the swap a person asked each process for
  trades     \* the trade log: what it says of each wallet's swaps

swapVars == <<swap, trades>>
vars == <<keyfile, keychain, cache, missed, keys, wallets, vaults, tokens, signed, swap, trades>>

-----------------------------------------------------------------------------
Absent == [chain |-> "none"]
NoSwap == [at |-> "idle"]

\* A keychain may hold the key of an earlier installation, with its wallets.
Init ==
  /\ keyfile = None /\ keychain \in [key : {None, 1}, open : BOOLEAN]
  /\ cache = [p \in Procs |-> None] /\ missed = {}
  /\ keys = keychain.key
  /\ wallets \in [Wallet -> {Absent} \cup
       IF keychain.key = None THEN {} ELSE [chain : {"evm"}, key : {1}, confirmed : BOOLEAN]]
  /\ vaults = [p \in Procs |-> {}] /\ tokens = 0
  /\ signed = [w \in Wallet |-> {}]
  /\ swap = [p \in Procs |-> NoSwap] /\ trades = {}

-----------------------------------------------------------------------------
(* The master key *)

\* What a process finds: its cache, the keyfile, the keychain if it can be read.
Found(p) ==
  IF cache[p] # None THEN cache[p]
  ELSE IF keyfile # None THEN keyfile
  ELSE IF keychain.open THEN keychain.key ELSE None

\* An existing key is used, and from then on the cached one.
UseKey(p, k) ==
  /\ p \notin missed /\ k # None /\ k = Found(p)
  /\ cache' = [cache EXCEPT ![p] = k]

\* A caller that may create finds no key ...
MissKey(p) ==
  /\ p \notin missed /\ Found(p) = None
  /\ missed' = missed \cup {p}
  /\ UNCHANGED <<keyfile, keychain, cache, keys, wallets, vaults, tokens, signed, swap, trades>>

\* ... and replaces the keyfile by a fresh one: the lock only holds in its process.
MakeKey(p) ==
  /\ p \in missed /\ keys < MaxKeys
  /\ keys' = keys + 1 /\ keyfile' = keys' /\ cache' = [cache EXCEPT ![p] = keys']
  /\ missed' = missed \ {p}
  /\ UNCHANGED <<keychain, wallets, vaults, tokens, signed, swap, trades>>

\* External: the keychain is locked, unlocked, or out of reach for a while.
KeychainTurns ==
  /\ keychain' = [keychain EXCEPT !.open = ~@]
  /\ UNCHANGED <<keyfile, cache, missed, keys, wallets, vaults, tokens, signed, swap, trades>>

-----------------------------------------------------------------------------
(* The vault *)

\* A new entry; the expired ones have been swept (Tick).
Stash(p, w) ==
  /\ tokens < MaxTokens /\ tokens' = tokens + 1
  /\ vaults' = [vaults EXCEPT ![p] = @ \cup {[token |-> tokens', secret |-> w, left |-> Ttl]}]

\* An entry is read once.
Take(p, e) == e \in vaults[p] /\ vaults' = [vaults EXCEPT ![p] = @ \ {e}]

RevealToken(p, e) ==
  /\ Take(p, e)
  /\ UNCHANGED <<keyfile, keychain, cache, missed, keys, wallets, tokens, signed, swap, trades>>

\* A secret typed at the terminal waits for an import.
StashExternal(p, w) ==
  /\ Stash(p, w)
  /\ UNCHANGED <<keyfile, keychain, cache, missed, keys, wallets, signed, swap, trades>>

\* Time passes for every entry.
Tick ==
  /\ vaults' = [p \in Procs |->
       {[e EXCEPT !.left = @ - 1] : e \in {x \in vaults[p] : x.left > 1}}]
  /\ UNCHANGED <<keyfile, keychain, cache, missed, keys, wallets, tokens, signed, swap, trades>>

-----------------------------------------------------------------------------
(* Wallets *)

\* The secret is encrypted and stored; its plaintext waits in the vault.
Create(p, w, chain, k) ==
  /\ wallets[w] = Absent /\ UseKey(p, k)
  /\ wallets' = [wallets EXCEPT ![w] = [chain |-> chain, key |-> k, confirmed |-> FALSE]]
  /\ Stash(p, w)
  /\ UNCHANGED <<keyfile, keychain, missed, keys, signed, swap, trades>>

\* The entry is consumed first; whoever imports a secret holds a copy of it.  An
\* address that is stored already only has its key looked up, and one stored for
\* another chain is refused.
Import(p, e, chain) ==
  /\ Take(p, e)
  /\ LET w == e.secret IN
     \/ /\ wallets[w] = Absent
        /\ \E k \in Key :
             /\ UseKey(p, k)
             /\ wallets' = [wallets EXCEPT ![w] = [chain |-> chain, key |-> k, confirmed |-> TRUE]]
     \/ wallets[w].chain = chain /\ (\E k \in Key : UseKey(p, k)) /\ UNCHANGED wallets
     \/ wallets[w].chain \notin {"none", chain} /\ UNCHANGED <<wallets, cache>>
  /\ UNCHANGED <<keyfile, keychain, missed, keys, tokens, signed, swap, trades>>

ConfirmBackup(w) ==
  /\ wallets[w] # Absent
  /\ wallets' = [wallets EXCEPT ![w].confirmed = TRUE]
  /\ UNCHANGED <<keyfile, keychain, cache, missed, keys, vaults, tokens, signed, swap, trades>>

\* A secret can be read under the key it was stored with, and only an existing
\* key is looked for.
LoadSecret(p, w) == wallets[w] # Absent /\ UseKey(p, wallets[w].key)

RevealSecret(p, w) ==
  /\ LoadSecret(p, w)
  /\ UNCHANGED <<keyfile, keychain, missed, keys, wallets, vaults, tokens, signed, swap, trades>>

\* Under another key the secret cannot be read, but that key is cached.
WrongKey(p, w) ==
  /\ wallets[w] # Absent /\ wallets[w].key # Found(p) /\ UseKey(p, Found(p))
  /\ UNCHANGED <<keyfile, keychain, missed, keys, wallets, vaults, tokens, signed, swap, trades>>

-----------------------------------------------------------------------------
(* Signing *)

\* What a signature leaves behind: its kind, and whether a backup was confirmed.
Record(w, kind) ==
  signed' = [signed EXCEPT ![w] = @ \cup {[kind |-> kind, confirmed |-> wallets[w].confirmed]}]

Signed(p, w, kind) ==
  /\ LoadSecret(p, w) /\ Record(w, kind)
  /\ UNCHANGED <<keyfile, keychain, missed, keys, wallets, vaults, tokens>>

\* Swaps and payments leave the check of the backup to their callers, who make it.
Sign(p, w) ==
  /\ wallets[w] # Absent /\ wallets[w].confirmed /\ wallets[w].chain = "evm"
  /\ Signed(p, w, "swap")

SignPayment(p, w) ==
  /\ wallets[w] # Absent /\ wallets[w].confirmed /\ wallets[w].chain = "evm"
  /\ Signed(p, w, "payment") /\ UNCHANGED swapVars

\* A sign-in proves identity only and needs no backup.
SignSiwx(p, w) ==
  /\ wallets[w] # Absent /\ wallets[w].chain = "evm"
  /\ Signed(p, w, "siwx") /\ UNCHANGED swapVars

\* A marketplace proof checks the backup itself; MarketplaceApproval says when.
SignProof(p, w) ==
  /\ wallets[w] # Absent /\ wallets[w].confirmed
  /\ Signed(p, w, "proof") /\ UNCHANGED swapVars

-----------------------------------------------------------------------------
(* A swap a person asked for and confirmed; those of a strategy are DexOrders.  *)
(* It is one call, and nothing of it is stored before it ends.                  *)

Swapping(p, w, at) == swap' = [swap EXCEPT ![p] = [at |-> at, wallet |-> w]]

\* The approval is signed and broadcast; the swap waits for it to be mined.
HandleApproval(p, w) ==
  /\ swap[p].at = "idle"
  /\ Sign(p, w) /\ Swapping(p, w, "approval") /\ UNCHANGED trades

\* The swap is signed and broadcast, at once if the router may already spend.
LiveSwap(p, w) ==
  /\ swap[p].at = "idle" \/ swap[p] = [at |-> "approval", wallet |-> w]
  /\ Sign(p, w) /\ Swapping(p, w, "sent") /\ UNCHANGED trades

\* The poll ended: a swap that is not mined in a minute is logged as pending.
LogTrade(p) ==
  /\ swap[p].at = "sent"
  /\ \E status \in {"confirmed", "failed", "pending"} :
       trades' = trades \cup {[wallet |-> swap[p].wallet, status |-> status]}
  /\ swap' = [swap EXCEPT ![p] = NoSwap]
  /\ UNCHANGED <<keyfile, keychain, cache, missed, keys, wallets, vaults, tokens, signed>>

\* A request or the poll fails: whatever was broadcast has no trade.
SwapFails(p) ==
  /\ swap[p].at # "idle"
  /\ swap' = [swap EXCEPT ![p] = NoSwap]
  /\ UNCHANGED <<keyfile, keychain, cache, missed, keys, wallets, vaults, tokens, signed, trades>>

-----------------------------------------------------------------------------
\* A process restarts: its cache, its vault and its swap are gone.
Restart(p) ==
  /\ cache' = [cache EXCEPT ![p] = None] /\ vaults' = [vaults EXCEPT ![p] = {}]
  /\ missed' = missed \ {p} /\ swap' = [swap EXCEPT ![p] = NoSwap]
  /\ UNCHANGED <<keyfile, keychain, keys, wallets, tokens, signed, trades>>

Next ==
  \/ \E p \in Procs :
       \/ MissKey(p) \/ MakeKey(p) \/ Restart(p) \/ LogTrade(p) \/ SwapFails(p)
       \/ \E e \in vaults[p] :
            RevealToken(p, e) \/ \E chain \in {"evm", "xrpl"} : Import(p, e, chain)
       \/ \E w \in Wallet :
            \/ \E chain \in {"evm", "xrpl"}, k \in Key : Create(p, w, chain, k)
            \/ StashExternal(p, w) \/ RevealSecret(p, w) \/ WrongKey(p, w)
            \/ HandleApproval(p, w) \/ LiveSwap(p, w)
            \/ SignPayment(p, w) \/ SignSiwx(p, w) \/ SignProof(p, w)
  \/ \E w \in Wallet : ConfirmBackup(w)
  \/ KeychainTurns \/ Tick

Spec == Init /\ [][Next]_vars

-----------------------------------------------------------------------------
(* Properties *)

\* "Once a master key has been written somewhere persistent (keyfile or keychain),
\* future calls return THAT key, never a new one" (fernet.py:25): no process ever
\* works under another key than the first.
KeyNeverReplaced == \A p \in Procs : cache[p] \in {None, 1}

=============================================================================
