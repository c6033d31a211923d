------------------------------- MODULE Vault --------------------------------
(***************************************************************************)
(* The SugarVault: one SQLite file, written by two programs. The vault     *)
(* worker (workers/vault) unlocks it with a master password, checked       *)
(* against a canary, and stores and retrieves keys; the command line tool  *)
(* (tui/tui/src/cli.py) opens the same file with a password of its own,    *)
(* adds keys, deactivates them and lists them; the TUI (app.py) shows the  *)
(* rows it read last. A row's place in vaultRows is its rowid and its id.  *)
(*                                                                         *)
(* Encryption is abstract: a payload opens under the key it was made with, *)
(* and a key is a password with a salt. A salt is the number of the row it *)
(* is made for (0 for the canary), as os.urandom never repeats one.        *)
(***************************************************************************)
EXTENDS Naturals, Sequences

CONSTANTS
  Passwords,    \* master passwords that may be given, right or wrong
  Providers,    \* provider ids
  Secrets,      \* API keys
  Empty,        \* the empty string: a missing option or environment variable
  MaxRows       \* bound on the number of rows

(* "none" is what a listing shows where it shows no key: no key is that.   *)
ASSUME VaultAssumption ==
  /\ Empty \notin Passwords \cup Providers \cup Secrets
  /\ Secrets # {} /\ "none" \notin Secrets \cup {Empty}
  /\ MaxRows \in Nat

VARIABLES
  vaultRows,    \* table sugar_vault, in the order of rowid
  vaultCanary,  \* vault_meta's password_canary: no payload or one
  vaultOpen,    \* the worker's password while it is unlocked, or Empty
  paneRows      \* what the TUI's table shows: an earlier vaultRows

vaultVars == <<vaultRows, vaultCanary, vaultOpen, paneRows>>

(* crypto.py *)
derive_key(password, salt) == [password |-> password, salt |-> salt]

encrypt(plaintext, password, nonce) ==
  LET key == derive_key(password, nonce)
  IN  [salt |-> nonce, auth_tag |-> key, ciphertext |-> plaintext]

payload_to_bytes(payload) == <<payload.salt, payload.auth_tag, payload.ciphertext>>

bytes_to_payload(data) ==
  [salt |-> data[1], auth_tag |-> data[2], ciphertext |-> data[3]]

(* The plaintext, or Empty where the code raises. *)
decrypt(payload, password) ==
  IF payload.auth_tag = derive_key(password, payload.salt)
  THEN payload.ciphertext
  ELSE Empty

Opens(blob, password) == decrypt(bytes_to_payload(blob), password)

Salt == 0 .. MaxRows
Blob == {payload_to_bytes(encrypt(text, pw, salt)) :
           text \in Secrets, pw \in Passwords, salt \in Salt}
VaultRow == [provider_id : Providers, encrypted_payload : Blob,
             is_active : BOOLEAN, by : {"worker", "cli"}]

VaultTypeOK ==
  /\ vaultRows \in Seq(VaultRow)
  /\ vaultCanary \in {<<>>} \cup Blob
  /\ vaultOpen \in Passwords \cup {Empty}
  /\ paneRows \in Seq(VaultRow)

VaultInit ==
  /\ vaultRows = <<>> /\ vaultCanary = <<>>
  /\ vaultOpen = Empty /\ paneRows = <<>>

(* SugarVaultDB: INSERT, SELECT and UPDATE on the table. store_key takes   *)
(* the plaintext, whose payload both callers make just before.             *)
store_key(provider, text, password, by) ==
  /\ Len(vaultRows) < MaxRows
  /\ vaultRows' = Append(vaultRows,
       [provider_id |-> provider,
        encrypted_payload |-> payload_to_bytes(encrypt(text, password, Len(vaultRows) + 1)),
        is_active |-> TRUE, by |-> by])

ActiveIds(rows, provider) ==
  {i \in DOMAIN rows : rows[i].provider_id = provider /\ rows[i].is_active}

(* The same mistake in get_key. *)
MutOldestKey(rows, provider) ==
  LET ids == ActiveIds(rows, provider)
  IN  IF ids = {} THEN 0 ELSE CHOOSE i \in ids : \A j \in ids : i <= j

(* The rowid of the newest active row of a provider; 0 if there is none. *)
get_key(rows, provider) ==
  LET ids == ActiveIds(rows, provider)
  IN  IF ids = {} THEN 0 ELSE CHOOSE i \in ids : \A j \in ids : j <= i

get_key_by_id(rows, id) == id \in DOMAIN rows

(* ORDER BY rowid without DESC. *)
MutOldestFirst(rows) == [k \in DOMAIN rows |-> k]

(* get_all_keys: newest first. *)
get_all_keys(rows) == [k \in DOMAIN rows |-> Len(rows) + 1 - k]

deactivate_key(id) == vaultRows' = [vaultRows EXCEPT ![id].is_active = FALSE]

(* cli.py keys_add: the password is the option's or the environment's; it  *)
(* is not compared with the canary.                                        *)
keys_add(provider, key, password) ==
  /\ provider # Empty
  /\ key # Empty
  /\ password # Empty
  /\ store_key(provider, key, password, "cli")
  /\ UNCHANGED <<vaultCanary, vaultOpen, paneRows>>

keys_remove(id) ==
  /\ get_key_by_id(vaultRows, id)
  /\ deactivate_key(id)
  /\ UNCHANGED <<vaultCanary, vaultOpen, paneRows>>

(* keys_list --decrypt: for every row, newest first, its id and what is    *)
(* shown: "none" for inactive rows and without a password, Empty for       *)
(* "[decryption failed]".                                                  *)
keys_list(password) ==
  [k \in DOMAIN vaultRows |->
     LET id == get_all_keys(vaultRows)[k]
         row == vaultRows[id]
     IN  [id |-> id,
          key |-> IF row.is_active /\ password # Empty
                  THEN Opens(row.encrypted_payload, password)
                  ELSE "none"]]

(* app.py: the TUI reads the table when it is mounted and when r is hit.   *)
refresh_keys ==
  /\ paneRows' = vaultRows
  /\ UNCHANGED <<vaultRows, vaultCanary, vaultOpen>>

(* The worker starts (getOrCreateVault): unlock checks the canary if there *)
(* is one, and a new canary is stored at once.                             *)
MutVerifies(password) == TRUE

Verifies(password) == vaultCanary # <<>> => Opens(vaultCanary, password) # Empty

WorkerUnlocks(password) ==
  /\ vaultOpen = Empty
  /\ Verifies(password)
  /\ vaultOpen' = password
  /\ vaultCanary' = payload_to_bytes(encrypt(CHOOSE s \in Secrets : TRUE, password, 0))
  /\ UNCHANGED <<vaultRows, paneRows>>

(* vault::lock, SIGTERM or a crash: only the file stays. *)
WorkerLocks ==
  /\ vaultOpen # Empty
  /\ vaultOpen' = Empty
  /\ UNCHANGED <<vaultRows, vaultCanary, paneRows>>

WorkerStores(provider, key) ==
  /\ vaultOpen # Empty
  /\ provider # Empty
  /\ key # Empty
  /\ store_key(provider, key, vaultOpen, "worker")
  /\ UNCHANGED <<vaultCanary, vaultOpen, paneRows>>

(* vault::retrieve: the key, or Empty for not found and decrypt failed. *)
Retrieve(provider) ==
  LET id == get_key(vaultRows, provider)
  IN  IF id = 0 THEN Empty ELSE Opens(vaultRows[id].encrypted_payload, vaultOpen)

VaultNext ==
  \/ \E p \in Providers \cup {Empty}, s \in Secrets \cup {Empty} :
       \/ \E pw \in Passwords \cup {Empty} : keys_add(p, s, pw)
       \/ WorkerStores(p, s)
  \/ \E id \in 1 .. MaxRows : keys_remove(id)
  \/ refresh_keys
  \/ \E pw \in Passwords : WorkerUnlocks(pw)
  \/ WorkerLocks

VaultSpec == VaultInit /\ [][VaultNext]_vaultVars
-----------------------------------------------------------------------------
(* Whoever can unlock the vault can read every key a vault worker stored,  *)
(* whatever was unlocked, locked and added by the tool in between: unlock  *)
(* accepts no password but the canary's (vault.ts:31-36), although it      *)
(* writes the canary anew each time.                                       *)
WorkerKeysOpen ==
  \A pw \in Passwords :
    (vaultCanary # <<>> /\ Verifies(pw)) =>
      \A i \in DOMAIN vaultRows :
        vaultRows[i].by = "worker" => Opens(vaultRows[i].encrypted_payload, pw) # Empty

(* The tool and the worker agree on what a provider's key is: the first    *)
(* active row of the listing, under the worker's password, is what         *)
(* vault::retrieve answers (cli.py:117-151, vault.ts:66-86). The TUI's     *)
(* table (app.py:70-84) may lag, but only by showing a removed row as      *)
(* active or by missing the newest rows: what it shows keeps its id.       *)
ReadersAgree ==
  /\ vaultOpen # Empty =>
       \A p \in Providers :
         LET shown == keys_list(vaultOpen)
             mine == {k \in DOMAIN shown : /\ vaultRows[shown[k].id].provider_id = p
                                           /\ shown[k].key # "none"}
         IN  IF mine = {} THEN Retrieve(p) = Empty
             ELSE \E k \in mine : /\ \A j \in mine : k <= j
                                  /\ shown[k].key = Retrieve(p)
  /\ \A i \in DOMAIN paneRows :
       /\ i \in DOMAIN vaultRows
       /\ paneRows[i] \in {vaultRows[i], [vaultRows[i] EXCEPT !.is_active = TRUE]}

(* The key in use changes only to a new row of that provider, or, when the *)
(* row in use is removed, back to an older one that was never removed: no  *)
(* operation on one provider touches another's key, and a removed key      *)
(* never comes back (db.py:75-84, 104-106).                                *)
KeyInUseMoves ==
  [][\A p \in Providers :
       LET before == get_key(vaultRows, p)
           after == get_key(vaultRows', p)
       IN  after # before =>
             \/ after = Len(vaultRows) + 1
             \/ /\ after < before
                /\ ~vaultRows'[before].is_active
                /\ \A i \in DOMAIN vaultRows \ {before} : vaultRows'[i] = vaultRows[i]
                /\ after # 0 => vaultRows[after].is_active]_vaultVars
=============================================================================
