--------------------------- MODULE FieldEncryption ---------------------------
(***************************************************************************)
(* Encrypted columns and the rotation of their keys: FernetCipher          *)
(* (crypto/fernet.py), the column types of the adapters that call it       *)
(* (adapters/django/fields.py, adapters/fastapi/fields.py), and the        *)
(* runbook of docs/key-rotation.md carried out on a service that is in     *)
(* use.  One worker of RequestPath serves requests that store and load     *)
(* columns; other processes and the re-encryption job use the same rows.   *)
(*                                                                         *)
(* A token is the key it was written under: what it protects plays no part *)
(* in who can read it.  The key ring of a process is cached, so a process  *)
(* has the configuration it was started with.                              *)
(***************************************************************************)
EXTENDS RequestPath

CONSTANTS Pods,        \* the processes of the service
          Own,         \* the one that the worker of RequestPath runs in
          Rows,        \* rows with an encrypted column
          Environment, \* settings.crypto.environment
          Passphrases, \* key sources that are not Fernet keys
          Runbook,     \* the configurations deployed one after another
          NoKeySet     \* field_encryption_key unset

ASSUME FieldAssumption ==
  /\ Own \in Pods
  /\ Environment \in {"prod", "dev", "test"}
  /\ Runbook # <<>>

VARIABLES config,  \* the configuration in force: an index into Runbook
          ring,    \* per process: the configuration _fernet() was built from
          secret,  \* per row: the key of its token, or Empty
          todo,    \* rows the job has still to re-encrypt
          token    \* the row the job has read, and what it read there

field_vars == <<config, ring, secret, todo, token>>
rotation_vars == <<vars, field_vars>>

\* NULL and "" are stored and loaded as they are.
Empty == "empty"
DevKey == "dev fallback"
NothingRead == <<>>

-----------------------------------------------------------------------------
\* FernetCipher.

\* A passphrase stands for the key that is derived from it.
KeyOf(source) == IF source \in Passphrases THEN <<"sha256", source>> ELSE <<"fernet", source>>

\* ordered_keys: the list, primary first, or the deprecated single key.
OrderedKeys(c) ==
  IF c.keys # <<>> THEN c.keys
  ELSE IF c.key # NoKeySet THEN <<c.key>>
  ELSE <<>>

\* The keys of a configuration, or none: then _fernet() raises
\* EncryptionConfigError.
KeysOf(i) ==
  LET sources == OrderedKeys(Runbook[i])
  IN IF sources = <<>> /\ Environment # "prod"
     THEN <<KeyOf(DevKey)>>
     ELSE [n \in DOMAIN sources |-> KeyOf(sources[n])]

Keys(p) == KeysOf(ring[p])

Configured(p) == Keys(p) # <<>>

\* Fault: the single key goes on to encrypt after the list has been set.
Encrypt_SingleKey(p) ==
  LET c == Runbook[ring[p]]
  IN IF c.key # NoKeySet THEN KeyOf(c.key) ELSE Head(Keys(p))

\* encrypt() uses the first key, decrypt() tries each of them.
Encrypt(p) == Head(Keys(p))
Decryptable(p, t) == t = Empty \/ \E i \in DOMAIN Keys(p) : Keys(p)[i] = t
Rotate(p, t) == IF t = Empty THEN Empty ELSE Encrypt(p)

\* A configuration with an old key beside the new one is followed by the job
\* that re-encrypts all rows.
Rotates(i) == Len(Runbook[i].keys) > 1

KeySet(i) == {KeysOf(i)[n] : n \in DOMAIN KeysOf(i)}

\* The runbook never drops a key, except after the job, and then not the
\* primary one.
ASSUME RunbookAssumption ==
  /\ Runbook \in Seq({Runbook[i] : i \in DOMAIN Runbook})
  /\ \A i \in DOMAIN Runbook : KeysOf(i) # <<>> => 1 \in DOMAIN KeysOf(i)
  /\ \A i \in 1 .. Len(Runbook) - 1 :
       \/ KeySet(i) \subseteq KeySet(i + 1)
       \/ Rotates(i) /\ Head(KeysOf(i)) \in KeySet(i + 1)

-----------------------------------------------------------------------------
\* Requests that use the columns.

FieldInit ==
  /\ Init
  /\ config = 1
  /\ ring = [p \in Pods |-> 1]
  /\ secret = [r \in Rows |-> Empty]
  /\ todo = {}
  /\ token = NothingRead

Write(r, t) == secret' = [secret EXCEPT ![r] = t]

\* A process stores a column, the empty value or another.
Store(p, r) ==
  /\ \/ Write(r, Empty)
     \/ Configured(p) /\ Write(r, Encrypt(p))
  /\ UNCHANGED <<vars, config, ring, todo, token>>

\* So does the worker's handler.
StoreOwn(r) == at = "app" /\ Store(Own, r)

\* Without a key the cipher refuses to work, and a token of a key that is
\* not listed cannot be read; both end the request like any error of the kit.
StoreFails ==
  /\ at = "app"
  /\ ~Configured(Own)
  /\ Raise("EncryptionConfigError", 0)
  /\ Emit("failure")
  /\ UNCHANGED field_vars

LoadFails(r) ==
  /\ at = "app"
  /\ secret[r] # Empty
  /\ ~Decryptable(Own, secret[r])
  /\ Raise(IF Configured(Own) THEN "DecryptionError" ELSE "EncryptionConfigError", 0)
  /\ Emit("failure")
  /\ UNCHANGED field_vars

\* Everything else a request does; errors of the cipher come from above only.
Serve ==
  /\ Next
  /\ at # "idle" => raised' \notin {"DecryptionError", "EncryptionConfigError"}
  /\ UNCHANGED field_vars

-----------------------------------------------------------------------------
\* The runbook.

\* The current configuration has reached every process.
Deployed == \A p \in Pods : ring[p] = config

\* A process is restarted, the worker's between two requests.
Restart(p) ==
  /\ ring[p] # config
  /\ p = Own => at = "idle"
  /\ ring' = [ring EXCEPT ![p] = config]
  /\ UNCHANGED <<vars, config, secret, todo, token>>

\* The next configuration: after the last one is deployed and, if it made the
\* rotation necessary, after the job has been through all rows.
Deploy ==
  /\ Deployed
  /\ config < Len(Runbook)
  /\ todo = {}
  /\ config' = config + 1
  /\ todo' = IF Rotates(config + 1) THEN Rows ELSE {}
  /\ UNCHANGED <<vars, ring, secret, token>>

\* The job reads a token, and writes it back re-encrypted.  It runs in a
\* process of its own once the configuration is deployed, and starts again
\* from the first row if it is interrupted.
ReadToken(r) ==
  /\ Deployed
  /\ r \in todo
  /\ token = NothingRead
  /\ Decryptable(Own, secret[r])
  /\ token' = <<r, secret[r]>>
  /\ UNCHANGED <<vars, config, ring, secret, todo>>

WriteToken ==
  /\ token # NothingRead
  /\ Write(token[1], Rotate(Own, token[2]))
  /\ todo' = todo \ {token[1]}
  /\ token' = NothingRead
  /\ UNCHANGED <<vars, config, ring>>

JobInterrupted ==
  /\ todo # {}
  /\ todo' = Rows
  /\ token' = NothingRead
  /\ UNCHANGED <<vars, config, ring, secret>>

FieldNext ==
  \/ Serve
  \/ \E r \in Rows : StoreOwn(r) \/ LoadFails(r) \/ ReadToken(r)
  \/ \E p \in Pods \ {Own}, r \in Rows : Store(p, r)
  \/ \E p \in Pods : Restart(p)
  \/ StoreFails \/ Deploy \/ WriteToken \/ JobInterrupted

FieldSpec == FieldInit /\ [][FieldNext]_rotation_vars

-----------------------------------------------------------------------------
\* Properties.

\* No key is dropped while somebody needs it: whatever the order in which
\* processes restart, requests write and the job is interrupted, a process
\* with the current keys can read every row.  Only one that has not been
\* restarted yet may fail, and only on what was written since under a new
\* primary key: the runbook's "zero downtime" is less than it says there.
RotationKeepsData ==
  \A p \in Pods, r \in Rows :
    ~Decryptable(p, secret[r]) =>
      \E q \in Pods : ring[p] < ring[q] /\ secret[r] = Encrypt(q)
=============================================================================
