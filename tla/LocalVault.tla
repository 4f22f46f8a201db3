----------------------------- MODULE LocalVault -----------------------------
(***************************************************************************)
(* LocalSecrets (secrets/ayuna_secrets/local.py): processes that keep one  *)
(* YAML file of secrets.  A session reads the file once, when it opens, and*)
(* rewrites all of it from its memory at every change: open(path, "w")     *)
(* empties the file, and the dump fills it again.                          *)
(*                                                                         *)
(* A stored value is the pair of the secret and of the key it is encrypted *)
(* under.  A key is derived from a password and a salt, which the file     *)
(* holds; a raw Fernet key needs no salt.                                  *)
(***************************************************************************)
EXTENDS BaseSecrets

CONSTANTS
  Passwords,     \* the encryption keys they may be configured with
  RawKeys,       \* those of them that are Fernet keys already
  NoPassword,    \* encryption_key = None
  Salts, NoSalt, \* bound: the salts that os.urandom may return
  Modes          \* the values of encrypt_values_only

\* The key of what is not encrypted.
Plain == <<NoPassword, NoSalt>>

ASSUME VaultAssumption ==
  /\ RawKeys \subseteq Passwords /\ NoPassword \notin Passwords /\ NoSalt \notin Salts
  /\ Modes \subseteq BOOLEAN

VARIABLES
  file,     \* the file: Absent, Garbled, or its salt and its entries
  at,       \* where each session is
  secrets,  \* _secrets
  fernet,   \* _fernet: the key it encrypts with, or Plain for None
  salt,     \* _pbkdf2_salt
  config,   \* the configuration of each session
  writer,   \* the session that was the last to empty or fill the file
  synced    \* its save has succeeded, over an empty file, and none has failed since

localVars == <<file, at, secrets, fernet, salt, config, writer, synced>>

Absent == [state |-> "absent", salt |-> NoSalt, entries |-> <<>>]
Garbled == [state |-> "garbled", salt |-> NoSalt, entries |-> <<>>]
Contents(s, entries) == [state |-> "read", salt |-> s, entries |-> entries]

\* yaml.safe_load(file) or {}: an empty file is an empty vault.
Blank == Contents(NoSalt, <<>>)

Nobody == "nobody"

FernetKeys == (Passwords \X (Salts \cup {NoSalt})) \cup {Plain}
Cells == [key : FernetKeys, value : Values]
Entries == UNION {[ks -> Cells] : ks \in SUBSET Keys}
Configs == [password : Passwords \cup {NoPassword}, valuesOnly : Modes]

LocalTypeOK ==
  /\ file \in {Absent, Garbled} \cup
              [state : {"read"}, salt : Salts \cup {NoSalt}, entries : Entries]
  /\ at \in [Sessions -> {"closed", "open", "save", "dump"}]
  /\ secrets \in [Sessions -> Entries]
  /\ fernet \in [Sessions -> FernetKeys]
  /\ salt = [s \in Sessions |-> fernet[s][2]]
  /\ config \in [Sessions -> Configs]
  /\ writer \in Sessions \cup {Nobody} /\ synced \in BOOLEAN

LocalInit ==
  /\ file = Absent
  /\ at = [s \in Sessions |-> "closed"]
  /\ secrets = [s \in Sessions |-> <<>>]
  /\ fernet = [s \in Sessions |-> Plain]
  /\ salt = [s \in Sessions |-> NoSalt]
  /\ config \in [Sessions -> Configs]
  /\ writer = Nobody /\ synced = FALSE

-----------------------------------------------------------------------------
\* The salts in use: os.urandom returns none of them again.
Used == {file.salt} \cup {salt[s] : s \in Sessions}
          \cup UNION {{f[k].key[2] : k \in DOMAIN f} :
                       f \in {file.entries} \cup {secrets[s] : s \in Sessions}}

\* A password whose salt the file does not hold is always given a new salt,
\* even if it holds one.
FernetFreshSalt(password, stored) ==
  IF password = NoPassword THEN {<<Plain, NoSalt>>}
  ELSE IF password \in RawKeys THEN {<<<<password, NoSalt>>, NoSalt>>}
  ELSE {<<<<password, s>>, s>> : s \in Salts \ Used}

\* The salt a key is derived from is not kept for the next save.
FernetForgetsSalt(password, stored) ==
  IF password = NoPassword THEN {<<Plain, NoSalt>>}
  ELSE IF password \in RawKeys THEN {<<<<password, NoSalt>>, NoSalt>>}
  ELSE {<<<<password, s>>, NoSalt>> : s \in IF stored # NoSalt THEN {stored} ELSE Salts \ Used}

\* _create_fernet: the cipher and the _pbkdf2_salt it leaves.
Fernet(password, stored) ==
  IF password = NoPassword THEN {<<Plain, NoSalt>>}
  ELSE IF password \in RawKeys THEN {<<<<password, NoSalt>>, NoSalt>>}
  ELSE {<<<<password, s>>, s>> : s \in IF stored # NoSalt THEN {stored} ELSE Salts \ Used}

\* _load_secrets decrypts what has the ENC: prefix, if it has a cipher and is
\* to encrypt values; one value under another key refuses the whole vault.
Encrypts(key, mode) == key # Plain /\ mode
Readable(entries, key, mode) ==
  Encrypts(key, mode) => \A k \in DOMAIN entries : entries[k].key \in {Plain, key}
Loaded(entries, key, mode) ==
  IF Encrypts(key, mode)
  THEN [k \in DOMAIN entries |-> [entries[k] EXCEPT !.key = Plain]] ELSE entries

Open(s) ==
  /\ at[s] = "closed"
  /\ file.state # "garbled"
  /\ \E c \in Fernet(config[s].password, file.salt) :
       /\ Readable(file.entries, c[1], config[s].valuesOnly)
       /\ secrets' = [secrets EXCEPT ![s] = Loaded(file.entries, c[1], config[s].valuesOnly)]
       /\ fernet' = [fernet EXCEPT ![s] = c[1]]
       /\ salt' = [salt EXCEPT ![s] = c[2]]
  /\ at' = [at EXCEPT ![s] = "open"]
  /\ UNCHANGED <<file, config, writer, synced>>

-----------------------------------------------------------------------------
\* store_secret: memory first, then the file.
Store(s, k, v, replace) ==
  /\ at[s] = "open"
  /\ replace \/ k \notin DOMAIN secrets[s]
  /\ secrets' = [secrets EXCEPT ![s] = [j \in DOMAIN @ \cup {k} |->
                    IF j = k THEN [key |-> Plain, value |-> v] ELSE @[j]]]
  /\ at' = [at EXCEPT ![s] = "save"]
  /\ UNCHANGED <<file, fernet, salt, config, writer, synced>>

\* delete_secret
Delete(s, k) ==
  /\ at[s] = "open"
  /\ k \in DOMAIN secrets[s]
  /\ secrets' = [secrets EXCEPT ![s] = [j \in DOMAIN @ \ {k} |-> @[j]]]
  /\ at' = [at EXCEPT ![s] = "save"]
  /\ UNCHANGED <<file, fernet, salt, config, writer, synced>>

\* _save_secrets encodes what is in memory ...
Encoded(s) ==
  IF Encrypts(fernet[s], config[s].valuesOnly)
  THEN [k \in DOMAIN secrets[s] |-> [secrets[s][k] EXCEPT !.key = fernet[s]]]
  ELSE secrets[s]

\* ... opens the file for writing, which empties it ...
Truncate(s) ==
  /\ at[s] = "save"
  /\ at' = [at EXCEPT ![s] = "dump"]
  /\ file' = Blank
  /\ writer' = s /\ synced' = FALSE
  /\ UNCHANGED <<secrets, fernet, salt, config>>

\* The failure of a write is not seen: the entries count as saved.
DumpBlind(s) ==
  /\ at[s] = "dump"
  /\ at' = [at EXCEPT ![s] = "open"]
  /\ \/ file' = Contents(salt[s], Encoded(s))
     \/ ("io" \in Faults \/ file # Blank) /\ file' = Garbled
  /\ writer' = s /\ synced' = (file = Blank)
  /\ UNCHANGED <<secrets, fernet, salt, config>>

\* ... and writes the entries and the salt, if this session has one: over what
\* another session has written since the file was emptied, if one has.
Dump(s) ==
  /\ at[s] = "dump"
  /\ at' = [at EXCEPT ![s] = "open"]
  /\ \/ file' = Contents(salt[s], Encoded(s))
     \/ file # Blank /\ file' = Garbled
  /\ writer' = s /\ synced' = (file = Blank)
  /\ UNCHANGED <<secrets, fernet, salt, config>>

\* What a dump that stops midway may leave: the file as it is, a text that is no YAML, or
\* one that happens to be, with some of the entries, and the salt if it came to that.
Cut(s) ==
  {file, Garbled} \cup
    {Contents(t, [k \in ks |-> Encoded(s)[k]]) :
       t \in {NoSalt, salt[s]}, ks \in IF file = Blank THEN SUBSET DOMAIN secrets[s] ELSE {}}

\* OSError, from open() or from the writes: the caller is told, and the session
\* goes on with a memory the file does not have.
SaveFails(s) ==
  /\ "io" \in Faults
  /\ at[s] \in {"save", "dump"}
  /\ at' = [at EXCEPT ![s] = "open"]
  /\ IF at[s] = "dump"
     THEN file' \in Cut(s) /\ writer' = s /\ synced' = FALSE
     ELSE UNCHANGED <<file, writer>> /\ synced' = (synced /\ writer # s)
  /\ UNCHANGED <<secrets, fernet, salt, config>>

\* The process ends: in order, or at any point of a save, a dump only partly written.
End(s) ==
  /\ at[s] = "open" \/ ("crash" \in Faults /\ at[s] # "closed")
  /\ \/ UNCHANGED <<file, writer, synced>>
     \/ /\ at[s] = "dump"
        /\ file' \in Cut(s) /\ writer' = s /\ synced' = FALSE
  /\ at' = [at EXCEPT ![s] = "closed"]
  /\ secrets' = [secrets EXCEPT ![s] = <<>>]
  /\ fernet' = [fernet EXCEPT ![s] = Plain]
  /\ salt' = [salt EXCEPT ![s] = NoSalt]
  /\ UNCHANGED config

LocalStep(s) ==
  \/ Open(s)
  \/ \E k \in Keys, v \in Values, replace \in BOOLEAN : Store(s, k, v, replace)
  \/ \E k \in Keys : Delete(s, k)
  \/ Truncate(s) \/ Dump(s) \/ SaveFails(s) \/ End(s)

-----------------------------------------------------------------------------
\* What a session of the same configuration would read of the file.
Reads(s) == Loaded(file.entries, fernet[s], config[s].valuesOnly)

\* A save that succeeded shows: a session that was the last to write the file,
\* and has not failed to since, would read back what it has in memory,
\* whatever crashes, failures and other sessions came before.
SavedIsReadBack ==
  \A s \in Sessions :
    at[s] = "open" /\ writer = s /\ synced =>
      /\ file.state = "read"
      /\ Readable(file.entries, fernet[s], config[s].valuesOnly)
      /\ Reads(s) = secrets[s]
      /\ <<fernet[s], salt[s]>> \in Fernet(config[s].password, file.salt)

\* Persisted salt: the file holds the salt of every value in it that was
\* encrypted under a password, so that the password decrypts it again.
Decipherable ==
  \A k \in DOMAIN file.entries :
    LET key == file.entries[k].key
    IN key # Plain /\ key[1] \notin RawKeys => key[2] = file.salt

\* A vault whose last save succeeded opens again, for the configuration it was
\* saved under: its values are in the clear or under a key that can be made again.
Reopens ==
  writer # Nobody /\ synced =>
    \E c \in Fernet(config[writer].password, file.salt) :
      Readable(file.entries, c[1], config[writer].valuesOnly)
=============================================================================
