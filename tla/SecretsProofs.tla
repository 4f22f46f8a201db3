---------------------------- MODULE SecretsProofs ----------------------------
(***************************************************************************)
(* The vault file reads back and opens again, and the cloud documents keep *)
(* what they should, for any keys, values, passwords, salts and sessions,  *)
(* and any of the faults.                                                  *)
(***************************************************************************)
EXTENDS Secrets, TLAPS

-----------------------------------------------------------------------------
(* The vault: the invariant                                                 *)

\* The key and the salt that a password asks for: none, itself alone, or a salt.
KeyOf(password, s) == IF password = NoPassword THEN Plain ELSE <<password, s>>
SaltFits(password, s) ==
  IF password = NoPassword \/ password \in RawKeys THEN s = NoSalt ELSE s \in Salts

Rekeyed(entries, key) == [k \in DOMAIN entries |-> [entries[k] EXCEPT !.key = key]]

\* A session holds the key of its password, and in memory nothing encrypted under it.
Keyed(s) ==
  at[s] # "closed" =>
    /\ fernet[s] = KeyOf(config[s].password, salt[s])
    /\ SaltFits(config[s].password, salt[s])
    /\ Encrypts(fernet[s], config[s].valuesOnly) =>
         \A k \in DOMAIN secrets[s] : secrets[s][k].key = Plain

\* What a session has saved is encrypted under its password and the salt the file
\* holds, and the session holds the same key, if it goes on or comes back.
SavedUnder(s) ==
  writer = s /\ synced =>
    LET key == KeyOf(config[s].password, file.salt)
    IN  /\ file.state = "read"
        /\ SaltFits(config[s].password, file.salt)
        /\ Encrypts(key, config[s].valuesOnly) =>
             \A k \in DOMAIN file.entries : file.entries[k].key = key
        /\ at[s] # "closed" => fernet[s] = key /\ salt[s] = file.salt
        /\ at[s] = "open" => file.entries = Encoded(s)

VaultInv == LocalTypeOK /\ \A s \in Sessions : Keyed(s) /\ SavedUnder(s)

-----------------------------------------------------------------------------
(* Keys and entries                                                         *)

LEMMA EntriesAre ==
  ASSUME NEW f \in Entries
  PROVE  /\ DOMAIN f \subseteq Keys /\ \A k \in DOMAIN f : f[k] \in Cells
         /\ f = [k \in DOMAIN f |-> f[k]]
  BY DEF Entries

LEMMA EntriesMade ==
  ASSUME NEW ks \in SUBSET Keys, NEW f \in [ks -> Cells]
  PROVE  f \in Entries
  BY DEF Entries

LEMMA NoEntries == <<>> \in Entries /\ DOMAIN <<>> = {}
  <1>1. <<>> \in [{} -> Cells]
    OBVIOUS
  <1> QED
    BY <1>1, EntriesMade

LEMMA CellRekeyed ==
  ASSUME NEW c \in Cells, NEW key \in FernetKeys
  PROVE  /\ [c EXCEPT !.key = key] \in Cells /\ [c EXCEPT !.key = key].key = key
         /\ c.key = key => [c EXCEPT !.key = key] = c
         /\ \A other \in FernetKeys :
              [[c EXCEPT !.key = other] EXCEPT !.key = key] = [c EXCEPT !.key = key]
  BY DEF Cells

\* Encrypting all entries under a key, or decrypting them, keeps them entries.
LEMMA RekeyedIsEntries ==
  ASSUME NEW f \in Entries, NEW key \in FernetKeys
  PROVE  /\ Rekeyed(f, key) \in Entries /\ DOMAIN Rekeyed(f, key) = DOMAIN f
         /\ \A k \in DOMAIN f : Rekeyed(f, key)[k].key = key
  <1>1. DOMAIN f \in SUBSET Keys /\ \A k \in DOMAIN f : f[k] \in Cells
    BY EntriesAre
  <1>2. \A k \in DOMAIN f : [f[k] EXCEPT !.key = key] \in Cells /\ [f[k] EXCEPT !.key = key].key = key
    BY <1>1, CellRekeyed
  <1>3. Rekeyed(f, key) \in [DOMAIN f -> Cells]
    BY <1>2 DEF Rekeyed
  <1> QED
    BY <1>1, <1>2, <1>3, EntriesMade DEF Rekeyed

\* What is encrypted is what was in the clear, and the other way round.
LEMMA RekeyedBack ==
  ASSUME NEW f \in Entries, NEW key \in FernetKeys, NEW other \in FernetKeys,
         \A k \in DOMAIN f : f[k].key = key
  PROVE  Rekeyed(Rekeyed(f, other), key) = f
  <1>1. \A k \in DOMAIN f : f[k] \in Cells
    BY EntriesAre
  <1>2. ASSUME NEW k \in DOMAIN f
        PROVE  [[f[k] EXCEPT !.key = other] EXCEPT !.key = key] = f[k]
    <2>1. f[k] \in Cells /\ f[k].key = key
      BY <1>1
    <2>2. [[f[k] EXCEPT !.key = other] EXCEPT !.key = key] = [f[k] EXCEPT !.key = key]
      BY <2>1, CellRekeyed
    <2>3. [f[k] EXCEPT !.key = key] = f[k]
      BY <2>1, CellRekeyed
    <2> QED
      BY <2>2, <2>3
  <1>3. Rekeyed(Rekeyed(f, other), key)
          = [k \in DOMAIN f |-> [[f[k] EXCEPT !.key = other] EXCEPT !.key = key]]
    BY DEF Rekeyed
  <1> DEFINE both(k) == [[f[k] EXCEPT !.key = other] EXCEPT !.key = key]
  <1>4. \A k \in DOMAIN f : both(k) = f[k]
    BY <1>2
  <1> HIDE DEF both
  <1>5. [k \in DOMAIN f |-> both(k)] = [k \in DOMAIN f |-> f[k]]
    BY <1>4
  <1>6. f = [k \in DOMAIN f |-> f[k]]
    BY EntriesAre
  <1> QED
    BY <1>3, <1>5, <1>6 DEF both

\* The cipher of a password has its key, with the salt of the file if that is one for it.
LEMMA FernetMakes ==
  ASSUME NEW password \in Passwords \cup {NoPassword}, NEW stored \in Salts \cup {NoSalt},
         NEW c \in Fernet(password, stored)
  PROVE  /\ c[1] = KeyOf(password, c[2]) /\ SaltFits(password, c[2])
         /\ c[1] \in FernetKeys /\ c[1][2] = c[2]
         /\ SaltFits(password, stored) => c[2] = stored
  <1>1. CASE password = NoPassword
    BY <1>1 DEF Fernet, KeyOf, SaltFits, FernetKeys, Plain
  <1>2. CASE password # NoPassword /\ password \in RawKeys
    BY <1>2 DEF Fernet, KeyOf, SaltFits, FernetKeys
  <1>3. CASE password # NoPassword /\ password \notin RawKeys
    <2>1. PICK s \in Salts : c = <<<<password, s>>, s>> /\ (stored # NoSalt => s = stored)
      BY <1>3 DEF Fernet
    <2> QED
      BY <1>3, <2>1, VaultAssumption DEF KeyOf, SaltFits, FernetKeys
  <1> QED
    BY <1>1, <1>2, <1>3

LEMMA FernetAgain ==
  ASSUME NEW password \in Passwords \cup {NoPassword}, NEW stored,
         SaltFits(password, stored)
  PROVE  <<KeyOf(password, stored), stored>> \in Fernet(password, stored)
  BY VaultAssumption DEF Fernet, KeyOf, SaltFits, Plain

LEMMA VaultTyped ==
  ASSUME LocalTypeOK, NEW s \in Sessions
  PROVE  /\ config[s].password \in Passwords \cup {NoPassword} /\ config[s].valuesOnly \in BOOLEAN
         /\ file.salt \in Salts \cup {NoSalt} /\ file.entries \in Entries
         /\ secrets[s] \in Entries /\ fernet[s] \in FernetKeys /\ Plain \in FernetKeys
         /\ fernet[s][2] \in Salts \cup {NoSalt} /\ salt[s] = fernet[s][2]
         /\ Encoded(s) \in Entries
  <1>1. config[s] \in Configs /\ secrets[s] \in Entries /\ fernet[s] \in FernetKeys
    BY DEF LocalTypeOK
  <1>2. file.salt \in Salts \cup {NoSalt} /\ file.entries \in Entries
    BY NoEntries DEF LocalTypeOK, Absent, Garbled
  <1>3. Plain \in FernetKeys /\ fernet[s][2] \in Salts \cup {NoSalt} /\ salt[s] = fernet[s][2]
    BY <1>1 DEF FernetKeys, Plain, LocalTypeOK
  <1>4. Encoded(s) = Rekeyed(secrets[s], fernet[s]) \/ Encoded(s) = secrets[s]
    BY DEF Encoded, Rekeyed
  <1>5. Encoded(s) \in Entries
    BY <1>1, <1>4, RekeyedIsEntries
  <1> QED
    BY <1>1, <1>2, <1>3, <1>5, VaultAssumption DEF Configs

-----------------------------------------------------------------------------
(* The vault: the steps of a session                                        *)

\* What a session would read of entries it has saved is what it had in memory.
LEMMA LoadedEncoded ==
  ASSUME LocalTypeOK, NEW s \in Sessions, Keyed(s), at[s] # "closed"
  PROVE  /\ Loaded(Encoded(s), fernet[s], config[s].valuesOnly) = secrets[s]
         /\ Readable(Encoded(s), fernet[s], config[s].valuesOnly)
         /\ Encrypts(fernet[s], config[s].valuesOnly) =>
              \A k \in DOMAIN Encoded(s) : Encoded(s)[k].key = fernet[s]
  <1>1. secrets[s] \in Entries /\ fernet[s] \in FernetKeys /\ Plain \in FernetKeys
    BY VaultTyped
  <1>2. CASE Encrypts(fernet[s], config[s].valuesOnly)
    <2>1. Encoded(s) = Rekeyed(secrets[s], fernet[s])
      BY <1>2 DEF Encoded, Rekeyed
    <2>2. Loaded(Encoded(s), fernet[s], config[s].valuesOnly) = Rekeyed(Encoded(s), Plain)
      BY <1>2 DEF Loaded, Rekeyed
    <2>3. Rekeyed(Rekeyed(secrets[s], fernet[s]), Plain) = secrets[s]
      BY <1>1, <1>2, RekeyedBack DEF Keyed
    <2>4. \A k \in DOMAIN Encoded(s) : Encoded(s)[k].key = fernet[s]
      BY <1>1, <2>1, RekeyedIsEntries
    <2> QED
      BY <2>1, <2>2, <2>3, <2>4 DEF Readable
  <1>3. CASE ~Encrypts(fernet[s], config[s].valuesOnly)
    BY <1>3 DEF Encoded, Loaded, Readable
  <1> QED
    BY <1>2, <1>3

\* A session that opens the vault holds the key of its password; if it was the last
\* to save the vault, it is the same key as then, and it reads what it saved.
LEMMA OpenKeeps ==
  ASSUME VaultInv, NEW s \in Sessions, Open(s)
  PROVE  VaultInv'
  <1> DEFINE mode == config[s].valuesOnly
             password == config[s].password
  <1>1. PICK c \in Fernet(password, file.salt) :
          /\ Readable(file.entries, c[1], mode)
          /\ secrets' = [secrets EXCEPT ![s] = Loaded(file.entries, c[1], mode)]
          /\ fernet' = [fernet EXCEPT ![s] = c[1]]
          /\ salt' = [salt EXCEPT ![s] = c[2]]
    BY DEF Open
  <1>2. /\ LocalTypeOK /\ at' = [at EXCEPT ![s] = "open"] /\ at[s] = "closed"
        /\ UNCHANGED <<file, config, writer, synced>>
    BY DEF VaultInv, Open
  <1>3. /\ c[1] = KeyOf(password, c[2]) /\ SaltFits(password, c[2])
        /\ c[1] \in FernetKeys /\ c[1][2] = c[2]
        /\ SaltFits(password, file.salt) => c[2] = file.salt
    BY <1>2, VaultTyped, FernetMakes
  <1>4. /\ file.entries \in Entries /\ Plain \in FernetKeys
        /\ \/ Encrypts(c[1], mode) /\ Loaded(file.entries, c[1], mode) = Rekeyed(file.entries, Plain)
           \/ ~Encrypts(c[1], mode) /\ Loaded(file.entries, c[1], mode) = file.entries
    BY <1>2, VaultTyped DEF Loaded, Rekeyed
  <1>5. Loaded(file.entries, c[1], mode) \in Entries
    BY <1>4, RekeyedIsEntries
  <1>6. /\ at'[s] = "open" /\ fernet'[s] = c[1] /\ salt'[s] = c[2]
        /\ secrets'[s] = Loaded(file.entries, c[1], mode)
        /\ \A t \in Sessions : t # s => /\ at'[t] = at[t] /\ fernet'[t] = fernet[t]
                                       /\ salt'[t] = salt[t] /\ secrets'[t] = secrets[t]
    BY <1>1, <1>2 DEF LocalTypeOK
  <1>7. LocalTypeOK'
    <2>1. secrets' \in [Sessions -> Entries] /\ fernet' \in [Sessions -> FernetKeys]
      BY <1>1, <1>2, <1>3, <1>5 DEF LocalTypeOK
    <2>2. salt' = [t \in Sessions |-> fernet'[t][2]]
      BY <1>1, <1>2, <1>3, <1>6 DEF LocalTypeOK
    <2> QED
      BY <1>2, <2>1, <2>2 DEF LocalTypeOK
  <1>8. Keyed(s)'
    <2>1. Encrypts(c[1], mode) => \A k \in DOMAIN secrets'[s] : secrets'[s][k].key = Plain
      BY <1>4, <1>6, RekeyedIsEntries
    <2> QED
      BY <1>2, <1>3, <1>6, <2>1 DEF Keyed, Encrypts, KeyOf, SaltFits
  <1>9. SavedUnder(s)'
    <2> SUFFICES ASSUME writer = s, synced
                 PROVE  SavedUnder(s)'
      BY <1>2 DEF SavedUnder
    <2>1. /\ file.state = "read" /\ SaltFits(password, file.salt)
          /\ Encrypts(KeyOf(password, file.salt), mode) =>
               \A k \in DOMAIN file.entries : file.entries[k].key = KeyOf(password, file.salt)
      BY DEF VaultInv, SavedUnder
    <2>2. c[2] = file.salt /\ c[1] = KeyOf(password, file.salt)
      BY <1>3, <2>1
    <2>3. Encoded(s)' = IF Encrypts(c[1], mode) THEN Rekeyed(secrets'[s], c[1]) ELSE secrets'[s]
      BY <1>2, <1>6 DEF Encoded, Encrypts, Rekeyed
    <2>4. file.entries = Encoded(s)'
      BY <1>3, <1>4, <1>6, <2>1, <2>2, <2>3, RekeyedBack
    <2> QED
      BY <1>2, <1>6, <2>1, <2>2, <2>4 DEF SavedUnder, KeyOf, SaltFits, Encrypts
  <1>10. ASSUME NEW t \in Sessions, t # s
         PROVE  Keyed(t)' /\ SavedUnder(t)'
    <2>1. Keyed(t) /\ SavedUnder(t)
      BY DEF VaultInv
    <2> QED
      BY <1>2, <1>6, <1>10, <2>1 DEF Keyed, SavedUnder, Encoded, Encrypts, KeyOf, SaltFits
  <1> QED
    BY <1>7, <1>8, <1>9, <1>10 DEF VaultInv

\* A session changes its memory, or fails before it touches the file, or ends.
LEMMA MemoryKeeps ==
  ASSUME VaultInv, NEW s \in Sessions, NEW place, NEW entries \in Entries,
         at' = [at EXCEPT ![s] = place], place \in {"save", "dump", "open", "closed"},
         secrets' = [secrets EXCEPT ![s] = entries],
         UNCHANGED <<file, config, writer>>,
         synced' \in BOOLEAN, synced' => synced,
         \/ UNCHANGED <<fernet, salt>> /\ at[s] # "closed" /\ place # "closed"
         \/ /\ place = "closed" /\ fernet' = [fernet EXCEPT ![s] = Plain]
            /\ salt' = [salt EXCEPT ![s] = NoSalt],
         \A k \in DOMAIN entries :
           \/ entries[k].key = Plain
           \/ k \in DOMAIN secrets[s] /\ entries[k] = secrets[s][k],
         place = "open" => ~(writer = s /\ synced')
  PROVE  VaultInv'
  <1>1. LocalTypeOK /\ Plain \in FernetKeys /\ Plain[2] = NoSalt
    BY VaultTyped DEF VaultInv, Plain
  <1>2. /\ at'[s] = place /\ secrets'[s] = entries
        /\ \A t \in Sessions : t # s => /\ at'[t] = at[t] /\ fernet'[t] = fernet[t]
                                       /\ salt'[t] = salt[t] /\ secrets'[t] = secrets[t]
        /\ place # "closed" => fernet'[s] = fernet[s] /\ salt'[s] = salt[s]
    BY <1>1 DEF LocalTypeOK
  <1>3. LocalTypeOK'
    <2>1. fernet' \in [Sessions -> FernetKeys]
      BY <1>1 DEF LocalTypeOK
    <2>2. salt' = [t \in Sessions |-> fernet'[t][2]]
      BY <1>1 DEF LocalTypeOK
    <2> QED
      BY <1>1, <2>1, <2>2 DEF LocalTypeOK
  <1>4. Keyed(s)'
    BY <1>1, <1>2 DEF VaultInv, Keyed, Encrypts, KeyOf, SaltFits
  <1>5. SavedUnder(s)'
    BY <1>2 DEF VaultInv, SavedUnder, Encrypts, KeyOf, SaltFits
  <1>6. ASSUME NEW t \in Sessions, t # s
        PROVE  Keyed(t)' /\ SavedUnder(t)'
    <2>1. Keyed(t) /\ SavedUnder(t)
      BY DEF VaultInv
    <2> QED
      BY <1>2, <1>6, <2>1 DEF Keyed, SavedUnder, Encoded, Encrypts, KeyOf, SaltFits
  <1> QED
    BY <1>3, <1>4, <1>5, <1>6 DEF VaultInv

Files == {Absent, Garbled} \cup [state : {"read"}, salt : Salts \cup {NoSalt}, entries : Entries]

\* What is left of a dump that stopped midway is a file like any other.
LEMMA CutIsFile ==
  ASSUME LocalTypeOK, NEW s \in Sessions, NEW f \in Cut(s)
  PROVE  f \in Files
  <1>1. CASE f \in {file, Garbled}
    BY <1>1 DEF LocalTypeOK, Files
  <1>2. CASE f \notin {file, Garbled}
    <2>1. PICK t \in {NoSalt, salt[s]}, ks \in SUBSET DOMAIN secrets[s] :
            f = Contents(t, [k \in ks |-> Encoded(s)[k]])
      BY <1>2 DEF Cut
    <2>2. /\ t \in Salts \cup {NoSalt} /\ Encoded(s) \in Entries
          /\ DOMAIN Encoded(s) = DOMAIN secrets[s]
      BY VaultTyped DEF Encoded
    <2>3. ks \in SUBSET Keys /\ \A k \in ks : Encoded(s)[k] \in Cells
      BY <2>1, <2>2, EntriesAre
    <2>4. [k \in ks |-> Encoded(s)[k]] \in [ks -> Cells]
      BY <2>3
    <2>5. [k \in ks |-> Encoded(s)[k]] \in Entries
      BY <2>3, <2>4, EntriesMade
    <2> QED
      BY <2>1, <2>2, <2>5 DEF Contents, Files
  <1> QED
    BY <1>1, <1>2

\* A session empties or fills the file; it has saved only if the file holds all of it.
LEMMA FileKeeps ==
  ASSUME VaultInv, NEW s \in Sessions, at[s] # "closed", NEW place \in {"dump", "open"},
         at' = [at EXCEPT ![s] = place], writer' = s, synced' \in BOOLEAN,
         UNCHANGED <<secrets, fernet, salt, config>>,
         file' \in {Blank, Contents(salt[s], Encoded(s))} \cup Cut(s),
         synced' => file' = Contents(salt[s], Encoded(s))
  PROVE  VaultInv'
  <1>1. /\ LocalTypeOK /\ Keyed(s) /\ fernet[s] \in FernetKeys
        /\ salt[s] \in Salts \cup {NoSalt} /\ Encoded(s) \in Entries /\ <<>> \in Entries
    BY VaultTyped, NoEntries DEF VaultInv
  <1>2. /\ at'[s] = place /\ \A t \in Sessions : t # s => at'[t] = at[t]
    BY <1>1 DEF LocalTypeOK
  <1>3. LocalTypeOK'
    BY <1>1, CutIsFile DEF LocalTypeOK, Files, Blank, Contents
  <1>4. Keyed(s)'
    BY <1>1, <1>2 DEF Keyed, Encrypts, KeyOf, SaltFits
  <1>5. SavedUnder(s)'
    <2> SUFFICES ASSUME synced'
                 PROVE  SavedUnder(s)'
      BY DEF SavedUnder
    <2>1. file'.state = "read" /\ file'.salt = salt[s] /\ file'.entries = Encoded(s)
      BY DEF Contents
    <2>2. Encoded(s)' = Encoded(s)
      BY DEF Encoded, Encrypts
    <2>3. Encrypts(fernet[s], config[s].valuesOnly) =>
            \A k \in DOMAIN Encoded(s) : Encoded(s)[k].key = fernet[s]
      BY <1>1, LoadedEncoded
    <2> QED
      BY <1>1, <2>1, <2>2, <2>3 DEF SavedUnder, Keyed, Encrypts, KeyOf, SaltFits
  <1>6. ASSUME NEW t \in Sessions, t # s
        PROVE  Keyed(t)' /\ SavedUnder(t)'
    <2>1. Keyed(t)
      BY DEF VaultInv
    <2> QED
      BY <1>2, <1>6, <2>1 DEF Keyed, SavedUnder, Encrypts, KeyOf, SaltFits
  <1> QED
    BY <1>3, <1>4, <1>5, <1>6 DEF VaultInv

LEMMA SaveKeeps ==
  ASSUME VaultInv, NEW s \in Sessions, Truncate(s) \/ Dump(s) \/ SaveFails(s)
  PROVE  VaultInv'
  <1>1. LocalTypeOK
    BY DEF VaultInv
  <1>2. CASE Truncate(s)
    BY <1>2, FileKeeps DEF Truncate
  <1>3. CASE Dump(s)
    <2>1. Garbled \in Cut(s)
      BY DEF Cut
    <2>2. file # Blank => synced' = FALSE
      BY <1>3 DEF Dump
    <2>3. synced' \in BOOLEAN /\ (file = Blank => file' = Contents(salt[s], Encoded(s)))
      BY <1>3 DEF Dump
    <2> QED
      BY <1>3, <2>1, <2>2, <2>3, FileKeeps DEF Dump
  <1>4. CASE SaveFails(s) /\ at[s] = "dump"
    BY <1>4, FileKeeps DEF SaveFails
  <1>5. CASE SaveFails(s) /\ at[s] = "save"
    <2>1. /\ secrets[s] \in Entries /\ secrets' = [secrets EXCEPT ![s] = secrets[s]]
          /\ synced' \in BOOLEAN /\ (synced' => synced) /\ ~(writer = s /\ synced')
      BY <1>1, <1>5 DEF SaveFails, LocalTypeOK
    <2> QED
      BY <1>5, <2>1, MemoryKeeps DEF SaveFails
  <1> QED
    BY <1>2, <1>3, <1>4, <1>5 DEF SaveFails

\* A process that ends in the middle of a dump has saved nothing.
LEMMA EndCutsKeeps ==
  ASSUME VaultInv, NEW s \in Sessions, End(s), file' \in Cut(s), writer' = s, synced' = FALSE
  PROVE  VaultInv'
  <1>1. /\ LocalTypeOK /\ Plain \in FernetKeys /\ Plain[2] = NoSalt /\ <<>> \in Entries
        /\ at' = [at EXCEPT ![s] = "closed"] /\ secrets' = [secrets EXCEPT ![s] = <<>>]
        /\ fernet' = [fernet EXCEPT ![s] = Plain] /\ salt' = [salt EXCEPT ![s] = NoSalt]
        /\ config' = config
    BY VaultTyped, NoEntries DEF VaultInv, Plain, End
  <1>2. LocalTypeOK'
    <2>1. fernet' \in [Sessions -> FernetKeys] /\ salt' = [t \in Sessions |-> fernet'[t][2]]
      BY <1>1 DEF LocalTypeOK
    <2>2. file' \in Files
      BY <1>1, CutIsFile
    <2> QED
      BY <1>1, <2>1, <2>2 DEF LocalTypeOK, Files
  <1>3. ASSUME NEW t \in Sessions
        PROVE  Keyed(t)' /\ SavedUnder(t)'
    <2>1. Keyed(t)
      BY DEF VaultInv
    <2>2. CASE t = s
      BY <1>1, <2>2 DEF Keyed, SavedUnder, LocalTypeOK
    <2>3. CASE t # s
      <3>1. /\ at'[t] = at[t] /\ fernet'[t] = fernet[t] /\ salt'[t] = salt[t]
            /\ secrets'[t] = secrets[t]
        BY <1>1, <2>3 DEF LocalTypeOK
      <3> QED
        BY <1>1, <2>1, <3>1 DEF Keyed, SavedUnder, Encrypts, KeyOf, SaltFits
    <2> QED
      BY <2>2, <2>3
  <1> QED
    BY <1>2, <1>3 DEF VaultInv

LEMMA CallKeeps ==
  ASSUME VaultInv, NEW s \in Sessions,
         \/ \E k \in Keys, v \in Values, replace \in BOOLEAN : Store(s, k, v, replace)
         \/ \E k \in Keys : Delete(s, k)
         \/ End(s)
  PROVE  VaultInv'
  <1>1. LocalTypeOK /\ secrets[s] \in Entries /\ synced \in BOOLEAN
    BY DEF VaultInv, LocalTypeOK
  <1>2. /\ DOMAIN secrets[s] \subseteq Keys
        /\ \A k \in DOMAIN secrets[s] : secrets[s][k] \in Cells
    BY <1>1, EntriesAre
  <1>3. CASE \E k \in Keys, v \in Values, replace \in BOOLEAN : Store(s, k, v, replace)
    <2>1. PICK k \in Keys, v \in Values, replace \in BOOLEAN : Store(s, k, v, replace)
      BY <1>3
    <2> DEFINE cell == [key |-> Plain, value |-> v]
               ks == DOMAIN secrets[s] \cup {k}
               entries == [j \in ks |-> IF j = k THEN cell ELSE secrets[s][j]]
    <2>2. /\ at[s] = "open" /\ at' = [at EXCEPT ![s] = "save"]
          /\ secrets' = [secrets EXCEPT ![s] = entries]
          /\ UNCHANGED <<file, fernet, salt, config, writer, synced>>
      BY <2>1 DEF Store
    <2>3. cell \in Cells /\ cell.key = Plain
      BY DEF Cells, FernetKeys
    <2>4. entries \in [ks -> Cells] /\ ks \in SUBSET Keys
      BY <1>2, <2>3
    <2>5. entries \in Entries
      BY <2>4, EntriesMade
    <2>6. ASSUME NEW j \in DOMAIN entries
          PROVE  \/ entries[j].key = Plain
                 \/ j \in DOMAIN secrets[s] /\ entries[j] = secrets[s][j]
      <3>1. CASE j = k
        BY <2>3, <3>1
      <3>2. CASE j # k
        BY <3>2
      <3> QED
        BY <3>1, <3>2
    <2> HIDE DEF entries
    <2> QED
      BY <1>1, <2>2, <2>5, <2>6, MemoryKeeps
  <1>4. CASE \E k \in Keys : Delete(s, k)
    <2>1. PICK k \in Keys : Delete(s, k)
      BY <1>4
    <2> DEFINE ks == DOMAIN secrets[s] \ {k}
               entries == [j \in ks |-> secrets[s][j]]
    <2>2. /\ at[s] = "open" /\ at' = [at EXCEPT ![s] = "save"]
          /\ secrets' = [secrets EXCEPT ![s] = entries]
          /\ UNCHANGED <<file, fernet, salt, config, writer, synced>>
      BY <2>1 DEF Delete
    <2>3. entries \in [ks -> Cells] /\ ks \in SUBSET Keys
      BY <1>2
    <2>4. entries \in Entries
      BY <2>3, EntriesMade
    <2>5. \A j \in DOMAIN entries : j \in DOMAIN secrets[s] /\ entries[j] = secrets[s][j]
      OBVIOUS
    <2> HIDE DEF entries
    <2> QED
      BY <1>1, <2>2, <2>4, <2>5, MemoryKeeps
  <1>5. CASE End(s) /\ UNCHANGED <<file, writer, synced>>
    BY <1>1, <1>5, NoEntries, MemoryKeeps DEF End
  <1>6. CASE End(s) /\ ~UNCHANGED <<file, writer, synced>>
    BY <1>6, EndCutsKeeps DEF End
  <1> QED
    BY <1>3, <1>4, <1>5, <1>6

LEMMA VaultStep ==
  ASSUME VaultInv, NEW s \in Sessions, LocalStep(s)
  PROVE  VaultInv'
  BY OpenKeeps, SaveKeeps, CallKeeps DEF LocalStep

\* The vault is not touched by the steps of a cloud store.
LEMMA VaultStays ==
  ASSUME VaultInv, UNCHANGED localVars
  PROVE  VaultInv'
  BY DEF VaultInv, LocalTypeOK, Keyed, SavedUnder, Encoded, Encrypts, KeyOf, SaltFits, localVars

LEMMA VaultInit ==
  ASSUME LocalInit
  PROVE  VaultInv
  <1>1. LocalTypeOK
    <2>1. Plain \in FernetKeys /\ Plain[2] = NoSalt
      BY DEF FernetKeys, Plain
    <2> QED
      BY <2>1, NoEntries DEF LocalInit, LocalTypeOK
  <1> QED
    BY <1>1 DEF LocalInit, VaultInv, Keyed, SavedUnder, Nobody

\* What the invariant says of a session that has saved.
LEMMA VaultReadsBack == VaultInv => SavedIsReadBack /\ Reopens
  <1> SUFFICES ASSUME VaultInv
               PROVE  SavedIsReadBack /\ Reopens
    OBVIOUS
  <1>1. LocalTypeOK
    BY DEF VaultInv
  <1>2. ASSUME NEW s \in Sessions, writer = s, synced
        PROVE  \E c \in Fernet(config[s].password, file.salt) :
                 Readable(file.entries, c[1], config[s].valuesOnly)
    <2> DEFINE key == KeyOf(config[s].password, file.salt)
    <2>1. /\ SaltFits(config[s].password, file.salt)
          /\ Encrypts(key, config[s].valuesOnly) =>
               \A k \in DOMAIN file.entries : file.entries[k].key = key
      BY <1>2 DEF VaultInv, SavedUnder
    <2>2. <<key, file.salt>> \in Fernet(config[s].password, file.salt)
      BY <1>1, <2>1, VaultTyped, FernetAgain
    <2>3. Readable(file.entries, key, config[s].valuesOnly)
      BY <2>1 DEF Readable
    <2> HIDE DEF key
    <2> QED
      BY <2>2, <2>3
  <1>3. ASSUME NEW s \in Sessions, at[s] = "open", writer = s, synced
        PROVE  /\ file.state = "read"
               /\ Readable(file.entries, fernet[s], config[s].valuesOnly)
               /\ Reads(s) = secrets[s]
               /\ <<fernet[s], salt[s]>> \in Fernet(config[s].password, file.salt)
    <2>1. /\ file.state = "read" /\ SaltFits(config[s].password, file.salt)
          /\ fernet[s] = KeyOf(config[s].password, file.salt) /\ salt[s] = file.salt
          /\ file.entries = Encoded(s) /\ Keyed(s) /\ at[s] # "closed"
      BY <1>3 DEF VaultInv, SavedUnder
    <2>2. <<fernet[s], salt[s]>> \in Fernet(config[s].password, file.salt)
      BY <1>1, <2>1, VaultTyped, FernetAgain
    <2> QED
      BY <1>1, <2>1, <2>2, LoadedEncoded DEF Reads
  <1>4. Reopens
    BY <1>1, <1>2 DEF Reopens, LocalTypeOK
  <1> QED
    BY <1>3, <1>4 DEF SavedIsReadBack
-----------------------------------------------------------------------------
(* The cloud stores: the invariant                                          *)

\* What a document can hold; a deleted name and an empty string are Azure's.
Copies == Values \cup {Nothing}

CloudTyped ==
  /\ typid \in Types
  /\ remote \in [Keys -> Copies \cup {Empty, Deleted}]
  /\ typid # "azure" => remote \in [Keys -> Copies]
  /\ cache \in [Sessions -> {<<>>} \cup [Keys -> Copies]]
  /\ doing \in [Sessions -> {"closed", "idle", "fetch", "decide", "check", "write"}]
  /\ call \in [Sessions -> Calls \cup {NoCall}]
  /\ missed \subseteq Sessions
  /\ held \in [Sessions -> SUBSET Keys]

\* Where a session can be with which call, and when it has a copy.
Placed(s) ==
  /\ IF Document THEN doing[s] # "check"
     ELSE cache[s] = <<>> /\ doing[s] \notin {"fetch", "decide"}
  /\ doing[s] \in {"fetch", "decide", "check", "write"} => call[s] \in Calls
  /\ Document /\ doing[s] \in {"decide", "write"} => cache[s] # <<>>
  /\ s \in missed => cache[s] # <<>>

\* A session that remembers a secret knows of it, and is not about to overwrite it.
Holds(s) ==
  /\ held[s] \subseteq Existing(remote)
  /\ cache[s] # <<>> => \A k \in held[s] : cache[s][k] # Nothing
  /\ doing[s] = "write" /\ call[s].op = "store" /\ ~call[s].replace => call[s].key \notin held[s]

\* A copy that misses nothing is the document, but for the change about to be written.
Current(s) ==
  cache[s] # <<>> /\ s \notin missed =>
    \A k \in Keys : cache[s][k] = remote[k] \/ (doing[s] = "write" /\ k = call[s].key)

CloudInv == CloudTyped /\ \A s \in Sessions : Placed(s) /\ Holds(s) /\ Current(s)

-----------------------------------------------------------------------------
(* The cloud stores: the steps of a session                                 *)

LEMMA CopyHasKeys ==
  ASSUME NEW f \in [Keys -> Copies], NEW k \in Keys
  PROVE  f # <<>>
  OBVIOUS

LEMMA CallsAre ==
  ASSUME NEW r \in Calls
  PROVE  /\ r.key \in Keys /\ r.op \in {"retrieve", "delete", "store"}
         /\ r.op = "store" => r.replace \in BOOLEAN /\ r.value \in Values \cup {Empty}
         /\ r.op = "store" /\ Document => r.value \in Values
  BY DEF Calls

\* What a session sees of another's step: nothing, or that secrets are gone.
LEMMA OtherKeeps ==
  ASSUME NEW t \in Sessions, Placed(t), Holds(t), Current(t),
         typid' = typid, cache'[t] = cache[t], doing'[t] = doing[t], call'[t] = call[t],
         held'[t] \subseteq held[t], held'[t] \subseteq Existing(remote)',
         t \in missed' => cache[t] # <<>>,
         \/ remote' = remote /\ (t \in missed' <=> t \in missed)
         \/ cache[t] # <<>> => t \in missed'
  PROVE  (Placed(t) /\ Holds(t) /\ Current(t))'
  <1>1. Document' = Document /\ Calls' = Calls
    BY DEF Document, Calls
  <1>2. Placed(t)'
    BY <1>1 DEF Placed
  <1>3. Holds(t)'
    BY DEF Holds
  <1>4. Current(t)'
    BY DEF Current
  <1> QED
    BY <1>2, <1>3, <1>4

\* A step of one session that leaves the document and the service alone.
LEMMA QuietKeeps ==
  ASSUME CloudInv, NEW s \in Sessions, typid' = typid, UNCHANGED remote, CloudTyped',
         \A t \in Sessions : t # s => /\ doing'[t] = doing[t] /\ call'[t] = call[t]
                                      /\ cache'[t] = cache[t] /\ held'[t] = held[t]
                                      /\ t \in missed' <=> t \in missed,
         (Placed(s) /\ Holds(s) /\ Current(s))'
  PROVE  CloudInv'
  <1>1. Existing(remote)' = Existing(remote)
    BY DEF Existing, Document
  <1>2. ASSUME NEW t \in Sessions, t # s
        PROVE  (Placed(t) /\ Holds(t) /\ Current(t))'
    <2>1. Placed(t) /\ Holds(t) /\ Current(t)
      BY DEF CloudInv
    <2>2. (t \in missed' <=> t \in missed) /\ (t \in missed' => cache[t] # <<>>)
      BY <1>2, <2>1 DEF Placed
    <2>3. /\ cache'[t] = cache[t] /\ doing'[t] = doing[t] /\ call'[t] = call[t]
          /\ held'[t] = held[t] /\ held'[t] \subseteq Existing(remote)'
      BY <1>1, <1>2, <2>1 DEF Holds
    <2> QED
      BY <2>1, <2>2, <2>3, OtherKeeps
  <1> QED
    BY <1>2 DEF CloudInv

LEMMA SessionFacts ==
  ASSUME CloudInv, NEW s \in Sessions, typid' = typid
  PROVE  /\ CloudTyped /\ Placed(s) /\ Holds(s) /\ Current(s)
         /\ cache[s] \in {<<>>} \cup [Keys -> Copies]
         /\ held[s] \subseteq Existing(remote) /\ held[s] \subseteq Keys
         /\ Document' = Document /\ Calls' = Calls /\ Existing(remote) \subseteq Keys
         /\ remote' = remote => Existing(remote)' = Existing(remote)
  <1>1. CloudTyped /\ Placed(s) /\ Holds(s) /\ Current(s)
    BY DEF CloudInv
  <1>2. Document' = Document /\ Calls' = Calls /\ Existing(remote) \subseteq Keys
    BY DEF Document, Calls, Existing
  <1>3. remote' = remote => Existing(remote)' = Existing(remote)
    BY <1>2 DEF Existing
  <1> QED
    BY <1>1, <1>2, <1>3 DEF CloudTyped, Holds

LEMMA OpenKeepsCloud ==
  ASSUME CloudInv, NEW s \in Sessions, typid' = typid, CloudOpen(s)
  PROVE  CloudInv'
  <1>1. /\ doing' = [doing EXCEPT ![s] = "idle"] /\ doing[s] = "closed"
        /\ UNCHANGED <<remote, cache, call, missed, held>>
    BY DEF CloudOpen, Become
  <1>2. CloudTyped'
    BY <1>1, SessionFacts DEF CloudTyped
  <1>3. (Placed(s) /\ Holds(s) /\ Current(s))'
    BY <1>1, SessionFacts DEF CloudTyped, Placed, Holds, Current
  <1> QED
    BY <1>1, <1>2, <1>3, SessionFacts, QuietKeeps DEF CloudTyped

LEMMA EndKeepsCloud ==
  ASSUME CloudInv, NEW s \in Sessions, typid' = typid, CloudEnd(s)
  PROVE  CloudInv'
  <1>1. /\ doing' = [doing EXCEPT ![s] = "closed"] /\ call' = [call EXCEPT ![s] = NoCall]
        /\ cache' = [cache EXCEPT ![s] = <<>>] /\ held' = [held EXCEPT ![s] = {}]
        /\ missed' = missed \ {s} /\ UNCHANGED remote
    BY DEF CloudEnd, Become
  <1>2. CloudTyped'
    BY <1>1, SessionFacts DEF CloudTyped
  <1>3. (Placed(s) /\ Holds(s) /\ Current(s))'
    BY <1>1, SessionFacts DEF CloudTyped, Placed, Holds, Current
  <1>4. \A t \in Sessions : t # s => /\ doing'[t] = doing[t] /\ call'[t] = call[t]
                                     /\ cache'[t] = cache[t] /\ held'[t] = held[t]
                                     /\ t \in missed' <=> t \in missed
    BY <1>1, SessionFacts DEF CloudTyped
  <1> QED
    BY <1>1, <1>2, <1>3, <1>4, QuietKeeps

LEMMA CallKeepsCloud ==
  ASSUME CloudInv, NEW s \in Sessions, typid' = typid, NEW r \in Calls, CloudCall(s, r)
  PROVE  CloudInv'
  <1> DEFINE place == IF ~Document THEN (IF r.op = "store" /\ r.replace THEN "write" ELSE "check")
                      ELSE IF cache[s] = <<>> THEN "fetch" ELSE "decide"
             keys == IF Document THEN held[s] ELSE Existing(remote)
  <1>1. /\ doing' = [doing EXCEPT ![s] = place] /\ call' = [call EXCEPT ![s] = r]
        /\ UNCHANGED <<remote, cache, missed>> /\ doing[s] = "idle"
    BY DEF CloudCall, Become
  <1>2. held' = [held EXCEPT ![s] = keys] /\ keys \subseteq Existing(remote) /\ keys \subseteq Keys
    BY SessionFacts DEF CloudCall, CloudTyped
  <1>3. /\ Document => place # "check" /\ place # "write"
        /\ ~Document => place \notin {"fetch", "decide"}
        /\ place = "decide" => cache[s] # <<>>
        /\ place \in {"fetch", "decide", "check", "write"}
    OBVIOUS
  <1>4. place = "write" => r.replace
    <2>1. CASE Document
      BY <2>1
    <2>2. CASE ~Document /\ (r.op = "store" /\ r.replace)
      BY <2>2
    <2>3. CASE ~Document /\ ~(r.op = "store" /\ r.replace)
      BY <2>3
    <2> QED
      BY <2>1, <2>2, <2>3
  <1>5. cache[s] # <<>> => \A k \in keys : cache[s][k] # Nothing
    BY SessionFacts DEF Placed, Holds
  <1> HIDE DEF place, keys
  <1>6. CloudTyped'
    BY <1>1, <1>2, <1>3, SessionFacts DEF CloudTyped
  <1>7. doing'[s] = place /\ call'[s] = r /\ held'[s] = keys
    BY <1>1, <1>2, SessionFacts DEF CloudTyped
  <1>8. (Placed(s) /\ Holds(s) /\ Current(s))'
    BY <1>1, <1>2, <1>3, <1>4, <1>5, <1>7, SessionFacts DEF Placed, Holds, Current
  <1>9. \A t \in Sessions : t # s => /\ doing'[t] = doing[t] /\ call'[t] = call[t]
                                     /\ cache'[t] = cache[t] /\ held'[t] = held[t]
                                     /\ t \in missed' <=> t \in missed
    BY <1>1, <1>2, SessionFacts DEF CloudTyped
  <1> QED
    BY <1>1, <1>6, <1>8, <1>9, QuietKeeps

\* A call that fails or is answered leaves everything else as it was, unless its copy
\* keeps a change that was not written.
LEMMA CallEnds ==
  ASSUME CloudInv, NEW s \in Sessions, typid' = typid, Back(s),
         UNCHANGED <<remote, cache, held>>,
         \/ doing[s] # "write" /\ missed' = missed
         \/ ~Document /\ missed' = missed
         \/ doing[s] = "write" /\ Document /\ missed' = missed \cup {s}
  PROVE  CloudInv'
  <1>1. doing' = [doing EXCEPT ![s] = "idle"] /\ call' = [call EXCEPT ![s] = NoCall]
    BY DEF Back, Become
  <1>2. CloudTyped'
    BY <1>1, SessionFacts DEF CloudTyped
  <1>3. (Placed(s) /\ Holds(s) /\ Current(s))'
    BY <1>1, SessionFacts DEF CloudTyped, Placed, Holds, Current
  <1>4. \A t \in Sessions : t # s => /\ doing'[t] = doing[t] /\ call'[t] = call[t]
                                     /\ cache'[t] = cache[t] /\ held'[t] = held[t]
                                     /\ t \in missed' <=> t \in missed
    BY <1>1, SessionFacts DEF CloudTyped
  <1> QED
    BY <1>2, <1>3, <1>4, QuietKeeps

\* The document is read: the copy is what it holds.
LEMMA FetchKeeps ==
  ASSUME CloudInv, NEW s \in Sessions, typid' = typid, Fetch(s)
  PROVE  CloudInv'
  <1>1. /\ doing' = [doing EXCEPT ![s] = "decide"] /\ cache' = [cache EXCEPT ![s] = remote]
        /\ held' = [held EXCEPT ![s] = Existing(remote)] /\ missed' = missed \ {s}
        /\ UNCHANGED <<remote, call>> /\ Document /\ doing[s] = "fetch"
    BY DEF Fetch, Become
  <1>2. call[s] \in Calls /\ remote \in [Keys -> Copies] /\ remote # <<>>
    <2>1. call[s] \in Calls /\ remote \in [Keys -> Copies]
      BY <1>1, SessionFacts DEF Placed, CloudTyped, Document, DocumentTypes
    <2>2. call[s].key \in Keys
      BY <2>1, CallsAre
    <2> QED
      BY <2>1, <2>2, CopyHasKeys
  <1>3. CloudTyped'
    BY <1>1, <1>2, SessionFacts DEF CloudTyped
  <1>4. /\ doing'[s] = "decide" /\ cache'[s] = remote /\ held'[s] = Existing(remote)
        /\ call'[s] = call[s]
    BY <1>1, SessionFacts DEF CloudTyped
  <1>5. (Placed(s) /\ Holds(s) /\ Current(s))'
    <2>1. \A k \in Existing(remote) : remote[k] # Nothing
      BY DEF Existing
    <2> QED
      BY <1>1, <1>2, <1>4, <2>1, SessionFacts DEF Placed, Holds, Current
  <1>6. \A t \in Sessions : t # s => /\ doing'[t] = doing[t] /\ call'[t] = call[t]
                                     /\ cache'[t] = cache[t] /\ held'[t] = held[t]
                                     /\ t \in missed' <=> t \in missed
    BY <1>1, SessionFacts DEF CloudTyped
  <1> QED
    BY <1>1, <1>3, <1>5, <1>6, QuietKeeps

\* The copy changes: it stays current but for the key about to be written.
LEMMA ChangeKeeps ==
  ASSUME CloudInv, NEW s \in Sessions, typid' = typid, StoreInCache(s) \/ DeleteInCache(s)
  PROVE  CloudInv'
  <1> DEFINE k == call[s].key
             new == IF call[s].op = "store" THEN call[s].value ELSE Nothing
             keys == IF call[s].op = "store" THEN held[s] ELSE held[s] \ {k}
  <1>1. /\ doing' = [doing EXCEPT ![s] = "write"] /\ cache' = [cache EXCEPT ![s][k] = new]
        /\ UNCHANGED <<remote, call, missed>> /\ doing[s] = "decide"
        /\ call[s].op \in {"store", "delete"}
        /\ call[s].op = "store" => call[s].replace \/ cache[s][k] = Nothing
    BY DEF StoreInCache, DeleteInCache, Become
  <1>2. held' = [held EXCEPT ![s] = keys]
    BY SessionFacts DEF StoreInCache, DeleteInCache, CloudTyped
  <1>3. /\ Document /\ call[s] \in Calls /\ k \in Keys
        /\ cache[s] \in [Keys -> Copies] /\ cache[s] # <<>>
    <2>1. Document /\ call[s] \in Calls /\ cache[s] # <<>>
      BY <1>1, SessionFacts DEF Placed
    <2> QED
      BY <2>1, CallsAre, SessionFacts
  <1>4. new \in Copies /\ (call[s].op = "store" => new # Nothing)
    BY <1>3, CallsAre, ContentsAssumption DEF Copies
  <1>5. keys \subseteq held[s] /\ (k \in keys => call[s].op = "store")
    OBVIOUS
  <1>6. call[s].op = "store" /\ ~call[s].replace => k \notin held[s]
    BY <1>1, <1>3, SessionFacts DEF Holds
  <1> HIDE DEF k, new, keys
  <1>7. /\ doing'[s] = "write" /\ call'[s] = call[s] /\ held'[s] = keys
        /\ cache'[s] = [cache[s] EXCEPT ![k] = new]
    BY <1>1, <1>2, SessionFacts DEF CloudTyped
  <1>8. cache'[s] \in [Keys -> Copies] /\ cache'[s] # <<>>
    BY <1>3, <1>4, <1>7, CopyHasKeys
  <1>9. CloudTyped'
    BY <1>1, <1>2, <1>5, <1>7, <1>8, SessionFacts DEF CloudTyped
  <1>10. \A j \in Keys : cache'[s][j] = IF j = k THEN new ELSE cache[s][j]
    BY <1>3, <1>7
  <1>11. Placed(s)'
    BY <1>1, <1>3, <1>7, <1>8, SessionFacts DEF Placed
  <1>12. Holds(s)'
    <2>1. \A j \in keys : cache'[s][j] # Nothing
      BY <1>3, <1>4, <1>5, <1>10, SessionFacts DEF Holds
    <2>2. keys \subseteq Existing(remote)'
      BY <1>1, <1>5, SessionFacts
    <2>3. call[s].op = "store" /\ ~call[s].replace => call[s].key \notin keys
      BY <1>5, <1>6 DEF k
    <2> QED
      BY <1>1, <1>7, <2>1, <2>2, <2>3 DEF Holds
  <1>13. Current(s)'
    <2>1. s \notin missed => \A j \in Keys : cache[s][j] = remote[j]
      BY <1>1, <1>3, SessionFacts DEF Current
    <2> QED
      BY <1>1, <1>7, <1>10, <2>1 DEF Current, k
  <1>14. \A t \in Sessions : t # s => /\ doing'[t] = doing[t] /\ call'[t] = call[t]
                                      /\ cache'[t] = cache[t] /\ held'[t] = held[t]
                                      /\ t \in missed' <=> t \in missed
    BY <1>1, <1>2, SessionFacts DEF CloudTyped
  <1> QED
    BY <1>1, <1>9, <1>11, <1>12, <1>13, <1>14, QuietKeeps

\* The document is written: the copies of the others miss it.
LEMMA UpdateKeeps ==
  ASSUME CloudInv, NEW s \in Sessions, typid' = typid, Update(s)
  PROVE  CloudInv'
  <1>1. /\ doing' = [doing EXCEPT ![s] = "idle"] /\ call' = [call EXCEPT ![s] = NoCall]
        /\ remote' = cache[s] /\ held' = [t \in Sessions |-> held[t] \cap Existing(cache[s])]
        /\ missed' = {t \in Sessions \ {s} : cache[t] # <<>>} /\ UNCHANGED cache
        /\ Document /\ doing[s] = "write"
    BY DEF Update, Accept, Back, Become
  <1>2. cache[s] \in [Keys -> Copies] /\ cache[s] # <<>>
    BY <1>1, SessionFacts DEF Placed
  <1>3. Existing(remote)' = Existing(cache[s])
    BY <1>1, SessionFacts DEF Existing
  <1>4. CloudTyped'
    BY <1>1, <1>2, SessionFacts DEF CloudTyped
  <1>5. (Placed(s) /\ Holds(s) /\ Current(s))'
    BY <1>1, <1>2, <1>3, SessionFacts DEF CloudTyped, Placed, Holds, Current
  <1>6. ASSUME NEW t \in Sessions, t # s
        PROVE  (Placed(t) /\ Holds(t) /\ Current(t))'
    <2>1. Placed(t) /\ Holds(t) /\ Current(t)
      BY DEF CloudInv
    <2>2. /\ cache'[t] = cache[t] /\ doing'[t] = doing[t] /\ call'[t] = call[t]
          /\ held'[t] \subseteq held[t] /\ held'[t] \subseteq Existing(remote)'
          /\ t \in missed' <=> cache[t] # <<>>
      BY <1>1, <1>3, <1>6, SessionFacts DEF CloudTyped
    <2> QED
      BY <2>1, <2>2, OtherKeeps
  <1> QED
    BY <1>4, <1>5, <1>6 DEF CloudInv

LEMMA CheckKeeps ==
  ASSUME CloudInv, NEW s \in Sessions, typid' = typid, Check(s)
  PROVE  CloudInv'
  <1>1. CASE Back(s)
    BY <1>1, CallEnds DEF Check
  <1>2. CASE ~Back(s)
    <2>1. /\ doing' = [doing EXCEPT ![s] = "write"] /\ doing[s] = "check"
          /\ UNCHANGED <<remote, cache, call, missed, held>>
          /\ call[s].op = "store" => call[s].key \notin Existing(remote)
      BY <1>2 DEF Check, Become
    <2>2. CloudTyped'
      BY <2>1, SessionFacts DEF CloudTyped
    <2>3. (Placed(s) /\ Holds(s) /\ Current(s))'
      BY <2>1, SessionFacts DEF CloudTyped, Placed, Holds, Current
    <2> QED
      BY <2>1, <2>2, <2>3, SessionFacts, QuietKeeps DEF CloudTyped
  <1> QED
    BY <1>1, <1>2

\* Azure's service takes a secret or deletes one.
LEMMA SetSecretKeeps ==
  ASSUME CloudInv, NEW s \in Sessions, typid' = typid, typid # "local", SetSecret(s)
  PROVE  CloudInv'
  <1>1. CASE UNCHANGED <<remote, held>>
    BY <1>1, CallEnds DEF SetSecret
  <1>2. CASE ~UNCHANGED <<remote, held>>
    <2> DEFINE r == call[s]
               new == IF r.op = "store" THEN r.value ELSE Deleted
               contents == [remote EXCEPT ![r.key] = new]
    <2>1. /\ doing' = [doing EXCEPT ![s] = "idle"] /\ call' = [call EXCEPT ![s] = NoCall]
          /\ remote' = contents /\ held' = [t \in Sessions |-> held[t] \cap Existing(contents)]
          /\ UNCHANGED <<cache, missed>> /\ ~Document /\ doing[s] = "write"
      BY <1>2 DEF SetSecret, Accept, Back, Become
    <2>2. r \in Calls
      BY <2>1, SessionFacts DEF Placed
    <2>3. new \in Copies \cup {Empty, Deleted}
      BY <2>2, CallsAre DEF Copies
    <2>4. typid = "azure"
      BY <2>1, SessionFacts, TypesAssumption DEF CloudTyped, Document, DocumentTypes, VaultTypes
    <2>5. contents \in [Keys -> Copies \cup {Empty, Deleted}]
      BY <2>3, SessionFacts DEF CloudTyped
    <2> HIDE DEF contents
    <2>6. Existing(remote)' = Existing(contents)
      BY <2>1, SessionFacts DEF Existing
    <2>7. CloudTyped'
      BY <2>1, <2>4, <2>5, SessionFacts DEF CloudTyped
    <2>8. (Placed(s) /\ Holds(s) /\ Current(s))'
      BY <2>1, <2>6, SessionFacts DEF CloudTyped, Placed, Holds, Current
    <2>9. ASSUME NEW t \in Sessions, t # s
          PROVE  (Placed(t) /\ Holds(t) /\ Current(t))'
      <3>1. Placed(t) /\ Holds(t) /\ Current(t) /\ cache[t] = <<>>
        BY <2>1 DEF CloudInv, Placed
      <3>2. /\ cache'[t] = cache[t] /\ doing'[t] = doing[t] /\ call'[t] = call[t]
            /\ held'[t] \subseteq held[t] /\ held'[t] \subseteq Existing(remote)'
            /\ t \in missed' => cache[t] # <<>>
        BY <2>1, <2>6, <2>9, <3>1, SessionFacts DEF CloudTyped, Placed
      <3> QED
        BY <3>1, <3>2, OtherKeeps
    <2> QED
      BY <2>7, <2>8, <2>9 DEF CloudInv
  <1> QED
    BY <1>1, <1>2

\* A name that is purged held no secret already.
LEMMA PurgeKeeps ==
  ASSUME CloudInv, NEW k \in Keys, typid' = typid, typid # "local", Purge(k)
  PROVE  CloudInv'
  <1>1. /\ remote[k] = Deleted /\ remote' = [remote EXCEPT ![k] = Nothing]
        /\ UNCHANGED <<cache, doing, call, missed, held>> /\ CloudTyped
    BY DEF Purge, CloudInv
  <1>2. typid = "azure" /\ ~Document /\ Document' = Document /\ Calls' = Calls
    BY <1>1, ContentsAssumption, TypesAssumption
    DEF CloudTyped, Document, DocumentTypes, VaultTypes, Copies, Calls
  <1>3. CloudTyped'
    BY <1>1, <1>2 DEF CloudTyped, Copies
  <1>4. Existing(remote) \subseteq Existing(remote)'
    <2>1. \A j \in Keys : remote'[j] = IF j = k THEN Nothing ELSE remote[j]
      BY <1>1 DEF CloudTyped
    <2> QED
      BY <1>1, <1>2, <2>1 DEF Existing
  <1>5. ASSUME NEW t \in Sessions
        PROVE  (Placed(t) /\ Holds(t) /\ Current(t))'
    <2>1. Placed(t) /\ Holds(t) /\ Current(t) /\ cache[t] = <<>>
      BY <1>2 DEF CloudInv, Placed
    <2>2. held[t] \subseteq Existing(remote)'
      BY <1>4, <2>1 DEF Holds
    <2> QED
      BY <1>1, <1>2, <2>1, <2>2, OtherKeeps DEF Placed
  <1> QED
    BY <1>3, <1>5 DEF CloudInv

LEMMA CloudStepKeeps ==
  ASSUME CloudInv, typid' = typid, typid # "local", CloudNext
  PROVE  CloudInv'
  <1>1. ASSUME NEW s \in Sessions, CloudStep(s)
        PROVE  CloudInv'
    <2>1. CASE RequestFails(s)
      BY <2>1, CallEnds DEF RequestFails
    <2>2. CASE Answered(s)
      BY <2>2, CallEnds DEF Answered
    <2>3. CASE UpdateFails(s)
      BY <2>3, CallEnds DEF UpdateFails
    <2> QED
      BY <1>1, <2>1, <2>2, <2>3, OpenKeepsCloud, EndKeepsCloud, CallKeepsCloud, FetchKeeps,
         ChangeKeeps, UpdateKeeps, CheckKeeps, SetSecretKeeps DEF CloudStep
  <1> QED
    BY <1>1, PurgeKeeps DEF CloudNext

\* The cloud variables are not touched by the steps of a vault.
LEMMA CloudStays ==
  ASSUME CloudInv, typid' = typid, UNCHANGED cloudVars
  PROVE  CloudInv'
  BY DEF CloudInv, CloudTyped, Calls, Placed, Holds, Current, Existing, Document, cloudVars

LEMMA CloudStarts ==
  ASSUME typid \in Types, CloudInit
  PROVE  CloudInv
  <1>1. CloudTyped
    BY DEF CloudInit, CloudTyped, Copies
  <1> QED
    BY <1>1 DEF CloudInit, CloudInv, Placed, Holds, Current
-----------------------------------------------------------------------------
(* A store of any of the types                                              *)

SecretsInv == VaultInv /\ CloudInv

LEMMA SecretsStart == Init => SecretsInv
  BY VaultInit, CloudStarts DEF Init, SecretsInv

LEMMA SecretsStep ==
  ASSUME SecretsInv, [Next]_vars
  PROVE  SecretsInv'
  <1>1. CASE LocalNext
    BY <1>1, VaultStep, CloudStays DEF SecretsInv, LocalNext
  <1>2. CASE RemoteNext
    BY <1>2, VaultStays, CloudStepKeeps DEF SecretsInv, RemoteNext
  <1>3. CASE UNCHANGED vars
    BY <1>3, VaultStays, CloudStays DEF SecretsInv, vars
  <1> QED
    BY <1>1, <1>2, <1>3 DEF Next

LEMMA SecretsAlways == Spec => []SecretsInv
  BY SecretsStart, SecretsStep, PTL DEF Spec

\* The types of both kinds of store; only a session that has read the document holds a
\* copy, and only Azure has names that are deleted and not free.
THEOREM SecretsTyped == Spec => []TypeOK
  <1>1. SecretsInv => TypeOK
    <2> SUFFICES ASSUME SecretsInv
                 PROVE  TypeOK
      OBVIOUS
    <2>1. LocalTypeOK /\ CloudTyped /\ \A s \in Sessions : Placed(s)
      BY DEF SecretsInv, VaultInv, CloudInv
    <2>2. missed \subseteq {s \in Sessions : cache[s] # <<>>}
      BY <2>1 DEF CloudTyped, Placed
    <2>3. typid # "azure" => \A k \in Keys : remote[k] # Deleted
      BY <2>1, ContentsAssumption DEF CloudTyped, Copies
    <2>4. /\ remote \in [Keys -> Values \cup {Nothing, Empty, Deleted}]
          /\ cache \in [Sessions -> {<<>>} \cup [Keys -> Values \cup {Nothing}]]
      <3>1. Copies \cup {Empty, Deleted} = Values \cup {Nothing, Empty, Deleted}
        BY DEF Copies
      <3> QED
        BY <2>1, <3>1 DEF CloudTyped, Copies
    <2> QED
      BY <2>1, <2>2, <2>3, <2>4 DEF CloudTyped, TypeOK
  <1> QED
    BY <1>1, SecretsAlways, PTL

\* A save that succeeded shows: the session that was the last to write the vault file
\* would read back what it has in memory.
THEOREM SavesReadBack == Spec => []SavedIsReadBack
  <1>1. SecretsInv => SavedIsReadBack
    BY VaultReadsBack DEF SecretsInv
  <1> QED
    BY <1>1, SecretsAlways, PTL

\* A vault whose last save succeeded opens again for the configuration it was saved
\* under.
THEOREM VaultReopens == Spec => []Reopens
  <1>1. SecretsInv => Reopens
    BY VaultReadsBack DEF SecretsInv
  <1> QED
    BY <1>1, SecretsAlways, PTL

\* store_secret without replace never writes over a secret that has been there ever since
\* the session looked.
THEOREM ExistingKept == Spec => []KeepsExistingSecret
  <1>1. SecretsInv => KeepsExistingSecret
    BY DEF SecretsInv, CloudInv, Holds, KeepsExistingSecret
  <1> QED
    BY <1>1, SecretsAlways, PTL

\* A change reaches the secret it is of and no other, if the session's copy misses nothing.
THEOREM OthersKept == Spec => OthersUntouched
  <1> DEFINE Untouched ==
        \A s \in Sessions :
          doing[s] = "write" /\ s \notin missed /\ remote' # remote /\ doing'[s] = "idle" =>
            \A k \in Keys : k # call[s].key => remote'[k] = remote[k]
  <1>1. ASSUME SecretsInv, [Next]_vars
        PROVE  [Untouched]_vars
    <2> SUFFICES ASSUME NEW s \in Sessions, doing[s] = "write", s \notin missed,
                        remote' # remote, doing'[s] = "idle",
                        NEW k \in Keys, k # call[s].key
                 PROVE  remote'[k] = remote[k]
      OBVIOUS
    <2>1. CloudTyped /\ Placed(s) /\ Current(s)
      BY <1>1 DEF SecretsInv, CloudInv
    <2>2. RemoteNext
      BY <1>1 DEF Next, LocalNext, vars, cloudVars
    <2>3. PICK t \in Sessions : CloudStep(t)
      BY <2>1, <2>2 DEF RemoteNext, CloudNext, Purge
    <2>4. Update(t) \/ SetSecret(t)
      BY <2>3 DEF CloudStep, CloudOpen, CloudEnd, CloudCall, RequestFails, Fetch, Answered,
                  StoreInCache, DeleteInCache, UpdateFails, Check
    <2>5. doing' = [doing EXCEPT ![t] = "idle"]
      BY <2>4 DEF Update, SetSecret, Back, Become
    <2>6. t = s
      BY <2>1, <2>5 DEF CloudTyped
    <2>7. CASE Update(s)
      <3>1. remote' = cache[s] /\ cache[s] # <<>>
        BY <2>1, <2>7 DEF Update, Accept, Placed
      <3> QED
        BY <2>1, <3>1 DEF Current
    <2>8. CASE SetSecret(s)
      <3> DEFINE new == IF call[s].op = "store" THEN call[s].value ELSE Deleted
      <3>1. remote' = [remote EXCEPT ![call[s].key] = new]
        BY <2>8 DEF SetSecret, Accept
      <3> HIDE DEF new
      <3> QED
        BY <2>1, <3>1 DEF CloudTyped
    <2> QED
      BY <2>4, <2>6, <2>7, <2>8
  <1> QED
    BY <1>1, SecretsAlways, PTL DEF Spec, OthersUntouched
=============================================================================
