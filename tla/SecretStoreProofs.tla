-------------------------- MODULE SecretStoreProofs --------------------------
(***************************************************************************)
(* Proofs about SecretStore, for any texts and any number of keys.  IInv   *)
(* is shown inductive: it relates what a rotation has read to the columns, *)
(* to the service beside it and to what was entered since.                 *)
(***************************************************************************)
EXTENDS SecretStore, TLAPS

(* What is not read yet is not to be written, and what is, under the new   *)
(* key.                                                                    *)
WritesUnderNew ==
    rotation # Off => \A c \in Columns :
        rotation.writes[c] # None =>
            c \in ReadColumns /\ rotation.writes[c].key = rotation.new

(* A rotation that is not mistaken is alone, and has left nothing out.     *)
WritesWhole ==
    rotation # Off /\ ~mishap =>
        /\ service = "down"
        /\ \A c \in ReadColumns :
              secret[c] # None => rotation.writes[c] # None

(* What is to be written says what was entered.                            *)
WritesCurrent ==
    rotation # Off /\ ~overlapped => \A c \in ReadColumns :
        entered[c] = IF rotation.writes[c] = None THEN None
                     ELSE rotation.writes[c].text

(* Everything is under the key that was used last, which is the service's  *)
(* while it runs.                                                          *)
UnderLast ==
    ~mishap /\ ~replaced =>
        /\ \A c \in Columns : Opens(lastKey, secret[c])
        /\ service # "down" => fernet = lastKey

IInv ==
    /\ TypeOK
    /\ WritesUnderNew
    /\ WritesWhole
    /\ WritesCurrent
    /\ UnderLast
    /\ NothingPlain
    /\ TextStands

-----------------------------------------------------------------------------
(* A text that is encrypted is not None, and keeps what it says.           *)
LEMMA Encrypted ==
    ASSUME NEW text \in Texts, NEW k \in 0 .. MaxKeys
    PROVE  /\ Encrypt(text, k) \in Stored
           /\ Encrypt(text, k) # None
           /\ Encrypt(text, k).text = text
           /\ Encrypt(text, k).key = k
<1>1. Encrypt(text, k) = [text |-> text, key |-> k]
  BY SecretAssumption DEF Encrypt
<1>2. [text |-> text, key |-> k] \in [text : Texts, key : 0 .. MaxKeys]
  OBVIOUS
<1> QED BY <1>1, <1>2, SecretAssumption DEF Stored

LEMMA EncryptedNone == \A k : Encrypt(None, k) = None
BY DEF Encrypt

LEMMA RotatedType ==
    ASSUME NEW v \in Stored, NEW k \in 1 .. MaxKeys
    PROVE  /\ Rotated(v, k) \in Stored
           /\ Rotated(v, k) = None <=> v = None
           /\ v # None => /\ Rotated(v, k).text = v.text
                          /\ Rotated(v, k).key = k
<1>1. CASE v = None
  BY <1>1 DEF Rotated, Stored
<1>2. CASE v # None
  <2>1. v \in [text : Texts, key : 0 .. MaxKeys] /\ k \in 0 .. MaxKeys
    BY <1>2 DEF Stored
  <2>2. v.text \in Texts
    BY <2>1
  <2> QED BY <1>2, <2>1, <2>2, Encrypted DEF Rotated
<1> QED BY <1>1, <1>2

(* A rotation in progress has its keys, and has read up to three columns.  *)
LEMMA RotationType ==
    ASSUME TypeOK, rotation # Off
    PROVE  /\ rotation.old \in 1 .. made /\ rotation.new \in 1 .. made
           /\ rotation.new \in 1 .. MaxKeys
           /\ rotation.read \in 0 .. 3
           /\ rotation.writes \in [Columns -> Stored]
           /\ rotation = [old |-> rotation.old, new |-> rotation.new,
                          read |-> rotation.read, writes |-> rotation.writes]
<1>1. rotation \in [old : 1 .. made, new : 1 .. made, read : 0 .. 3,
                    writes : [Columns -> Stored]]
  BY DEF TypeOK
<1>2. made \in 0 .. MaxKeys
  BY DEF TypeOK
<1>3. 1 .. made \subseteq 1 .. MaxKeys
  BY <1>2, SecretAssumption
<1> QED BY <1>1, <1>3

LEMMA ReadSoFar ==
    ASSUME TypeOK, rotation # Off
    PROVE  /\ ReadColumns \subseteq Columns
           /\ rotation.read = 0 => ReadColumns = {}
           /\ rotation.read = 3 => ReadColumns = Columns
<1>1. rotation.read \in 0 .. 3
  BY RotationType
<1>2. Order[1] = "rpc" /\ Order[2] = "source" /\ Order[3] = "destination"
  BY DEF Order
<1>3. \A i \in 1 .. 3 : Order[i] \in Columns
  BY <1>2 DEF Columns
<1>4. \A i \in 1 .. rotation.read : i \in 1 .. 3
  BY <1>1
<1>5. ReadColumns \subseteq Columns
  BY <1>3, <1>4 DEF ReadColumns
<1>6. ASSUME rotation.read = 3 PROVE Columns \subseteq ReadColumns
  BY <1>2, <1>6 DEF ReadColumns, Columns
<1>7. ASSUME rotation.read = 0 PROVE ReadColumns = {}
  BY <1>7 DEF ReadColumns
<1> QED BY <1>5, <1>6, <1>7

(* Reading on adds the column that is read.                                *)
LEMMA ReadOn ==
    ASSUME TypeOK, RotateRead
    PROVE  LET c == Order[rotation.read + 1]
           IN  /\ c \in Columns /\ c \notin ReadColumns
               /\ ReadColumns' = ReadColumns \cup {c}
               /\ rotation' # Off
               /\ rotation'.new = rotation.new
               /\ rotation'.writes =
                    [rotation.writes EXCEPT ![c] = NewValue(c)]
<1> DEFINE n == rotation.read
           c == Order[n + 1]
<1>1. rotation # Off /\ n \in 0 .. 2
  BY RotationType DEF RotateRead
<1>2. rotation' = [rotation EXCEPT !.read = n + 1,
                                   !.writes[c] = NewValue(c)]
  BY DEF RotateRead
<1>3. /\ rotation'.read = n + 1 /\ rotation'.new = rotation.new
      /\ rotation'.writes = [rotation.writes EXCEPT ![c] = NewValue(c)]
  BY <1>1, <1>2, RotationType
<1>4. rotation' # Off
  BY <1>1, <1>3 DEF Off
<1>5. Order[1] = "rpc" /\ Order[2] = "source" /\ Order[3] = "destination"
  BY DEF Order
<1>6. c \in Columns /\ c \notin ReadColumns
  BY <1>1, <1>5 DEF ReadColumns, Columns
<1>7. ReadColumns' = {Order[i] : i \in 1 .. n + 1}
  BY <1>3 DEF ReadColumns
<1>8. 1 .. n + 1 = (1 .. n) \cup {n + 1}
  BY <1>1
<1>9. ReadColumns' = ReadColumns \cup {c}
  BY <1>7, <1>8 DEF ReadColumns
<1> QED BY <1>3, <1>4, <1>6, <1>9

LEMMA InitType == Init => TypeOK
<1> SUFFICES ASSUME Init PROVE TypeOK
  OBVIOUS
<1>1. [text : Texts, key : {0}] \subseteq [text : Texts, key : 0 .. MaxKeys]
  BY SecretAssumption
<1>2. secret \in [Columns -> Stored]
  BY <1>1 DEF Init, Stored
<1>3. entered \in [Columns -> Texts \cup {None}]
  <2>1. ASSUME NEW c \in Columns, secret[c] # None
        PROVE  secret[c].text \in Texts
    BY <2>1, <1>2 DEF Stored
  <2> QED BY <2>1 DEF Init
<1>4. env \in 0 .. made /\ file \in 0 .. made /\ fernet \in 0 .. made
      /\ lastKey \in 0 .. made /\ made \in 0 .. MaxKeys
  BY SecretAssumption DEF Init
<1> QED BY <1>2, <1>3, <1>4 DEF Init, TypeOK

(* Keys that were made stay made.                                          *)
LEMMA MoreKeys ==
    ASSUME TypeOK, NEW m \in made .. MaxKeys
    PROVE  /\ env \in 0 .. m /\ file \in 0 .. m /\ fernet \in 0 .. m
           /\ lastKey \in 0 .. m
           /\ rotation \in [old : 1 .. m, new : 1 .. m, read : 0 .. 3,
                            writes : [Columns -> Stored]] \cup {Off}
<1>1. made \in 0 .. MaxKeys
  BY DEF TypeOK
<1>2. 0 .. made \subseteq 0 .. m /\ 1 .. made \subseteq 1 .. m
  BY <1>1, SecretAssumption
<1>3. CASE rotation = Off
  BY <1>2, <1>3 DEF TypeOK
<1>4. CASE rotation # Off
  BY <1>2, <1>4, RotationType, Zenon DEF TypeOK
<1>5. env \in 0 .. m /\ file \in 0 .. m /\ fernet \in 0 .. m
      /\ lastKey \in 0 .. m
  BY <1>2 DEF TypeOK
<1>6. rotation \in [old : 1 .. m, new : 1 .. m, read : 0 .. 3,
                    writes : [Columns -> Stored]] \cup {Off}
  <2>1. CASE rotation = Off
    BY <2>1
  <2>2. CASE rotation # Off
    BY <2>2, <1>2, RotationType
  <2> QED BY <2>1, <2>2
<1> QED BY <1>5, <1>6

LEMMA KeysToGiveType ==
    ASSUME TypeOK, NEW k \in KeysToGive
    PROVE  /\ Most(k) \in made .. MaxKeys
           /\ k \in 0 .. Most(k)
BY SecretAssumption DEF TypeOK, KeysToGive, Most

(* A column of what is stored, and whoever has a key, have a proper one.   *)
LEMMA ServiceKey ==
    ASSUME TypeOK, service # "down"
    PROVE  fernet \in 1 .. MaxKeys
BY SecretAssumption DEF TypeOK

LEMMA MigratedType ==
    ASSUME TypeOK, service # "down", NEW c \in Columns
    PROVE  /\ Migrated(c) \in Stored
           /\ Migrated(c) = None <=> secret[c] = None
           /\ secret[c] # None =>
                 /\ Migrated(c).text = secret[c].text
                 /\ Migrated(c).key =
                       IF secret[c].key = 0 THEN fernet ELSE secret[c].key
<1>1. fernet \in 1 .. MaxKeys
  BY ServiceKey
<1>2. secret[c] \in Stored
  BY DEF TypeOK
<1>3. CASE Plain(secret[c])
  <2>1. secret[c] # None /\ secret[c].key = 0
    BY <1>3 DEF Plain
  <2>2. secret[c].text \in Texts /\ fernet \in 0 .. MaxKeys
    BY <1>1, <1>2, <2>1 DEF Stored
  <2> QED BY <1>3, <2>1, <2>2, Encrypted DEF Migrated
<1>4. CASE ~Plain(secret[c])
  BY <1>2, <1>4 DEF Migrated, Plain
<1> QED BY <1>3, <1>4

LEMMA SavedType ==
    ASSUME TypeOK, service # "down", NEW text \in Texts \cup {None}
    PROVE  /\ Encrypt(text, fernet) \in Stored
           /\ Encrypt(text, fernet) = None <=> text = None
           /\ text # None => /\ Encrypt(text, fernet).text = text
                             /\ Encrypt(text, fernet).key = fernet
<1>1. fernet \in 0 .. MaxKeys
  BY ServiceKey
<1>2. CASE text = None
  BY <1>2, EncryptedNone DEF Stored
<1>3. CASE text # None
  BY <1>1, <1>3, Encrypted
<1> QED BY <1>2, <1>3

LEMMA NewValueType ==
    ASSUME TypeOK, rotation # Off, NEW c \in Columns
    PROVE  /\ NewValue(c) \in Stored
           /\ NewValue(c) = None <=> secret[c] = None
           /\ secret[c] # None => /\ NewValue(c).text = secret[c].text
                                  /\ NewValue(c).key = rotation.new
BY RotationType, RotatedType DEF NewValue, TypeOK

LEMMA NextType == TypeOK /\ [Next]_vars => TypeOK'
<1> SUFFICES ASSUME TypeOK, [Next]_vars PROVE TypeOK'
  OBVIOUS
<1>1. ASSUME NEW k \in KeysToGive, SetEnv(k) PROVE TypeOK'
  BY <1>1, KeysToGiveType, MoreKeys, SecretAssumption
     DEF SetEnv, TypeOK, process, history
<1>2. CASE LoseFile
  BY <1>2 DEF LoseFile, TypeOK, process, history
<1>3. ASSUME NEW readable \in BOOLEAN, NEW writable \in BOOLEAN,
             Start(readable, writable)
      PROVE  TypeOK'
  <2> DEFINE found == FoundKey(readable)
  <2>1. found \in 0 .. made
    BY DEF FoundKey, TypeOK
  <2>2. /\ mishap' \in BOOLEAN /\ replaced' \in BOOLEAN
        /\ overlapped' \in BOOLEAN /\ lastKey' = fernet'
    BY <1>3 DEF Start, TypeOK
  <2>3. CASE found # 0 /\ fernet' = found /\ UNCHANGED <<made, file>>
    BY <1>3, <2>1, <2>2, <2>3 DEF Start, TypeOK
  <2>4. CASE /\ made < MaxKeys /\ made' = made + 1 /\ fernet' = made + 1
             /\ file' = IF writable THEN made + 1 ELSE file
    <3>1. made + 1 \in made .. MaxKeys /\ made \in Nat
      BY <2>4, SecretAssumption DEF TypeOK
    <3> QED BY <1>3, <2>2, <2>4, <3>1, MoreKeys, SecretAssumption
            DEF Start, TypeOK
  <2> QED BY <1>3, <2>3, <2>4 DEF Start
<1>4. CASE Migrate
  <2>1. secret' \in [Columns -> Stored]
    BY <1>4, MigratedType DEF Migrate
  <2> QED BY <1>4, <2>1 DEF Migrate, TypeOK, keys, history
<1>5. CASE Stop
  BY <1>5 DEF Stop, TypeOK, keys, history
<1>6. ASSUME NEW c \in Columns, NEW text \in Texts \cup {None}, Save(c, text)
      PROVE  TypeOK'
  <2>1. secret' \in [Columns -> Stored]
    BY <1>6, SavedType DEF Save, TypeOK
  <2>2. overlapped' \in BOOLEAN
    BY <1>6 DEF Save
  <2> QED BY <1>6, <2>1, <2>2 DEF Save, TypeOK, keys, process
<1>7. ASSUME NEW old \in 1 .. made, NEW new \in KeysToGive \ {0},
             RotateBegin(old, new)
      PROVE  TypeOK'
  <2>1. Most(new) \in made .. MaxKeys /\ new \in 1 .. Most(new)
    BY KeysToGiveType, SecretAssumption DEF TypeOK
  <2>2. old \in 1 .. Most(new)
    BY <2>1, SecretAssumption DEF TypeOK
  <2>3. [c \in Columns |-> None] \in [Columns -> Stored]
    BY DEF Stored
  <2>4. mishap' \in BOOLEAN /\ UNCHANGED <<lastKey, replaced, overlapped>>
    BY <1>7 DEF RotateBegin
  <2> QED BY <1>7, <2>1, <2>2, <2>3, <2>4, MoreKeys, SecretAssumption
          DEF RotateBegin, TypeOK, process
<1>8. CASE RotateRead
  <2>1. rotation # Off /\ rotation.read \in 0 .. 2
    BY <1>8, RotationType DEF RotateRead
  <2> DEFINE c == Order[rotation.read + 1]
  <2>2. c \in Columns /\ NewValue(c) \in Stored
    BY <1>8, <2>1, ReadOn, NewValueType
  <2>3. rotation' = [rotation EXCEPT !.read = rotation.read + 1,
                                     !.writes[c] = NewValue(c)]
    BY <1>8 DEF RotateRead
  <2> HIDE DEF c
  <2> DEFINE writes == [rotation.writes EXCEPT ![c] = NewValue(c)]
  <2>4. rotation' = [old |-> rotation.old, new |-> rotation.new,
                     read |-> rotation.read + 1, writes |-> writes]
    BY <2>1, <2>3, RotationType
  <2>5. writes \in [Columns -> Stored]
    BY <2>1, <2>2, RotationType
  <2>6. rotation.read + 1 \in 0 .. 3
    BY <2>1
  <2> HIDE DEF writes
  <2>7. rotation' \in [old : 1 .. made, new : 1 .. made, read : 0 .. 3,
                       writes : [Columns -> Stored]]
    BY <2>1, <2>4, <2>5, <2>6, RotationType
  <2> QED BY <1>8, <2>7 DEF RotateRead, TypeOK, keys, process, history
<1>9. CASE RotateCommit
  <2>1. rotation # Off
    BY <1>9 DEF RotateCommit, Off
  <2>2. secret' \in [Columns -> Stored]
    BY <1>9, <2>1, RotationType DEF RotateCommit, TypeOK
  <2>3. lastKey' \in 0 .. made /\ UNCHANGED <<mishap, replaced, overlapped>>
    BY <1>9, <2>1, RotationType DEF RotateCommit
  <2> QED BY <1>9, <2>2, <2>3 DEF RotateCommit, TypeOK, keys, process
<1>10. CASE RotateFails
  BY <1>10 DEF RotateFails, TypeOK, keys, process, history
<1>11. CASE UNCHANGED vars
  BY <1>11 DEF vars, TypeOK, keys, process, history
<1> QED BY <1>1, <1>2, <1>3, <1>4, <1>5, <1>6, <1>7, <1>8, <1>9, <1>10,
           <1>11 DEF Next

(* The variables keep their types: among them, the service has a key as    *)
(* long as it runs.                                                        *)
THEOREM TypeCorrect == Spec => []TypeOK
BY InitType, NextType, PTL DEF Spec

-----------------------------------------------------------------------------
(* Steps of the rotation and steps of the service, for all conjuncts.      *)

LEMMA Begun ==
    ASSUME TypeOK, NEW old \in 1 .. made, NEW new \in KeysToGive \ {0},
           RotateBegin(old, new)
    PROVE  /\ rotation' # Off /\ rotation = Off
           /\ ReadColumns' = {}
           /\ \A c \in Columns : rotation'.writes[c] = None
           /\ ~mishap' => ~mishap /\ service = "down"
           /\ UNCHANGED <<secret, entered, service, fernet, overlapped>>
<1>1. rotation' = [old |-> old, new |-> new, read |-> 0,
                   writes |-> [c \in Columns |-> None]]
  BY DEF RotateBegin
<1>2. rotation'.read = 0
  BY <1>1
<1>3. rotation' # Off /\ ReadColumns' = {}
  BY <1>2 DEF Off, ReadColumns
<1>4. \A c \in Columns : rotation'.writes[c] = None
  BY <1>1
<1>5. ~mishap' => ~mishap /\ service = "down"
  BY Zenon DEF RotateBegin
<1> QED BY <1>3, <1>4, <1>5 DEF RotateBegin, process

(* All columns are read when it commits.                                   *)
LEMMA Committed ==
    ASSUME TypeOK, RotateCommit
    PROVE  /\ rotation # Off /\ rotation' = Off
           /\ ReadColumns = Columns
           /\ \A c \in Columns : secret'[c] =
                IF rotation.writes[c] = None THEN secret[c]
                ELSE rotation.writes[c]
           /\ UNCHANGED <<entered, service, fernet, mishap, overlapped>>
<1>1. rotation # Off /\ rotation.read = 3
  BY DEF RotateCommit, Off
<1> QED BY <1>1, ReadSoFar DEF RotateCommit, process, history

LEMMA NextWritesUnderNew ==
    TypeOK /\ WritesUnderNew /\ [Next]_vars => WritesUnderNew'
<1> SUFFICES ASSUME TypeOK, WritesUnderNew, [Next]_vars
             PROVE  WritesUnderNew'
  OBVIOUS
<1>1. ASSUME UNCHANGED rotation PROVE WritesUnderNew'
  BY <1>1 DEF WritesUnderNew, ReadColumns
<1>2. ASSUME rotation' = Off PROVE WritesUnderNew'
  BY <1>2 DEF WritesUnderNew
<1>3. ASSUME NEW old \in 1 .. made, NEW new \in KeysToGive \ {0},
             RotateBegin(old, new)
      PROVE  WritesUnderNew'
  BY <1>3, Begun DEF WritesUnderNew
<1>4. CASE RotateRead
  <2>1. rotation # Off
    BY <1>4 DEF RotateRead
  <2> DEFINE c == Order[rotation.read + 1]
  <2>2. /\ c \in Columns /\ c \notin ReadColumns
        /\ ReadColumns' = ReadColumns \cup {c}
        /\ rotation'.new = rotation.new
        /\ rotation'.writes = [rotation.writes EXCEPT ![c] = NewValue(c)]
    BY <1>4, ReadOn
  <2> HIDE DEF c
  <2>3. NewValue(c) = None \/ NewValue(c).key = rotation.new
    BY <2>1, <2>2, NewValueType
  <2> QED BY <2>1, <2>2, <2>3, RotationType DEF WritesUnderNew
<1> QED BY <1>1, <1>2, <1>3, <1>4
        DEF Next, SetEnv, LoseFile, Start, Migrate, Stop, Save, RotateCommit,
            RotateFails, vars, process

LEMMA NextWritesWhole ==
    TypeOK /\ WritesWhole /\ [Next]_vars => WritesWhole'
<1> SUFFICES ASSUME TypeOK, WritesWhole, [Next]_vars
             PROVE  WritesWhole'
  OBVIOUS
<1>1. ASSUME UNCHANGED <<rotation, secret, service, mishap>>
      PROVE  WritesWhole'
  BY <1>1 DEF WritesWhole, ReadColumns
<1>2. ASSUME rotation' = Off PROVE WritesWhole'
  BY <1>2 DEF WritesWhole
<1>3. ASSUME NEW old \in 1 .. made, NEW new \in KeysToGive \ {0},
             RotateBegin(old, new)
      PROVE  WritesWhole'
  BY <1>3, Begun DEF WritesWhole
<1>4. ASSUME NEW readable \in BOOLEAN, NEW writable \in BOOLEAN,
             Start(readable, writable)
      PROVE  WritesWhole'
  BY <1>4 DEF Start, WritesWhole
<1>5. ASSUME Migrate \/ Stop \/ \E c \in Columns, text \in Texts \cup {None} :
                                   Save(c, text)
      PROVE  WritesWhole'
  <2>1. service # "down" /\ UNCHANGED <<rotation, mishap>>
    BY <1>5 DEF Migrate, Stop, Save, history
  <2> QED BY <2>1 DEF WritesWhole
<1>6. CASE RotateRead
  <2>1. rotation # Off /\ UNCHANGED <<secret, service, mishap>>
    BY <1>6 DEF RotateRead, process, history
  <2> DEFINE c == Order[rotation.read + 1]
  <2>2. /\ c \in Columns
        /\ ReadColumns' = ReadColumns \cup {c}
        /\ rotation'.writes = [rotation.writes EXCEPT ![c] = NewValue(c)]
    BY <1>6, ReadOn
  <2> HIDE DEF c
  <2>3. secret[c] # None => NewValue(c) # None
    BY <2>1, <2>2, NewValueType
  <2> QED BY <2>1, <2>2, <2>3, RotationType, ReadSoFar DEF WritesWhole
<1> QED BY <1>1, <1>2, <1>3, <1>4, <1>5, <1>6
        DEF Next, SetEnv, LoseFile, RotateCommit, RotateFails, vars, process,
            history

LEMMA NextWritesCurrent ==
    TypeOK /\ WritesCurrent /\ TextStands /\ [Next]_vars => WritesCurrent'
<1> SUFFICES ASSUME TypeOK, WritesCurrent, TextStands, [Next]_vars
             PROVE  WritesCurrent'
  OBVIOUS
<1>1. ASSUME UNCHANGED <<rotation, entered, overlapped>>
      PROVE  WritesCurrent'
  BY <1>1 DEF WritesCurrent, ReadColumns
<1>2. ASSUME rotation' = Off PROVE WritesCurrent'
  BY <1>2 DEF WritesCurrent
<1>3. ASSUME NEW old \in 1 .. made, NEW new \in KeysToGive \ {0},
             RotateBegin(old, new)
      PROVE  WritesCurrent'
  BY <1>3, Begun DEF WritesCurrent
<1>4. ASSUME NEW c \in Columns, NEW text \in Texts \cup {None},
             Save(c, text)
      PROVE  WritesCurrent'
  <2>1. SUFFICES ASSUME rotation # Off, ~overlapped'
                 PROVE  WritesCurrent'
    BY <1>4 DEF Save, WritesCurrent
  <2>2. c \notin ReadColumns /\ ~overlapped
    BY <1>4, <2>1 DEF Save, Locked
  <2>3. entered' = [entered EXCEPT ![c] = text] /\ UNCHANGED rotation
    BY <1>4 DEF Save
  <2>4. \A d \in ReadColumns : entered'[d] = entered[d]
    BY <2>1, <2>2, <2>3, ReadSoFar DEF TypeOK
  <2>5. ReadColumns' = ReadColumns
    BY <2>3 DEF ReadColumns
  <2> QED BY <2>1, <2>2, <2>3, <2>4, <2>5 DEF WritesCurrent
<1>5. CASE RotateRead
  <2>1. rotation # Off /\ UNCHANGED <<secret, entered, overlapped>>
    BY <1>5 DEF RotateRead, history
  <2> DEFINE c == Order[rotation.read + 1]
  <2>2. /\ c \in Columns /\ c \notin ReadColumns
        /\ ReadColumns' = ReadColumns \cup {c}
        /\ rotation'.writes = [rotation.writes EXCEPT ![c] = NewValue(c)]
    BY <1>5, ReadOn
  <2> HIDE DEF c
  <2>3. /\ NewValue(c) = None <=> secret[c] = None
        /\ secret[c] # None => NewValue(c).text = secret[c].text
    BY <2>1, <2>2, NewValueType
  <2>4. ~overlapped =>
          entered[c] = IF NewValue(c) = None THEN None ELSE NewValue(c).text
    BY <2>2, <2>3 DEF TextStands
  <2>5. rotation'.writes[c] = NewValue(c)
    BY <2>1, <2>2, RotationType
  <2>6. \A d \in ReadColumns : rotation'.writes[d] = rotation.writes[d]
    BY <2>1, <2>2, RotationType, ReadSoFar
  <2> QED BY <2>1, <2>2, <2>4, <2>5, <2>6 DEF WritesCurrent
<1> QED BY <1>1, <1>2, <1>3, <1>4, <1>5
        DEF Next, SetEnv, LoseFile, Start, Migrate, Stop, RotateCommit,
            RotateFails, vars, process, history

-----------------------------------------------------------------------------
(* The properties.                                                         *)

LEMMA NextUnderLast ==
    TypeOK /\ UnderLast /\ WritesUnderNew /\ WritesWhole /\ [Next]_vars =>
        UnderLast'
<1> SUFFICES ASSUME TypeOK, UnderLast, WritesUnderNew, WritesWhole,
                    [Next]_vars, ~mishap', ~replaced'
             PROVE  UnderLast'
  BY DEF UnderLast
<1>1. ASSUME UNCHANGED <<secret, service, fernet, lastKey>>,
             ~mishap, ~replaced
      PROVE  UnderLast'
  BY <1>1 DEF UnderLast
<1>2. ASSUME NEW readable \in BOOLEAN, NEW writable \in BOOLEAN,
             Start(readable, writable)
      PROVE  UnderLast'
  <2>1. /\ ~mishap /\ ~replaced /\ lastKey' = fernet' /\ secret' = secret
        /\ UsedKeys = {} \/ Provided = lastKey
        /\ ~(env = 0 /\ file # 0 /\ ~readable)
        /\ FoundKey(readable) # 0 => fernet' = FoundKey(readable)
    BY <1>2, Zenon DEF Start
  <2>2. SUFFICES ASSUME NEW c \in Columns, secret[c] # None,
                        secret[c].key # 0
                 PROVE  secret[c].key = fernet'
    BY <2>1 DEF UnderLast, Opens
  <2>3. secret[c].key = lastKey
    BY <2>1, <2>2 DEF UnderLast, Opens
  <2>4. secret[c].key \in UsedKeys
    BY <2>2 DEF UsedKeys
  <2>5. Provided = lastKey /\ Provided # 0
    BY <2>1, <2>2, <2>3, <2>4
  <2>6. FoundKey(readable) = Provided
    BY <2>1, <2>5 DEF Provided, FoundKey
  <2> QED BY <2>1, <2>3, <2>5, <2>6
<1>3. CASE Migrate
  <2>1. \A c \in Columns : Opens(fernet, secret[c]) =>
                               Opens(fernet, Migrated(c))
    BY <1>3, MigratedType DEF Migrate, Opens
  <2>2. /\ service # "down"
        /\ UNCHANGED <<fernet, lastKey, mishap, replaced>>
        /\ \A c \in Columns : secret'[c] = Migrated(c)
    BY <1>3 DEF Migrate, history
  <2> QED BY <2>1, <2>2 DEF UnderLast
<1>4. CASE Stop
  BY <1>4 DEF Stop, UnderLast, history
<1>5. ASSUME NEW c \in Columns, NEW text \in Texts \cup {None}, Save(c, text)
      PROVE  UnderLast'
  <2>1. service # "down" /\ UNCHANGED <<fernet, lastKey, mishap, replaced>>
    BY <1>5 DEF Save, process
  <2>2. Opens(fernet, Encrypt(text, fernet))
    BY <2>1, SavedType DEF Opens
  <2>3. \A d \in Columns : secret'[d] = IF d = c THEN Encrypt(text, fernet)
                                        ELSE secret[d]
    BY <1>5 DEF Save, TypeOK
  <2> QED BY <2>1, <2>2, <2>3 DEF UnderLast
<1>6. ASSUME NEW old \in 1 .. made, NEW new \in KeysToGive \ {0},
             RotateBegin(old, new)
      PROVE  UnderLast'
  <2>1. UNCHANGED <<secret, service, fernet, lastKey, replaced>> /\ ~mishap
    BY <1>6, Begun DEF RotateBegin
  <2> QED BY <1>1, <2>1
<1>7. CASE RotateCommit
  <2>1. /\ lastKey' = rotation.new /\ UNCHANGED <<mishap, service>>
        /\ rotation # Off /\ ReadColumns = Columns
        /\ \A c \in Columns : secret'[c] =
             IF rotation.writes[c] = None THEN secret[c]
             ELSE rotation.writes[c]
    BY <1>7, Committed DEF RotateCommit
  <2>2. service' = "down"
    BY <2>1 DEF WritesWhole
  <2>3. \A c \in Columns : Opens(rotation.new, secret'[c])
    BY <2>1 DEF WritesWhole, WritesUnderNew, Opens
  <2> QED BY <2>1, <2>2, <2>3 DEF UnderLast
<1>8. ASSUME \/ \E k \in KeysToGive : SetEnv(k)
             \/ LoseFile \/ RotateRead \/ RotateFails \/ UNCHANGED vars
      PROVE  UnderLast'
  BY <1>1, <1>8 DEF SetEnv, LoseFile, RotateRead, RotateFails, vars, process,
                    history
<1> QED BY <1>2, <1>3, <1>4, <1>5, <1>6, <1>7, <1>8 DEF Next

LEMMA NextNothingPlain ==
    TypeOK /\ NothingPlain /\ WritesUnderNew /\ [Next]_vars => NothingPlain'
<1> SUFFICES ASSUME TypeOK, NothingPlain, WritesUnderNew, [Next]_vars
             PROVE  NothingPlain'
  OBVIOUS
<1>1. ASSUME UNCHANGED <<secret, service>> PROVE NothingPlain'
  BY <1>1 DEF NothingPlain
<1>2. ASSUME service' # "up" PROVE NothingPlain'
  BY <1>2 DEF NothingPlain
<1>3. CASE Migrate
  <2>1. \A c \in Columns : ~Plain(Migrated(c))
    BY <1>3, MigratedType, ServiceKey DEF Migrate, Plain
  <2> QED BY <1>3, <2>1 DEF Migrate, NothingPlain
<1>4. ASSUME NEW c \in Columns, NEW text \in Texts \cup {None}, Save(c, text)
      PROVE  NothingPlain'
  <2>1. service = "up" /\ service' = "up"
    BY <1>4 DEF Save, process
  <2>2. ~Plain(Encrypt(text, fernet))
    BY <2>1, SavedType, ServiceKey DEF Plain
  <2>3. \A d \in Columns : secret'[d] = IF d = c THEN Encrypt(text, fernet)
                                        ELSE secret[d]
    BY <1>4 DEF Save, TypeOK
  <2> QED BY <2>1, <2>2, <2>3 DEF NothingPlain
<1>5. CASE RotateCommit
  <2>1. rotation # Off /\ rotation.new # 0
    BY <1>5, Committed, RotationType
  <2>2. \A c \in Columns : ~Plain(secret[c]) => ~Plain(secret'[c])
    BY <1>5, <2>1, Committed DEF WritesUnderNew, Plain
  <2> QED BY <1>5, <2>2, Committed DEF NothingPlain
<1>6. ASSUME NEW old \in 1 .. made, NEW new \in KeysToGive \ {0},
             RotateBegin(old, new)
      PROVE  NothingPlain'
  BY <1>1, <1>6, Begun
<1> QED BY <1>1, <1>2, <1>3, <1>4, <1>5, <1>6
        DEF Next, SetEnv, LoseFile, Start, Stop, RotateRead, RotateFails,
            vars, process

LEMMA NextTextStands ==
    TypeOK /\ TextStands /\ WritesCurrent /\ [Next]_vars => TextStands'
<1> SUFFICES ASSUME TypeOK, TextStands, WritesCurrent, [Next]_vars
             PROVE  TextStands'
  OBVIOUS
<1>1. ASSUME UNCHANGED <<secret, entered, overlapped>> PROVE TextStands'
  BY <1>1 DEF TextStands
<1>2. CASE Migrate
  <2>1. /\ service # "down" /\ UNCHANGED <<entered, overlapped>>
        /\ \A c \in Columns : secret'[c] = Migrated(c)
    BY <1>2 DEF Migrate, history
  <2> QED BY <2>1, MigratedType DEF TextStands
<1>3. ASSUME NEW c \in Columns, NEW text \in Texts \cup {None}, Save(c, text)
      PROVE  TextStands'
  <2>1. SUFFICES ASSUME ~overlapped' PROVE TextStands'
    BY DEF TextStands
  <2>2. service # "down" /\ ~overlapped
    BY <1>3, <2>1, Zenon DEF Save
  <2>3. \A d \in Columns :
          /\ secret'[d] = IF d = c THEN Encrypt(text, fernet) ELSE secret[d]
          /\ entered'[d] = IF d = c THEN text ELSE entered[d]
    BY <1>3 DEF Save, TypeOK
  <2> QED BY <2>2, <2>3, SavedType DEF TextStands
<1>4. CASE RotateCommit
  BY <1>4, Committed DEF TextStands, WritesCurrent
<1>5. ASSUME NEW old \in 1 .. made, NEW new \in KeysToGive \ {0},
             RotateBegin(old, new)
      PROVE  TextStands'
  BY <1>1, <1>5, Begun
<1> QED BY <1>1, <1>2, <1>3, <1>4, <1>5
        DEF Next, SetEnv, LoseFile, Start, Stop, RotateRead, RotateFails,
            vars, process, history

LEMMA InitInv == Init => IInv
<1> SUFFICES ASSUME Init PROVE IInv
  OBVIOUS
<1>1. rotation = Off /\ service = "down"
  BY DEF Init
<1>2. UnderLast
  BY DEF Init, UnderLast, Opens
<1>3. TextStands
  BY DEF Init, TextStands
<1> QED BY <1>1, <1>2, <1>3, InitType
        DEF IInv, WritesUnderNew, WritesWhole, WritesCurrent, NothingPlain

(* What a rotation has read stays what it is about to replace, as far as   *)
(* the properties need it; all of them are invariants together.            *)
THEOREM Invariance == Spec => []IInv
<1>1. IInv /\ [Next]_vars => IInv'
  BY NextType, NextWritesUnderNew, NextWritesWhole, NextWritesCurrent,
     NextUnderLast, NextNothingPlain, NextTextStands DEF IInv
<1> QED BY InitInv, <1>1, PTL DEF Spec

(* A service that is left the key used last, alone with its secrets, can   *)
(* decrypt all of them, as long as its start does not replace a key file   *)
(* that it cannot read (_load_or_generate_key).                            *)
THEOREM ReadableHolds == Spec => []Readable
<1>1. IInv => Readable
  BY DEF IInv, UnderLast, Readable
<1> QED BY Invariance, <1>1, PTL

(* A rotation takes all secrets to the new key or none.                    *)
THEOREM OneKeyHolds == Spec => []OneKey
<1>1. IInv => OneKey
  BY DEF IInv, UnderLast, OneKey, UsedKeys, Opens
<1> QED BY Invariance, <1>1, PTL

(* Nothing is plaintext once the service is up.                            *)
THEOREM NothingPlainHolds == Spec => []NothingPlain
<1>1. IInv => NothingPlain
  BY DEF IInv
<1> QED BY Invariance, <1>1, PTL

(* Migration and rotation keep what a secret says, unless one is saved     *)
(* between a rotation's reading of it and its commit.                      *)
THEOREM TextStandsHolds == Spec => []TextStands
<1>1. IInv => TextStands
  BY DEF IInv
<1> QED BY Invariance, <1>1, PTL
=============================================================================
