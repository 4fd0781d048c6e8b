------------------------------ MODULE SecretStore ------------------------------
(***************************************************************************)
(* Stored secrets and the key they are encrypted with: where the key comes *)
(* from (app/secret_crypto.py), plaintext that is migrated when the        *)
(* service starts, secrets that are saved (app/crud.py, app/routers), and  *)
(* app/rotate_secrets.py, a program of its own beside the service.  Keys   *)
(* are numbered as they are made, and key 0 is none.  Each of the three    *)
(* tables with secrets has one column of them here.                        *)
(***************************************************************************)
EXTENDS Integers

CONSTANTS
    Texts,      \* what a secret may say
    MaxKeys,    \* bound on the keys ever made
    None        \* a column that is NULL or empty

(* In the order in which they are rotated.                                 *)
Order == <<"rpc", "source", "destination">>
Columns == {"rpc", "source", "destination"}

ASSUME SecretAssumption ==
    /\ MaxKeys \in Nat
    /\ None \notin Texts
    /\ None \notin [text : Texts, key : 0 .. MaxKeys]

VARIABLES
    secret,     \* per column: None, or its text and key; key 0 is plaintext
    entered,    \* per column: the text that was last saved
    env,        \* SECRET_ENCRYPTION_KEY at the next start
    file,       \* what /data/.encryption_key holds
    made,       \* keys made so far
    service,    \* "down", "booting" or "up"
    fernet,     \* _fernet: the service's key as long as it runs
    rotation,   \* rotate_secrets: its keys, how many columns it has read,
                \* and what it will write
    lastKey,    \* the service's last key, or that of a rotation since
    mishap,     \* whether the operator has started the service with another
                \* key while there were secrets, or rotated beside it
    replaced,   \* whether the service has made a new key in place of one in
                \* a file it could not read
    overlapped  \* whether a secret was saved after a rotation had read it

keys == <<env, file, made>>
process == <<service, fernet>>
history == <<lastKey, mishap, replaced, overlapped>>
vars == <<secret, entered, keys, process, rotation, history>>

Off == [read |-> -1]

Plain(v) == v # None /\ v.key = 0
UsedKeys == {secret[c].key : c \in {d \in Columns : secret[d] # None}} \ {0}
Opens(k, v) == v # None => v.key \in {0, k}

(* Wrong: an empty value is encrypted like any other.                      *)
Sealed(text, k) == [text |-> text, key |-> k]

Encrypt(text, k) == IF text = None THEN None ELSE [text |-> text, key |-> k]

(* An earlier version may have left plaintext.                             *)
Init ==
    /\ secret \in [Columns -> [text : Texts, key : {0}] \cup {None}]
    /\ entered = [c \in Columns |->
                    IF secret[c] = None THEN None ELSE secret[c].text]
    /\ env = 0 /\ file = 0 /\ made = 0
    /\ service = "down" /\ fernet = 0
    /\ rotation = Off
    /\ lastKey = 0 /\ mishap = FALSE /\ replaced = FALSE /\ overlapped = FALSE

-----------------------------------------------------------------------------
(* The operator sets the variable, to a key there is or to a new one, or   *)
(* removes it, and may lose the file.                                      *)
KeysToGive == 0 .. (IF made < MaxKeys THEN made + 1 ELSE made)
Most(k) == IF k > made THEN k ELSE made

SetEnv(k) ==
    /\ env' = k
    /\ made' = Most(k)
    /\ UNCHANGED <<secret, entered, file, process, rotation, history>>

LoseFile ==
    /\ file' = 0
    /\ UNCHANGED <<secret, entered, env, made, process, rotation, history>>

-----------------------------------------------------------------------------
(* The service starts.                                                     *)

(* Wrong: the file comes before the variable.                              *)
FileFirst(readable) ==
    IF file # 0 /\ readable THEN file ELSE env

(* The variable, else the file if it can be read, else none.               *)
FoundKey(readable) ==
    IF env # 0 THEN env ELSE IF readable THEN file ELSE 0

(* The key the operator has left for the service.                          *)
Provided == IF env # 0 THEN env ELSE file

(* Without a key one is made, and replaces the file if it can be written:  *)
(* also a file that is there, with the key, and could not be read.         *)
Start(readable, writable) ==
    LET found == FoundKey(readable)
    IN  /\ service = "down"
        /\ service' = "booting"
        /\ \/ /\ found # 0
              /\ fernet' = found
              /\ UNCHANGED <<made, file>>
           \/ /\ found = 0 /\ made < MaxKeys
              /\ made' = made + 1
              /\ fernet' = made + 1
              /\ file' = IF writable THEN made + 1 ELSE file
        /\ lastKey' = fernet'
        /\ mishap' = (mishap \/ rotation # Off
                      \/ (UsedKeys # {} /\ Provided # lastKey))
        /\ replaced' = (replaced \/ (env = 0 /\ file # 0 /\ ~readable))
        /\ UNCHANGED <<secret, entered, env, rotation, overlapped>>

(* rotate_secrets writes what has changed so far as soon as it reads on.   *)
Flushed == rotation # Off /\
    \E i \in 1 .. rotation.read - 1 : rotation.writes[Order[i]] # None

(* Wrong: nobody waits for a writer that has not committed.                *)
Unlocked == FALSE

Locked == Flushed

(* Wrong: rows that were read before the last that changed are not added.  *)
MigratedFirst(c) ==
    IF Plain(secret[c]) /\ (c = "destination" => ~Plain(secret["source"]))
    THEN Encrypt(secret[c].text, fernet) ELSE secret[c]

Migrated(c) == IF Plain(secret[c]) THEN Encrypt(secret[c].text, fernet)
               ELSE secret[c]

(* Plaintext is encrypted, in one commit, and requests are served.         *)
Migrate ==
    /\ service = "booting"
    /\ ~Locked
    /\ secret' = [c \in Columns |-> Migrated(c)]
    /\ service' = "up"
    /\ UNCHANGED <<entered, keys, fernet, rotation, history>>

(* It stops or crashes.                                                    *)
Stop ==
    /\ service # "down"
    /\ service' = "down" /\ fernet' = 0
    /\ UNCHANGED <<secret, entered, keys, rotation, history>>

-----------------------------------------------------------------------------
(* A save of the source and one of a destination first read the settings   *)
(* and decrypt them, which fails with another key (that of an SSH source   *)
(* decrypts the destinations too); one of Transmission's only writes.      *)
CanSave(c) == c \in {"source", "destination"} =>
                  Opens(fernet, secret["source"])

ReadColumns == {Order[i] : i \in 1 .. rotation.read}

Save(c, text) ==
    /\ service = "up"
    /\ ~Locked
    /\ CanSave(c)
    /\ secret' = [secret EXCEPT ![c] = Encrypt(text, fernet)]
    /\ entered' = [entered EXCEPT ![c] = text]
    /\ overlapped' = (overlapped \/ (c \in ReadColumns /\ ~Flushed))
    /\ UNCHANGED <<keys, process, rotation, lastKey, mishap, replaced>>

-----------------------------------------------------------------------------
(* rotate_secrets --old-key --new-key.                                     *)

Rotated(v, new) == IF v = None THEN None ELSE Encrypt(v.text, new)

RotateBegin(old, new) ==
    /\ rotation = Off
    /\ rotation' = [old |-> old, new |-> new, read |-> 0,
                    writes |-> [c \in Columns |-> None]]
    /\ made' = Most(new)
    /\ mishap' = (mishap \/ service # "down")
    /\ UNCHANGED <<secret, entered, env, file, process, lastKey, replaced,
                   overlapped>>

(* Wrong: the last table is not rotated.                                   *)
AllButLast(c) == IF c = "destination" THEN None
                 ELSE Rotated(secret[c], rotation.new)

NewValue(c) == Rotated(secret[c], rotation.new)

(* The next is read; it ends at once if the old key does not fit.          *)
RotateRead ==
    /\ rotation # Off /\ rotation.read < 3
    /\ LET c == Order[rotation.read + 1]
       IN  /\ Opens(rotation.old, secret[c])
           /\ rotation' = [rotation EXCEPT !.read = @ + 1,
                              !.writes[c] = NewValue(c)]
    /\ UNCHANGED <<secret, entered, keys, process, history>>

RotateCommit ==
    /\ rotation.read = 3
    /\ secret' = [c \in Columns |-> IF rotation.writes[c] = None
                                    THEN secret[c] ELSE rotation.writes[c]]
    /\ rotation' = Off
    /\ lastKey' = rotation.new
    /\ UNCHANGED <<entered, keys, process, mishap, replaced, overlapped>>

(* It fails or is killed, and nothing is written.                          *)
RotateFails ==
    /\ rotation # Off
    /\ rotation' = Off
    /\ UNCHANGED <<secret, entered, keys, process, history>>

-----------------------------------------------------------------------------
Next ==
    \/ \E k \in KeysToGive : SetEnv(k)
    \/ LoseFile
    \/ \E readable, writable \in BOOLEAN : Start(readable, writable)
    \/ Migrate \/ Stop
    \/ \E c \in Columns, text \in Texts \cup {None} : Save(c, text)
    \/ \E old \in 1 .. made, new \in KeysToGive \ {0} :
          RotateBegin(old, new)
    \/ RotateRead \/ RotateCommit \/ RotateFails

Spec == Init /\ [][Next]_vars

-----------------------------------------------------------------------------
Stored == [text : Texts, key : 0 .. MaxKeys] \cup {None}

(* The types of the variables: the service has a key as long as it runs.   *)
TypeOK ==
    /\ secret \in [Columns -> Stored]
    /\ entered \in [Columns -> Texts \cup {None}]
    /\ env \in 0 .. made /\ file \in 0 .. made /\ made \in 0 .. MaxKeys
    /\ service \in {"down", "booting", "up"}
    /\ fernet \in 0 .. made /\ (fernet = 0 <=> service = "down")
    /\ rotation \in [old : 1 .. made, new : 1 .. made, read : 0 .. 3,
                     writes : [Columns -> Stored]] \cup {Off}
    /\ lastKey \in 0 .. made
    /\ {mishap, replaced, overlapped} \subseteq BOOLEAN

(* Who leaves the service the key that it, or a rotation since, used last, *)
(* in the variable or the file, and does not rotate beside it, has it read *)
(* whatever is stored: through starts that are cut off, rotations that     *)
(* fail anywhere and changes of where the key comes from.  The code breaks *)
(* this in one way, which is excepted here (`replaced'): a start that      *)
(* cannot read the file with the key goes on with a new one.               *)
Readable ==
    service # "down" /\ ~mishap /\ ~replaced =>
        \A c \in Columns : Opens(fernet, secret[c])

(* A rotation takes all secrets to the new key or, when it fails anywhere, *)
(* none: they never end up under two, with the exceptions of Readable.     *)
OneKey == ~mishap /\ ~replaced => \A j, k \in UsedKeys : j = k

(* Nothing is stored in plaintext once the service is up, not by a         *)
(* rotation that read it before it was migrated either.                    *)
NothingPlain == service = "up" => \A c \in Columns : ~Plain(secret[c])

(* Under whatever key, a secret says what was entered last: migration and  *)
(* rotation do not bring an earlier one back, unless one is saved while    *)
(* the rotation is between its reading and its writing.                    *)
TextStands ==
    ~overlapped => \A c \in Columns :
        entered[c] = IF secret[c] = None THEN None ELSE secret[c].text

(* README.md:175 says that secrets that have become unreadable must be     *)
(* entered again: every column of them can be saved.  The page's save of   *)
(* the source decrypts what it is about to replace.                        *)
UnreadableCanBeEntered ==
    service = "up" => \A c \in Columns :
        ~Opens(fernet, secret[c]) => CanSave(c)
=============================================================================
