# Transmission Mover in TLA+

Transmission Mover is a FastAPI service that moves or copies completed
Transmission torrents to destinations chosen by their labels. This directory
holds TLA+ specifications of its core, the TLC configurations that check them
on small instances, and proofs for TLAPS. Line numbers refer to `src/`.

1. [Inventory](#1-inventory)
2. [Modules](#2-modules)
3. [Runs](#3-runs)
4. [Fairness](#4-fairness)
5. [Proofs](#5-proofs)
6. [What the code does otherwise than its documents say](#6-what-the-code-does-otherwise-than-its-documents-say)
7. [What is not modelled](#7-what-is-not-modelled)
8. [Plan](#8-plan)

## 1. Inventory

| component | state | operations | hard behaviour | what makes it correct |
|---|---|---|---|---|
| Move worker (`app/worker.py`) | `_active_transfers` under `_state_lock`, `_rule_locks`, `_last_rule_run_at`, the poll thread | `start`, `stop`, `_run_loop`, `run_once`, `run_torrent_now`, `_run_cycle`, `_process_torrent` | the poll's cycle and any number of API cycles overlap, each with its own snapshot of rules and torrents and its own thread pool; exceptions; restarts | one transfer per torrent; sequential rules; no key or lock left behind; every cycle ends; the poll obeys schedules |
| Transfer executor (`app/transfer_executor.py`) | none | `process_torrent`, `_is_finished` | every outcome writes a log, and the write may raise after the files have moved | an early return changes nothing; success is reported only with a complete copy |
| Movers (`app/movers.py`) | the files at source and destination | local to local, local to SSH (rsync, scp, sftp), SSH to local; conflict policies; free-space checks | not atomic: file by file, fails anywhere, is tried again by the next method or cycle on top of what is left, beside transfers of torrents of the same name | no payload is lost; policies keep what they promise; a skip has touched nothing; moved means it is there |
| Transmission client (`app/transmission.py`, `routers/transmission.py`) | a session id per client | `get_torrents`, `remove_torrent`, `add_label`, `remove_label` | a 409 is answered by one repetition; requests and replies are lost; labels are read, changed, written; the daemon restarts and numbers its torrents anew | nothing is carried out twice; edits stand; what is removed was transferred |
| Configuration store (`app/crud.py`, `models.py`, `db.py`, `routers/{config,destinations,rules}.py`, `api_validators.py`) | SQLite rows of settings, destinations, rules | save by section, create, update, delete, test | a request checks, tries a host, loads and writes in separate steps, and others commit between them; a host is tried with a password stored earlier; ids are given again | no remote-to-remote; sections leave each other alone; an SSH source was reached as it is stored; a rule keeps its destination |
| Authentication (`routers/auth.py`, `main.py`, `auth_session.py`) | credentials, sessions, a five-second cache | setup, login, logout, change of password | setup is check-then-act; the cache is stale | setup only once; no session after a change |
| Rate limiter (`app/rate_limiter.py`) | per address: failures, lockout | `check`, `record_failure`, `reset` | truncated seconds, a window shorter than the longest lockout, no lock | a locked address stays locked |
| Secret store (`secret_crypto.py`, `rotate_secrets.py`, the secret columns of `crud.py`) | the key in the variable or the file, encrypted columns | load or create a key, migrate plaintext, save, rotate | a rotation beside a running service; cut off half-way; a key that is lost, unreadable or mistaken | every stored secret can be decrypted, under one key, and says what was entered |
| Remote probing (`ssh_utils.py`) | none | connection tests | a host is asked in the middle of a save | what is stored of a host was found with the stored password |
| Web UI (`static/`) | the state of one page | forms and their tests | a test approves a form that is edited later | a save is of what was tested |
| Container start (`docker/`, `settings.py`) | – | copies static files, starts the server | – | – |

How they interact: `runtime.py` has one `MoveWorker`. Its poll thread and the
request threads of `/run-once` and `/transfer/torrent/{id}` call `_run_cycle`.
A cycle reads the rules and destinations in one database session, asks
Transmission for the torrents, and calls `_process_torrent` for each, one
after the other or in a `ThreadPoolExecutor` made for the cycle.
`_process_torrent` finds the rule of the first label that has one, registers
the torrent, takes the rule's lock if the rule is sequential, and calls
`process_torrent`, which checks and calls `transfer_to_destination`; last it
removes the torrent from Transmission, lets go of the lock and drops the key.
The API edits the rows a cycle has read while the cycle works by its copy.
Secrets are columns of those rows: a save encrypts them, and one of a source
or destination first decrypts those of the source. The rotation is a program
of its own on the same database file.

The hazards, each at its line and with the properties that guard against it,
are in `PROJECT.json` under `hazards`.

## 2. Modules

### MoveWorker

The threads. `Cycles` is the poll thread and the API threads. Per thread
`cycle` holds the locals of `_run_cycle` (`label_to_rule`, `eligible_labels`,
the torrents found ready) and `task` where each torrent's `_process_torrent`
is:

    queued -> registered -> transferring -> copied -> removing -> leaving -> popping -> done

| state | code |
|---|---|
| `rules` | table `LabelRule`; an enabled row with an existing destination is `enabled` |
| `listed`, `ready` | Transmission's torrents, and those `_is_finished` accepts |
| `source`, `remains`, `delivered` | whole payload at the source; part of it; complete copy at the destination |
| `active` | keys of `_active_transfers` |
| `lock` | `_rule_locks`: which task holds each |

| action | code |
|---|---|
| `PollBegin`, `RunOnce`, `RunTorrentNow` | start of `_run_cycle`, with or without schedules, for one torrent or all |
| `FetchTorrents`, `FetchFails` | `get_torrents` and the filter by torrent id |
| `EndCycle` | every task done, or the rest given up after an exception in a cycle of width 1 |
| `Register`, `SkipDuplicate` | worker.py:267-283 |
| `Enter`, `NotWanted` | the rule's lock and the early returns of `process_torrent` |
| `ReplaceExisting`, `CopyDone`, `FallBack`, `BeginErase`, `TransferFails`, `DeleteSourceFails`, `Processed`, `LogFails` | the transfer as far as source and copy tell it apart, and every way out of it |
| `RemoveTorrent`, `RemoveFails` | `torrent-remove`, with the local data if the rule says so |
| `ReleaseLock`, `PopActive` | end of the `with` block, then the `finally` clause |
| `UpdateRule`, `ChangeReady`, `PollDies`, `Restart` | the API, Transmission, the unprotected read of `_run_loop`, the process |

Tests of the lock and of the registry are atomic because the code makes them
so (a mutex each). The torrent list is read after the rules and may be old
when a task runs. Progress figures in the registry are left out.

### Payload

What any mover promises of single files, in terms of `source` and `delivered`
alone: a copy appears only while there is a source, is taken away only
while there is a source to write it anew, and a source goes only while there
is a copy. `MoveWorker` and `Transfer` each refine it: in both,
`ImplementsPayload` is `INSTANCE Payload WITH ...` as a property.

### Transfer

The files, name by name, and any number of transfers that overlap. A transfer
is tried by `Begin` and goes through `start`, `space`, `probe`, `clear`, `move`,
`rename`, `write`, `delete`. `plan` says which files, mode, conflict policy and
route it has; routes differ in the order the code has:

| route | code | order |
|---|---|---|
| `device` with mode move | `shutil.move` within one mount | probe, clear, rename |
| `mounts` with mode move | `shutil.move` between two mounts of one device, as two bind mounts of one volume are: `st_dev` is the same (movers.py:1151) but the rename is refused | probe, clear, copy, delete |
| `device`, `mounts` with copy, `local` | `_transfer_local_to_local` | space, probe, clear, copy, delete |
| `ssh` | `_transfer_sftp_source`, SSH to local | space, probe, clear, copy, delete |
| `remote` | `_transfer_local_to_remote`, local to SSH | probe, clear, space, copy, delete |

On a remote route the methods in `shells` (rsync, scp, in either order, one or
none) come before sftp: an exception of one leads to the next, from the start.
`StepFails` may end a try at any point, as an error or, for a FileNotFoundError
(transfer_executor.py:110), as a source that is missing; `Crash` ends all of
them; what they leave behind stays. A remote look at the target or at a suffix
that fails says "nothing there" (`BlindProbes`). A directory is written, cleared
and deleted file by file, a single file in one piece, with a torn one (`Hole`)
in between.

Two things that the code does not say are steps or states of their own. `os.walk`
passes over a directory it cannot list (movers.py:758, 1033): the copy loop and
the upload by sftp may leave files out (`OmitFile`, `omitted`). And `scp -r` and
`shutil.move` put a directory into one that is already at the target (`Nests`,
`Landing`), so a path is a name, its suffix, and whether it is inside: a try's
`target` is where it has put the payload.

A free name is looked for in `Probe` and used from the next step on, and no lock
joins the two: two tries of torrents of one name may have one target. From then
on (`shared`) files may be mixed or written over, and `NothingLost`,
`ExistingKept` and `MovedIsThere` say nothing. `NothingLost` is about every file
of every payload, save those of directories that are moved file by file by
policy overwrite, between two mounts too, and those a walk has left out: both can
be lost (section 6).

### RuleSchedule

The clock. `Tick` is a second; `since` is the time since `_last_rule_run_at`,
`gap` the true time since the poll tried torrents of the rule, forgotten when
that cycle is broken off (`BreakOff`) or its process is gone (`Restart`).
`NotConfigured`, `NothingDue`, `BeginCycle`, `Try`, `EndCycle`, `BreakOff` are
the turns of `_run_loop`; only `EndCycle` stamps. `SetBack` sets back the wall
clock, `Restart` loses the stamps. `MoveWorker` allows any set of interval rules to be
due (`PollBegin`), so what it shows holds whatever `RuleSchedule` decides.
A clock set forward is not modelled: no interval measured by `time.time()`
can outlast it, and the gap is not promised then.

### Access

Who gets in: middleware, setup, login and change of password, and the limiter
of failed logins, for one client address and one session.

| state | code |
|---|---|
| `creds`, `sinceSet` | table `WebAuth`: which password was set last, 0 if none; how long there has been one |
| `cache` | `_auth_cache`: its age, and whether it says that credentials are set |
| `session` | `_sessions`: whether the one session is live |
| `fails`, `sinceFail`, `lock` | `_failed_attempts`, `_last_failure_at`, `_lockout_until`, as times from or to now |
| `told`, `outdone` | per client: what is left of the seconds it was told to wait; the clients after whose answer another one's failure has set a lockout |
| `login`, `admin` | where each thread is in `login`, or in any other request |

| action | code |
|---|---|
| `Look`, `Refuse`, `Pass` | `get_rate_limit_status` and the first read of `login` |
| `Count`, `Punish`, `Succeed` | `record_failed_attempt`; `reset_rate_limit` and `create_session` |
| `Admit` | `enforce_session_auth` with `_is_web_auth_enabled` |
| `BeginSetup`, `BeginChange`, `WriteCredentials`, `Answer` | `setup_web_auth`, `change_password` |
| `EndSession`, `Restart`, `Tick` | logout or expiry, `on_startup`, the clocks |

The handlers run in threads, and a comparison with bcrypt takes long: between
`Pass` and `Count` anything may happen. The tables of the limiter have no lock,
so `_clear_expired_lockout` decides in one step (`Look`) and acts in the next
(`LockSeen`), and `record_failed_attempt` reads in one (`Count`) and writes in the
next (`Punish`). The middleware runs in the event loop and is one step. The cache
starts with a time of 0.0, which is old once the host has been up for five
seconds; the model takes it to be. The clocks are not set.

### ConfigStore

The settings, destinations and rules, as the requests of several threads change
them. Each SELECT is a step and sees what is committed by then; each commit is
a step. A save loads its row in one and writes in another only the columns that
differ from what it loaded, as SQLAlchemy does.

| state | code |
|---|---|
| `config` | the rows of `AppConfig` (sections source, remap, labels, container) and `TransmissionConfig` (rpc), or none |
| `destinations`, `rules` | tables `Destination` and `LabelRule` by id; a rule also has whether its destination's id has been given to another since |
| `request` | a handler's locals: what it was sent, what it has read, where it is |
| `saved` | per section, what the last answered save of it has left |
| `crossed`, `reusable` | whether an SSH source and a remote destination have been in saving at once; ids that have been free with all above them |

| action | code |
|---|---|
| `PutSettings`, `PutSshSource`, `Probe`, `Load`, `Write` | `put_app_settings_*`, `put_transmission*` with `update_app_config_fields` and `upsert_transmission_config`: an SSH source looks at the destinations, is tried, and only then loads its row |
| `PostDestination`, `InsertDestination` | `post_destination`: look at the source, try the path or host, insert |
| `PutDestination`, `LoadDestination`, `WriteDestination` | `put_destination` |
| `RemoveDestination`, `DeleteDestination` | `remove_destination`, which leaves the rules alone |
| `PostRule`, `PutRule`, `CheckRule`, `InsertRule`, `LoadRule`, `WriteRule`, `RemoveRule`, `DeleteRule` | routers/rules.py with `api_validators.py` |
| `Fail` | any error before the commit |

What a probe finds is a function of host and password (`Detected`): that is
what `ReachedAsStored` is about.

### SecretStore

Keys are numbered as they are made, and a stored secret is its text and its key,
0 for plaintext. One column stands for the secrets of each of the three tables,
in the order in which `rotate_secrets` takes them.

| state | code |
|---|---|
| `secret`, `entered` | the columns, and what was last entered in each |
| `env`, `file`, `fernet` | `SECRET_ENCRYPTION_KEY`, `/data/.encryption_key`, `_fernet` |
| `service` | down; booting, with a key and not yet migrated; up |
| `rotation` | the locals of `rotate_secrets`: two keys, what it has read, what it will write |
| `lastKey` | the key the service last ran with, or the new one of a rotation since |
| `mishap` | the operator has started the service without that key while there were secrets, or rotated beside it |
| `replaced` | a start has made a new key in place of one in a file it could not read |
| `overlapped` | a secret was saved between a rotation's reading and writing |

| action | code |
|---|---|
| `SetEnv`, `LoseFile` | the operator |
| `Start`, `Migrate`, `Stop` | `_load_or_generate_key`; `migrate_plaintext_secrets` in one commit; the process |
| `Save` | the writes of crud.py that encrypt, after what they decrypt first |
| `RotateBegin`, `RotateRead`, `RotateCommit`, `RotateFails` | rotate_secrets.py: reading on flushes what has changed so far, and other writers wait from then on (`Flushed`) |

### TransmissionClient

| state | code |
|---|---|
| `epoch`, `ids`, `labels` | the daemon: its session id, which torrent has which id, the labels |
| `call` | a thread: its client's `session_id`, where its handler is, what it has read, whether this request was repeated, carried out, answered |
| `wanted`, `mixed` | the labels as edits in turn would leave them, and the torrents whose edits were not in turn |
| `moved`, `gone`, `misled` | torrents transferred, removed, and removed by an id that was another's when listed |

| action | code |
|---|---|
| `Refused`, `GiveUp`, `Lose` | `_post`: the first 409, the second, a lost request or reply or a timeout |
| `BeginEdit`, `Get`, `Set`, `WasSet`, `Check` | `add_label`, `remove_label`: torrent-get, torrent-set, torrent-get |
| `BeginList`, `List`, `Transferred`, `NotTransferred`, `Remove`, `Removed` | the worker's two clients (worker.py), with the transfer between them |
| `Restart` | the daemon restarts or renews its session id, with any numbering |

`MoveWorker` takes a torrent for its identity; what a renumbering daemon does to
the removal is here.

### Proofs and instances

`MoveWorkerProofs`, `TransferProofs`, `RuleScheduleProofs`, `AccessProofs`,
`ConfigStoreProofs`, `SecretStoreProofs` and `TransmissionClientProofs` have the
theorems about the module they are named for. `MCMoveWorker`, `MCTransfer`,
`MCRuleSchedule`, `MCAccess`, `MCConfigStore`, `MCSecretStore` and
`MCTransmissionClient` define the values the configurations use.
Definitions marked "Wrong:" are faulty forms of the definition that follows;
putting one in its place breaks the property it is listed with in
`PROJECT.json` under `mutants`.

## 3. Runs

| run | instance | shows |
|---|---|---|
| `MCOverlap` | two torrents (one file, one directory), one rule edited once, pools of two, poll and one API thread | `SingleTransfer`, `SequentialRule`, `RegistryExact`, `LocksHeld`, `RemovalFollowsDelivery` |
| `MCRestart` | two torrents, two rules of three kinds or disabled, serial cycles, failures, a poll thread that may die, one restart | `IInv`, `PayloadSurvives`, `ManualByHandOnly`, `ImplementsPayload` |
| `MCProgress` | two torrents (one file, one directory) of a sequential rule, pools of two, poll and one API thread, transfers that fail or hang, fair | `AutoDelivers`, `CyclesEnd` |
| `MCTransferKeep` | two torrents of one name at the same time: a file moved or copied on `device` or `remote` by any policy, a directory of two moved on `device` by any policy or on any other local route or `remote` by rename; walks that leave files out; a crash | `NothingLost`, `ExistingKept` |
| `MCTransferTries` | a file or a directory of two, every policy and mode on `device`, `mounts`, `ssh` and `remote`, blind looks, walks that leave files out, a crash, fair | `TypeOK`, `SkippedUntouched`, `MovedIsThere`, `ImplementsPayload`, `OverwriteDelivers` |
| `MCInterval` | two rules of any schedule, an edit, a restart, a set-back, cycles broken off, fair | `TypeOK`, `GapKept`, `IntervalRuns` |
| `MCAccess` | two logins and another request of one address, two passwords, a restart | `TypeOK`, `LockoutCeiling`, `RetryHonest`, `OpenOnlyBriefly` |
| `MCConfig` | two requests at a time on the source (local, or SSH with no password, one or another), the remapping, two destinations and a rule | `TypeOK`, `NoRemoteToRemote`, `AnsweredSaveStands`, `ReachedAsStored`, `RuleKeepsItsDestination` |
| `MCSecrets` | three columns, one text, three keys, starts, saves and rotations without end | `TypeOK`, `Readable`, `OneKey`, `NothingPlain`, `TextStands` |
| `MCClient` | two edits, or one transfer, of two torrents with two labels; requests lost; the daemon restarts once | `TypeOK`, `AtMostOnce`, `EditsStand`, `RemovedWasMoved`, `OneRepetitionIsEnough` |
| `MCDirectories` | a directory moved by policy overwrite, a restart | a claim of section 6 does not hold (`DirectoriesSurvive`) |
| `MCReentry` | as `MCSecrets` | a claim of section 6 does not hold (`UnreadableCanBeEntered`) |

Bounds, and why they are enough:

- Two torrents and two threads in the worker: every conflict is between two
  tasks (one torrent twice, or two torrents of a rule). The proofs lift the
  safety properties to any number.
- `Configured` 2 gives a pool with room for two tasks, 1 the serial loop with
  its different handling of exceptions; `MaxParallel` clips at 8.
- `MaxEdits` 1: a cycle works by one snapshot, so one edit makes two cycles
  disagree about a rule. `MaxRestarts` 1: a restart forgets everything in
  memory, and a second finds the same files as the first.
- Plans in `MCTransferTries`: all modes and policies on routes `device`, `ssh`
  and `remote`, with scp before sftp or sftp alone, and moves on `mounts`, which
  copies as `device` does; `local` takes the steps of `ssh` and of a copy on
  `device`. In `MCTransferKeep` the routes `device` and `remote` (with rsync) for
  files: what two tries do to one another is decided by look, target and write,
  which these have in both orders. Looks do not fail here, as `Spared` excepts
  all remote routes otherwise. Directories are those whose move may be cut off
  and tried again: by rename on `mounts`, `local` and `remote`, by every policy
  on `device`. The other plans of directories are left to `MCTransferTries` and
  the proofs. It follows a behaviour until two tries share a target (`Apart`),
  after which its properties say nothing. Its two torrents are interchangeable
  (symmetry).
- `MaxSuffix` 1 (9999 in the code): the name itself, a free suffix, and none.
- `MaxCrashes` 1: a crash leaves files as they are, as a failure at the same
  point does, and failures are not bounded; two are left to the proofs.
- Two files in a directory: something is done and something is not.
  `shells` at most 1 with sftp after it: one method runs on what another left.
- Time in `MCInterval` goes in coarse seconds: a poll of 1, a shortest interval
  of 2 (10 in the code), a wait of 2 without settings (30), intervals not set
  (0) that default and are raised to the shortest. Times are kept up to `Longest`,
  beyond which every comparison gives the same answer.
- `MCAccess` has two ticks to the second, so that truncating seconds matters, and
  one free attempt (`MaxAttempts` 1, 5 in the code), a first lockout of 1 s (30), a
  window of 2 s (300) and a longest lockout of 8 s (1800), which keep their order:
  first lockout, window, twice the window, longest lockout. `Passwords` 2: a
  setup and a change. The two logins are interchangeable (symmetry).
- Two requests in `MCConfig`: each property is about a check or a load of one
  and a commit of another. Two destinations and one rule (`MaxId`, `MaxRule`): an
  id that is given again and one above it, and a rule that keeps it. Behaviours
  are followed until an SSH source and a remote destination have been in saving
  at once (`crossed`, after which `NoRemoteToRemote` says nothing), and rules and
  the remapping, which share no row, are not combined (`Focus`). The sections
  labels, container and rpc take the steps of remap and are left to the proofs.
- `MaxKeys` 3 in `MCSecrets`: an old key, a new one, and one that fits neither.
- `MCClient`: two edits can lose one another's change; two ids and two session
  ids: a number that becomes another torrent's. Edits and a transfer touch
  different things of the daemon and are not followed at once (`Focus`); the
  proofs have them at once.

Deadlock is not looked for where a run may really have nothing left to do
within its bounds: `MCRestart` (its rules may be disabled, and are not edited),
`MCConfig`, `MCSecrets`, `MCReentry` and `MCClient`, whose requests, starts and
calls come from outside and may stop coming when ids, keys or torrents
are used up.

## 4. Fairness

- `MoveWorker`: a thread that can go on does (`WF` of every task's next step and
  of the cycle's end), except inside a transfer: scp, rsync, SFTP, shell
  commands and local copies have no time limit (movers.py:464, 494, 584, 612;
  ssh_utils.py:70), so a task that is copying or deleting (`Transferring`) may
  stay there for ever. Taking a rule's lock (`Enter`, `NotWanted`) and
  `FetchTorrents` are strongly fair: the lock of a rule is not given to others
  for ever, and a request to Transmission, which has a time limit
  (transmission.py:29), that may succeed again and again does in the end, since
  the poll tries again every few seconds without limit. No fairness is assumed
  of API requests, edits, restarts or the death of the poll thread.
  `CyclesEnd` and `AutoDelivers` name the transfer that hangs where there is one:
  a hung transfer keeps its cycle, its key and its rule's lock until the process
  is restarted, and with the poll's cycle the whole poll.
- `Transfer`: a step of a try that can be taken is, which takes it that transfers
  do not hang: nothing in the code guarantees it, and `OverwriteDelivers` is for
  those that do not. No fairness of failures, crashes or `NoSpace`.
- `RuleSchedule`: time passes, the thread wakes, transfers end, and neither the
  settings nor the torrent list are missing for ever.
- `Access`, `ConfigStore`, `SecretStore` and `TransmissionClient` have safety
  properties only and assume no fairness: their steps are requests that come or
  do not come.

## 5. Proofs

`tlapm` on each module proves its theorems for any sets of torrents, rules,
threads, files, keys and saves and any bounds, under the named assumptions
(`ASSUME`) of the module it is about. Every run evaluates these too.

| module | theorem | says |
|---|---|---|
| `MoveWorkerProofs` | `TypeCorrect`, `Invariance` | `TypeOK` and `IInv` are invariants |
| | `SingleTransferHolds`, `RegistryHolds` | the registry is exact and no torrent is transferred twice at once |
| | `SequentialRuleHolds`, `LocksHeldHolds` | tasks of a sequential rule exclude each other; a taken lock has a live owner |
| | `ManualByHandOnlyHolds` | the poll never transfers by a rule it has read as manual |
| | `FirstLabelWinsHolds` | the first label with an enabled rule in the snapshot is the one a torrent is transferred by |
| | `PayloadSurvivesHolds` | no single file is lost |
| | `RemovalFollowsDeliveryHolds` | single-file torrents are removed only while delivered |
| | `Refinement` | `MoveWorker` implements `Payload` |
| `TransferProofs` | `TypeCorrect` | `TypeOK` is an invariant |
| | `SkippedUntouchedHolds` | a local try that refuses for a conflict or want of space has changed nothing |
| | `MovedIsThereHolds` | a try that says moved leaves all it found where it put it |
| | `NothingLostHolds` | no file is lost, with the exceptions of section 2 |
| | `ExistingKeptHolds` | only overwrite and looks that fail take copies away |
| | `Refinement` | transfers of torrents with names of their own implement `Payload` |
| `RuleScheduleProofs` | `TypeCorrect`, `GapKeptHolds` | stamps and sleeps are bounded; an interval rule rests |
| `AccessProofs` | `TypeCorrect`, `LockoutCeilingHolds` | `TypeOK` is an invariant; logins that do not overlap are locked out for twice the window at most |
| | `RetryHonestHolds` | who waits as long as told may try, unless another client's failure has set a lockout since; without overlap, nobody may before |
| | `OpenOnlyBrieflyHolds` | without a session requests pass for the cache's time only |
| `ConfigStoreProofs` | `TypeCorrect` | `TypeOK` is an invariant: rows and saves have the columns and values of their section |
| | `NoRemoteToRemoteHolds` | no SSH source beside a remote destination unless both were in saving at once |
| | `AnsweredSaveStandsHolds` | a section stays as its last answered save left it |
| | `ReachedAsStoredHolds` | a stored SSH source was reached with what is stored |
| | `RuleKeepsItsDestinationHolds` | a rule leads elsewhere only if its id was given again |
| `SecretStoreProofs` | `TypeCorrect`, `Invariance` | `TypeOK` and `IInv` are invariants |
| | `ReadableHolds`, `OneKeyHolds` | a service that is left the key used last, alone with its secrets, can decrypt all of them, unless its start replaced a key file it could not read; they are under one key |
| | `NothingPlainHolds`, `TextStandsHolds` | what is stored is encrypted, and says what was entered |
| `TransmissionClientProofs` | `TypeCorrect` | `TypeOK` is an invariant: no two torrents have one id, and calls have ids and session ids that were given |
| | `AtMostOnceHolds`, `OneRepetitionIsEnoughHolds` | nothing is carried out twice; one repetition is enough |
| | `EditsStandHolds`, `RemovedWasMovedHolds` | labels are what edits made of them; what is removed was transferred |

None of the properties is inductive alone. What carries them, by module:

**MoveWorker.** `IInv` adds

- `TasksOfRun`: only a running cycle has tasks. Hence a snapshot never changes
  under its tasks, and `NeedsLock` of a task means the same when it takes the
  lock as when it lets go of it, although the rule has been edited since.
- `TransferWanted` and `PollEligible`: a task that transfers was wanted by its
  snapshot, and the poll's eligible rules are not manual. Together they give
  `ManualByHandOnly`.
- `LockNamesHolder`: a task under a sequential rule's lock is the one the lock
  names. `SequentialRule` follows, as a lock names one task.
- `RegistryExact` and `SingleTransfer` are proved together: `Register` looks at
  the key, so exactness makes the new owner the only one, and uniqueness lets
  `PopActive` drop a key without taking away another task's.
- `CopyStays`: from the end of its copy to its removal the copy of a single file
  stays. Only another task of the same torrent could take it away, and
  `SingleTransfer` excludes it. With it, deleting the source in `Processed` and
  `RemoveTorrent` keeps `PayloadSurvives`.

`FirstLabelWins` (src README.md:83) needs besides that a snapshot's rows are
enabled ones (`EnabledRows`), however the table is edited after it was taken.
`MatchedRuleIsFirst` then says that the rule found has the least place among a
torrent's labels, by the least element of a set of numbers.

**Transfer.** `Locals` is what a try knows of itself: its target is one chosen
under the torrent's name and cleared only by overwrite (`Aims`); it has written
only while writing or deleting, and everything it found before it deletes
(`Writes`); its source is complete until then (`Sources`). Across tries, `Alone`
says that targets are in different trees until `shared` (a path and what is
inside it are one, `SameTree`), and so `Wrote`, that what a try has written is
at its target. This gives `SkippedUntouched` and `MovedIsThere`
whatever looks fail. `NothingLost` and `ExistingKept` need two facts more: what
is at a path belongs to a torrent of its name (`Marks`), and a try that may not
overwrite, by its policy or by a look that fails (`MayOverwrite`), found its
target free and finds only its own there (`Fresh`). `NothingLost` goes file by
file (`GivenUp`, `CopyStands`): what is given up at the source has been written
at the target, and what only the destination has stays, since a try that finds
its source deleted in part (`Splits`) writes only what is left, unless its
policy is overwrite, which is excepted. Every step rests, takes a target, begins
a method at it or inside it, or changes what is there (`Rests`, `Aimed`,
`Enters`, `Changes`), so that each invariant is proved by these four kinds. For the refinement torrents have names of their own
(`Distinct`).

**RuleSchedule.** `Bounded` has the stamps no further behind than the clock was
set back so often (`Behind`), which is not linear and so kept in one lemma.
`StampsFollow`: a rule tried and not stamped is in the cycle; any other was
stamped after it was tried, so its `since` is at most its `gap`; and `Due` looks at
`since`.

**Access.** `Entry`: a cache that says "no credentials" is older than they are,
which with its age bounds how long requests pass. `Limits`: a lockout outlasts
what a client was told by less than a second, until another client's failure sets
a new one (`outdone`). `Waiting`: of logins that do not overlap one is let in only
when less than a second is left (`Near`), so none drops a lockout that a client is
still waiting for. `Ceiling` is about logins that
do not overlap: one at a time is in progress (`Lone`); while the last failure
counts, the time since it and what is left of the lockout add up to the
lockout's length (`Served`); hence who is let in at the end (`LetIn`) has waited
that long, a streak counts on only from a lockout no longer than the window
(`CountsOn`), and the next is twice that at most. That a lockout doubles
(`LockoutIs`, `Doubles`) needs the powers of two as the recursive function
`Doubled`, whose equation is proved for every number from the existence of its
initial parts (`StartsExist`, by a least counterexample) rather than by the
library's induction, which takes an operator.

**ConfigStore.** `Shapes` has the locals of each handler by where it is.
`Separation` is about four things that do not meet: an SSH source, one in
saving, a remote destination, one in saving. For the sections, a save that is
alone in its own finds what it does not write as it loaded it (`LoneSaves`,
`LoadsHold`), since others write other columns. `Tried` and `SavedReached`
follow the password from the look through the save; nobody writes it between
them but a save of the same section. `Seen` says that a rule's destination id is
at most the highest there is or has been free with all above it; the next id is
above the highest, so only such ids are given again. `TypeOK` comes from
`SavesHold` and `RowsHold`: what a save sends, and what a row has in each
column, is a value of that column. It assumes that no save sends what the look
at the source detects (`ConfigAssumption`; the request's schema has no such
field).

**SecretStore.** `IInv` relates what a rotation holds to the columns: it is under
the new key (`WritesUnderNew`), leaves nothing out while the service is down
(`WritesWhole`), and says what was entered unless a save came between
(`WritesCurrent`). All secrets are under the key that was used last, which is the
service's while it runs (`UnderLast`): what the operator must leave is one key, and
that it opens everything is proved, not assumed.

**TransmissionClient.** Every step of a thread is one of a few kinds (`Step`:
told a session id, next call, carried out, ended). `Single`: a request has been
carried out once if answered and not at all before, and one that is repeated has
the daemon's session id or it was renewed. `ReadWell` and `ListsWell`: an id
still names the torrent that was read by it, whose labels are those read, until
the thread is stale or the torrent mixed. `TypeOK` adds what calls hold
(`CallsTyped`): a session id is one the daemon has had, and an id is one it has
given.

Proofs of invariance go action by action, and temporal theorems combine `Init`,
step and consequence by PTL. Every invariant and every safety action property of
the runs is proved. Only model-checked are the liveness properties
(`AutoDelivers`, `CyclesEnd`, `OverwriteDelivers`, `IntervalRuns`), which are
beyond these provers.

## 6. What the code does otherwise than its documents say

- `MCDirectories`: README.md:13 has torrents moved "to the configured destination".
  A move copies a directory and then deletes the source with `rmtree`
  (movers.py:568), or with `rm -rf` after scp and rsync (movers.py:471). Cut off
  half-way, the next method of the same try, or the next cycle, takes what is left
  for the payload, overwrites the complete copy with it, and deletes that too. The
  run's trace falls back from one method to the next.
- `MCReentry`: README.md:174-175 says that after the key is lost, stored secrets
  "become unreadable and must be re-entered". The page's save of the source
  decrypts the stored ones first (config.py:62), which raises with another key:
  they cannot be entered again there. The same read refuses the saves of
  destinations (destinations.py:98).

Seen while modelling, and part of the models though no run is spent on them:

Worker and transfers

- README.md:23 promises a "Global concurrency cap via `max_parallel_transfers`".
  Every cycle has a pool of its own (worker.py:196), so a poll and a Run All Now
  together exceed it.
- README.md:89 promises a "minimum gap between attempts per torrent". The stamps
  are in memory, and set only by a cycle that comes to its end: after a restart,
  or an exception in a serial cycle, the next poll tries at once (`GapKept` says
  nothing then).
- With policy rename a free name is looked for and used in two steps. Two parallel
  moves of torrents of one name choose the same, and one payload is written over
  the other after both sources are gone (`shared`).
- `ReplaceExisting` needs no look at `listed`: a cycle with an old list transfers
  a torrent again that another cycle has delivered and removed.
- `ready` is read when the list is fetched; a torrent that begins to be verified
  before its task runs is transferred all the same (worker.py:152).
- A transfer that hangs keeps its torrent, its cycle and the lock of a
  sequential rule for ever (`CyclesEnd`), and the poll with them if it is the
  poll's.
- Without a pool (`max_parallel_transfers` 1) a failure that cannot be logged
  either leaves `_process_torrent` as an exception and ends the cycle
  (worker.py:179); a torrent that fails so in every cycle keeps those after it in
  the list from ever being tried (an exception of `AutoDelivers`).
- An error of the settings read in `_run_loop` (worker.py:72) ends the poll thread
  for good (`PollDies`; `AutoDelivers` holds with `LoopReadFails` FALSE only).
- When a shell method fails after writing a part, sftp under policy skip takes
  that part for a conflict and skips (so `SkippedUntouched` is about local routes).
- Any FileNotFoundError of a transfer is logged as "skipped", "Source path
  missing" (transfer_executor.py:110-121): also that of one file that has gone
  (movers.py:1013), or of a remote one (movers.py:899), after the target has been
  cleared or written in part. `SkippedUntouched` is about the other skips.
  A RemotePathAccessError is logged as skipped as well; the model has it as an
  error, on remote routes only.
- A directory that `os.walk` cannot list is passed over without an error
  (movers.py:758, 1033). The try says "moved", and a move then deletes the
  source, which loses those files where `rmtree` can list what the walk could
  not. `NothingLost` excepts them (`omitted`), and `MovedIsThere` is about what
  was found.
- Source and destination as two mounts of one volume have one `st_dev`, so the
  space is not checked and `shutil.move` is taken to rename (movers.py:573). It
  copies and deletes instead, and cut off in the deletion, policy overwrite loses
  files of a directory as in `MCDirectories`.
- After a look that has missed a directory, `scp -r` puts the payload inside it
  (movers.py:453-458) and the try says "moved".
- A remote look that fails reads as "nothing there", and skip and rename then
  write over what is, the copies of other torrents among it (`MayOverwrite`).
- A torrent is removed by the id it had when it was listed (worker.py:255). If
  Transmission restarts during the transfer and numbers torrents anew, another
  one is removed (`misled`).

Settings and secrets

- README.md:15: an SSH source looks for remote destinations before it tries its
  host (config.py:52). A remote destination saved in that time is accepted, and
  so is the source (`crossed`).
- A deleted destination leaves its rules, and SQLite gives the highest id again:
  the rules then lead to the next destination that is made (`reusable`).
- Two first saves of settings both insert the one row, and the second fails.
- A rotation beside the running service leaves secrets under a key the service
  does not have, and takes back one saved after it was read (`mishap`,
  `overlapped`).
- `Readable`, `OneKey`: a start that cannot read the key file, for an error that
  may pass, goes on as if there were none and writes a new key over it
  (secret_crypto.py:40-49), although the log says that the key "will persist
  across container restarts" (secret_crypto.py:53). The secrets are lost then
  through the code and not the operator (`replaced`).
- A key that could not be written is gone with the process; the log asks the
  operator to save it (secret_crypto.py:56), and who does not is taken to have
  lost it (`mishap`).
- A secret that begins with "enc:v1:" is stored as it is, as if it were encrypted
  (secret_crypto.py:87), and cannot be read afterwards.
- The writes of crud.py decrypt for their answer after the commit: one that then
  fails has been stored all the same.

Access

- `LockoutCeiling`: a streak is forgotten 300 s after its last failure
  (rate_limiter.py:55), also while the address is locked out for longer. Logins
  that do not overlap never see a lockout of more than 600 s; the longest
  of 1800 s (rate_limiter.py:14) takes logins that fail side by side.
- `RetryHonest`: the lockout is the address's, not the client's. Who was told 30 s
  is refused after 30 s when another login of the address has failed meanwhile,
  let in with it (rate_limiter.py:59) or in the last second of the lockout, and
  has set one of 60 s (`outdone`). Logins that overlap may also cut a lockout
  short: one that saw the old lockout over drops the new one
  (rate_limiter.py:19), and a success clears it.
- Two setups that overlap both find no credentials (auth.py:38) and both write:
  the later one wins, and both are told they have set the credentials.
- A change of password ends no session (auth.py:103), and a login that compares
  with the old one meanwhile makes one (auth.py:131).

## 7. What is not modelled

- What remote probing runs on a host, and commands there that never return
  (ssh_utils.py:70 sets no time limit).
- The Web UI (browser code), container start (a sequential script), the deletion
  of the activity log, the reset of the web files, and columns added to databases
  of earlier versions.
- Formats of requests and answers, addresses the limiter tells apart, names of
  users, and logs of attempts, except as writes that may fail.
- Choice and order of remote methods by preference and negotiated capabilities,
  path remapping, progress and its clock: data that no property here is about.
- Destinations inside the source directory (overwrite would delete the source,
  movers.py:559): the two are disjoint in `Transfer`.
- Torrents of one name that share a source: `_resolve_local_source_path` goes
  by the name under `watch_base_path` first (movers.py:139-153), so the move of
  one may take the other's payload. In `Transfer` they share targets only, and
  in `MoveWorker` neither.
- That what is already at a target is a file where the payload is a directory,
  or the reverse; links; and what `rsync` takes for unchanged.
- Transfers that hang, in `Transfer` (`MoveWorker` has them).
- A request that has timed out at the client (transmission.py:29) and that the
  daemon carries out later, after the client has gone on: `Lose` has it carried
  out before or not at all.
- Clocks set forward (`RuleSchedule`) or at all (`Access`).

## 8. Plan

What is left, in this order:

1. The composition of `MoveWorker` and `Transfer`, where a transfer under the
   worker's locks is a try, so that `SingleTransfer` gives that no torrent is tried
   twice at once instead of the model's taking it so.
2. The order of remote methods against a reference definition.
3. The Web UI's approval: a save is of what was tested.
