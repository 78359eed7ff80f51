---------------------------- MODULE SecretStore ----------------------------
(***************************************************************************)
(* The encrypted credential file of internal/secretstore and the custody   *)
(* of its data key (datakey.go, internal/custody): how a start finds or    *)
(* mints the key, how `secret-store migrate` moves it from one protector   *)
(* to another, how `purge --full` removes it, and what a gateway that      *)
(* opened the store writes.                                                *)
(*                                                                         *)
(* A command is a process that takes one step per file it replaces and per *)
(* protector it calls.  It may stop between any two steps: an error        *)
(* return, a refused start and a crash are the action Exit, and a call     *)
(* that takes effect but is reported as failed is that call and then Exit. *)
(***************************************************************************)
CONSTANTS
    Procs,      \* commands that may be under way at the same time
    Helpers,    \* helper paths MICROAGENCY_SECRET_PROTECTOR_COMMAND may name
    Backends,   \* where protectors keep their record of this state directory
    BackendOf,  \* the backend behind the host keyring and each helper
    Keys,       \* data keys
    Names, Values,
    BadRecords, \* what a faulty protector may keep instead of a key
    SyncFails   \* whether the directory fsync after a rename can fail

None == "none"
Keyring == "keyring"        \* the host's keyring, as a place of custody
KeyFile == "file"           \* the operator's own key file
Plain == "plain"            \* no key source: the unencrypted store

Protectors == {Keyring} \cup Helpers

ASSUME SecretStoreAssumption ==
    /\ BackendOf \in [Protectors -> Backends]
    /\ SyncFails \in BOOLEAN
    /\ {None, Keyring, KeyFile, Plain} \cap Helpers = {}
    /\ None \notin Keys \cup BadRecords
    /\ Keys \cap BadRecords = {}
    /\ None \notin Values

VARIABLES
    store,      \* the file upstream-tokens.json
    locator,    \* the protector credential-key-custody.json names, or None
    record,     \* what each backend holds under this directory's id
    keyFile,    \* the key in the operator's key file, or None
    used,       \* every key generated so far
    proc,       \* the commands
    purging     \* a purge has deleted the key of the store it is removing

vars == <<store, locator, record, keyFile, used, proc, purging>>

Entries == [Names -> Values \cup {None}]
Empty == [n \in Names |-> None]
Absent == [kind |-> "absent", key |-> None, entries |-> Empty]

(* The operator's settings for one command. *)
Settings == [kind : {"", KeyFile, Keyring, "command"}, helper : Helpers \cup {None},
             keyFile : BOOLEAN, plain : BOOLEAN]

(* A command: where it is, the protector it uses, where migrate moves the  *)
(* key, whether the key-file setting is exported, the data key and the     *)
(* entries it holds in memory.                                             *)
Idle == [pc |-> "idle", cmd |-> "none", at |-> None, to |-> None, keyFile |-> FALSE,
         key |-> None, entries |-> Empty]

Kind(place) == IF place \in Helpers THEN "command" ELSE place

Encrypted == store.kind = "encrypted-file"

(* Protector.Load: the operator's file or the backend's record. *)
Load(place) == IF place = KeyFile THEN keyFile ELSE record[BackendOf[place]]

Init ==
    /\ store \in {Absent} \cup [kind : {"file"}, key : {None}, entries : Entries]
    /\ locator = None
    /\ record = [b \in Backends |-> None]
    /\ keyFile = None
    /\ used = {}
    /\ proc = [p \in Procs |-> Idle]
    /\ purging = FALSE

Goto(p, pc) == proc' = [proc EXCEPT ![p].pc = pc]
At(p, pc) == proc[p].pc = pc
Serving(p) == proc[p].pc \in {"up", "write"}

(* A command ends: it is done, an error stops it, or it crashes. *)
Exit(p) ==
    /\ ~At(p, "idle")
    /\ proc' = [proc EXCEPT ![p] = Idle]
    /\ UNCHANGED <<store, locator, record, keyFile, used, purging>>

(* The operator puts a key of its own into the key file. *)
PlaceKeyFile ==
    /\ keyFile = None
    /\ \E k \in Keys \ used : keyFile' = k /\ used' = used \cup {k}
    /\ UNCHANGED <<store, locator, record, proc, purging>>
-----------------------------------------------------------------------------
(* Opening the store: `up`, and the Open of doctor, which always allows    *)
(* the plaintext store.                                                    *)

(* autoKeySource: never over a store that is already encrypted. *)
autoKeySource == IF Encrypted THEN {} ELSE {Keyring}

(* resolveKeySource: the source the settings select; none if refused. *)
Selected(s) ==
    IF locator # None
    THEN IF s.kind \in {"", Kind(locator)} THEN {locator} ELSE {}
    ELSE CASE s.kind = "" /\ ~s.keyFile -> IF s.plain THEN {Plain} ELSE autoKeySource
           [] s.kind = KeyFile \/ (s.kind = "" /\ s.keyFile) -> IF s.keyFile THEN {KeyFile} ELSE {}
           [] s.kind = Keyring -> {Keyring}
           [] s.kind = "command" -> {s.helper} \ {None}

(* Open, up to the protector's first answer. *)
Open(p, cmd) ==
    /\ At(p, "idle")
    /\ \E s \in Settings : \E source \in Selected(s) :
        /\ cmd = "doctor" => s.plain
        /\ proc' = [proc EXCEPT ![p] = [Idle EXCEPT
               !.pc = IF source = Plain THEN "openPlain" ELSE "dataKey",
               !.cmd = cmd, !.at = source, !.keyFile = s.keyFile]]
    /\ UNCHANGED <<store, locator, record, keyFile, used, purging>>

(* reconcile: an exported key file must hold the protector's key. *)
Reconciled(p, k) == proc[p].at # KeyFile /\ proc[p].keyFile => keyFile = k

(* dataKey, when the protector holds a key. *)
dataKey(p) ==
    /\ At(p, "dataKey")
    /\ Load(proc[p].at) \in Keys
    /\ Reconciled(p, Load(proc[p].at))
    /\ proc' = [proc EXCEPT ![p].pc = "recordLocator", ![p].key = Load(proc[p].at)]
    /\ UNCHANGED <<store, locator, record, keyFile, used, purging>>

(* recordLocator: only when none exists, and never for a key file. *)
recordLocator(p) ==
    /\ At(p, "recordLocator")
    /\ locator' = IF locator = None /\ proc[p].at # KeyFile THEN proc[p].at ELSE locator
    /\ Goto(p, "open")
    /\ UNCHANGED <<store, record, keyFile, used, purging>>

(* The conditions under which create mints a key at all. *)
MayCreate(p) == ~Encrypted /\ ~proc[p].keyFile

(* dataKey and create, when the protector answers that it holds nothing.   *)
(* A missing key file is not such an answer.                               *)
create(p) ==
    /\ At(p, "dataKey")
    /\ proc[p].at # KeyFile
    /\ Load(proc[p].at) = None
    /\ MayCreate(p)
    /\ \E k \in Keys \ used :
        /\ proc' = [proc EXCEPT ![p].pc = "put", ![p].key = k]
        /\ used' = used \cup {k}
    /\ UNCHANGED <<store, locator, record, keyFile, purging>>

(* Protector.Save to a backend; a faulty one keeps something else. *)
Put(place, k) ==
    \E r \in {k} \cup BadRecords : record' = [record EXCEPT ![BackendOf[place]] = r]

SaveVerified(p) ==
    /\ At(p, "put")
    /\ Put(proc[p].at, proc[p].key)
    /\ Goto(p, "verify")
    /\ UNCHANGED <<store, locator, keyFile, used, purging>>

(* The read back, then the locator, which replaces any there is. *)
SaveManifest(p) ==
    /\ At(p, "verify")
    /\ Load(proc[p].at) = proc[p].key
    /\ locator' = proc[p].at
    /\ Goto(p, "open")
    /\ UNCHANGED <<store, record, keyFile, used, purging>>

(* What a command does with the store it has opened.  Only one gateway     *)
(* gets the listening socket.                                              *)
Opened(p) ==
    IF proc[p].cmd = "doctor"
    THEN proc' = [proc EXCEPT ![p] = Idle]
    ELSE /\ \A q \in Procs : ~Serving(q)
         /\ proc' = [proc EXCEPT ![p].pc = "up", ![p].entries = Empty]

(* A mutant: without a key, an envelope is read as a map all the same. *)
ReadableWithoutKey(p) == Encrypted => proc[p].key \in {None, store.key}

(* File.read under the key in memory: an envelope needs that key. *)
Readable(p) == Encrypted => store.key = proc[p].key

(* NewEncryptedFile: a plaintext file is read, to be encrypted next. *)
NewEncryptedFile(p) ==
    /\ At(p, "open")
    /\ Readable(p)
    /\ IF store.kind = "file"
       THEN proc' = [proc EXCEPT ![p].pc = "seal", ![p].entries = store.entries]
       ELSE Opened(p)
    /\ UNCHANGED <<store, locator, record, keyFile, used, purging>>

(* File.write: one rename, of an envelope if there is a key. *)
write(p) ==
    store' = [kind |-> IF proc[p].key = None THEN "file" ELSE "encrypted-file",
              key |-> proc[p].key, entries |-> proc[p].entries]

Migrated(p) ==
    /\ At(p, "seal")
    /\ write(p)
    /\ Opened(p)
    /\ UNCHANGED <<locator, record, keyFile, used, purging>>

(* Open without a key source, the plaintext store being allowed. *)
OpenPlain(p) ==
    /\ At(p, "openPlain")
    /\ Readable(p)
    /\ Opened(p)
    /\ UNCHANGED <<store, locator, record, keyFile, used, purging>>
-----------------------------------------------------------------------------
(* File.Save and File.Delete of a serving gateway, under its mutex. *)

Read(p) ==
    /\ At(p, "up")
    /\ Readable(p)
    /\ \E n \in Names, v \in Values \cup {None} :
        proc' = [proc EXCEPT ![p].pc = "write", ![p].entries = [store.entries EXCEPT ![n] = v]]
    /\ UNCHANGED <<store, locator, record, keyFile, used, purging>>

(* The rename happens, and the caller is told, or it fails. *)
Write(p) ==
    /\ At(p, "write")
    /\ write(p) \/ UNCHANGED store
    /\ proc' = [proc EXCEPT ![p].pc = "up", ![p].entries = Empty]
    /\ UNCHANGED <<locator, record, keyFile, used, purging>>
-----------------------------------------------------------------------------
(* secret-store migrate --to, refused while a gateway runs. *)

(* The protector that holds the key today. *)
Source(exported) ==
    IF locator # None THEN {locator} ELSE IF exported THEN {KeyFile} ELSE {}

MigrateKeyCustody(p) ==
    /\ At(p, "idle")
    /\ \A q \in Procs : ~Serving(q)
    /\ \E exported \in BOOLEAN, to \in Protectors \cup {KeyFile} : \E source \in Source(exported) :
        /\ to = KeyFile => exported
        /\ Kind(source) # Kind(to) \/ (source \in Helpers /\ source # to)
        /\ Load(source) \in Keys
        /\ proc' = [proc EXCEPT ![p] = [Idle EXCEPT !.pc = "transfer", !.cmd = "migrate",
               !.at = source, !.to = to, !.keyFile = exported, !.key = Load(source)]]
    /\ UNCHANGED <<store, locator, record, keyFile, used, purging>>

(* Transfer: write the target.  A key file is never overwritten. *)
Transfer(p) ==
    /\ At(p, "transfer")
    /\ IF proc[p].to = KeyFile
       THEN keyFile \in {None, proc[p].key} /\ keyFile' = proc[p].key /\ UNCHANGED record
       ELSE Put(proc[p].to, proc[p].key) /\ UNCHANGED keyFile
    /\ Goto(p, "check")
    /\ UNCHANGED <<store, locator, used, purging>>

(* A mutant: no comparison with the key. *)
VerifyNothing(p) ==
    /\ At(p, "check")
    /\ Goto(p, "commit") \/ Goto(p, "undo")
    /\ UNCHANGED <<store, locator, record, keyFile, used, purging>>

(* The target's read-back decides; a failed one undoes the write. *)
VerifyTarget(p) ==
    /\ At(p, "check")
    /\ \/ Load(proc[p].to) = proc[p].key /\ Goto(p, "commit")
       \/ Goto(p, "undo")
    /\ UNCHANGED <<store, locator, record, keyFile, used, purging>>

(* The locator moves, or the commit fails: it did not move, or it did and  *)
(* only the directory sync failed.                                         *)
Commit(p) ==
    LET moved == IF proc[p].to = KeyFile THEN None ELSE proc[p].to
    IN  /\ At(p, "commit")
        /\ \/ locator' = moved /\ Goto(p, "deleteSource")
           \/ locator' \in {locator} \cup {l \in {moved} : SyncFails} /\ Goto(p, "undo")
        /\ UNCHANGED <<store, record, keyFile, used, purging>>

(* Protector.Delete: the operator's key file always stays. *)
Deleted(place) ==
    IF place = KeyFile THEN record ELSE [record EXCEPT ![BackendOf[place]] = None]

DeleteTarget(p) ==
    /\ At(p, "undo")
    /\ record' = Deleted(proc[p].to)
    /\ proc' = [proc EXCEPT ![p] = Idle]
    /\ UNCHANGED <<store, locator, keyFile, used, purging>>

DeleteSource(p) ==
    /\ At(p, "deleteSource")
    /\ record' = Deleted(proc[p].at)
    /\ proc' = [proc EXCEPT ![p] = Idle]
    /\ UNCHANGED <<store, locator, keyFile, used, purging>>
-----------------------------------------------------------------------------
(* purge --full: it stops the gateway, deletes the record, and only then   *)
(* removes the directory, file by file.                                    *)

(* Without a locator, the protector setting names the record. *)
DeleteKeyCustody(p) ==
    /\ At(p, "idle")
    /\ \E place \in IF locator # None THEN {locator} ELSE Protectors \cup {KeyFile} :
        /\ record' = Deleted(place)
        /\ purging' = (purging \/ (Encrypted /\ place # KeyFile /\ Load(place) = store.key))
    /\ proc' = [q \in Procs |-> IF q = p THEN [Idle EXCEPT !.pc = "purge", !.cmd = "purge"]
                                ELSE IF Serving(q) THEN Idle ELSE proc[q]]
    /\ UNCHANGED <<store, locator, keyFile, used>>

doPurge(p) ==
    /\ At(p, "purge")
    /\ \/ store' = Absent /\ purging' = FALSE /\ UNCHANGED locator
       \/ locator' = None /\ UNCHANGED <<store, purging>>
    /\ UNCHANGED <<record, keyFile, used, proc>>
-----------------------------------------------------------------------------
Step(p) ==
    \/ Open(p, "up") \/ Open(p, "doctor") \/ dataKey(p) \/ recordLocator(p)
    \/ create(p) \/ SaveVerified(p) \/ SaveManifest(p)
    \/ NewEncryptedFile(p) \/ Migrated(p) \/ OpenPlain(p)
    \/ Read(p) \/ Write(p)
    \/ MigrateKeyCustody(p) \/ Transfer(p) \/ VerifyTarget(p) \/ Commit(p)
    \/ DeleteTarget(p) \/ DeleteSource(p)
    \/ DeleteKeyCustody(p) \/ doPurge(p)
    \/ Exit(p)

Next == PlaceKeyFile \/ \E p \in Procs : Step(p)

Spec == Init /\ [][Next]_vars
-----------------------------------------------------------------------------
Pcs == {"idle", "openPlain", "dataKey", "recordLocator", "put", "verify", "open",
        "seal", "up", "write", "transfer", "check", "commit", "undo",
        "deleteSource", "purge"}

Places == Protectors \cup {KeyFile, Plain, None}

Command == [pc : Pcs, cmd : {"none", "up", "doctor", "migrate", "purge"}, at : Places,
            to : Places, keyFile : BOOLEAN, key : Keys \cup {None}, entries : Entries]

Moving == {"transfer", "check", "commit", "undo", "deleteSource"}

(* What a command holds in each of its phases. *)
PhaseOK(p) ==
    /\ proc[p].pc \in {"dataKey", "recordLocator"} \cup Moving =>
          proc[p].at \in Protectors \cup {KeyFile}
    /\ proc[p].pc \in {"put", "verify"} => proc[p].at \in Protectors
    /\ proc[p].pc \in {"recordLocator", "put", "verify", "open", "seal"} \cup Moving =>
          proc[p].key \in Keys
    /\ proc[p].pc \in Moving => proc[p].to \in Protectors \cup {KeyFile}
    /\ At(p, "openPlain") => proc[p].key = None

(* The values of the variables; a file is encrypted just when it has a key. *)
TypeOK ==
    /\ store \in [kind : {"absent", "file", "encrypted-file"}, key : Keys \cup {None}, entries : Entries]
    /\ Encrypted <=> store.key # None
    /\ store.kind = "absent" => store = Absent
    /\ locator \in Protectors \cup {None}
    /\ record \in [Backends -> Keys \cup BadRecords \cup {None}]
    /\ keyFile \in Keys \cup {None}
    /\ used \subseteq Keys
    /\ proc \in [Procs -> Command]
    /\ \A p \in Procs : PhaseOK(p)
    /\ purging \in BOOLEAN

(* The command p has the key of its protector, the one the locator names   *)
(* unless that is the key file.                                            *)
Holds(p) ==
    /\ proc[p].key \in Keys
    /\ proc[p].at \in Protectors \cup {KeyFile}
    /\ proc[p].at # KeyFile => locator = proc[p].at
    /\ Load(proc[p].at) = proc[p].key

(* An encrypted store's key is in the key file or where the locator says. *)
StoreInv ==
    Encrypted /\ ~purging =>
        keyFile = store.key \/ (locator # None /\ Load(locator) = store.key)

(* Where the key is while a start is under way or a gateway serves. *)
OpenInv(p) ==
    /\ proc[p].pc \in {"dataKey", "recordLocator", "put", "verify"} => locator \in {None, proc[p].at}
    /\ At(p, "recordLocator") => Load(proc[p].at) = proc[p].key
    /\ proc[p].pc \in {"put", "verify"} => ~Encrypted
    /\ proc[p].pc \in {"open", "seal"} => Holds(p)
    /\ At(p, "seal") => ~Encrypted /\ proc[p].entries = store.entries
    /\ Serving(p) => Readable(p) /\ (proc[p].key # None => Holds(p))
    /\ At(p, "write") => \E n \in Names, v \in Values \cup {None} :
          proc[p].entries = [store.entries EXCEPT ![n] = v]

(* Where the key is while it moves, and while a purge removes the files. *)
MoveInv(p) ==
    /\ proc[p].pc \in Moving => proc[p].to # proc[p].at
    /\ proc[p].pc \in Moving \ {"deleteSource"} =>
          Holds(p) /\ (proc[p].at = KeyFile => locator = None)
    /\ proc[p].pc \in {"commit", "deleteSource"} => Load(proc[p].to) = proc[p].key
    /\ At(p, "deleteSource") => locator = IF proc[p].to = KeyFile THEN None ELSE proc[p].to
    /\ At(p, "purge") /\ Encrypted /\ ~purging => keyFile = store.key

(* One command at a time, a backend per protector, and a file system whose *)
(* directories can be synced.                                              *)
Undisturbed ==
    /\ \A p, q \in Procs : p = q
    /\ \A a, b \in Protectors : BackendOf[a] = BackendOf[b] => a = b
    /\ ~SyncFails

(* The types and, undisturbed, where the data key is at every step of a    *)
(* start, a migration and a purge.                                         *)
IInv == TypeOK /\ (Undisturbed => StoreInv /\ \A p \in Procs : OpenInv(p) /\ MoveInv(p))

(* The data key of an encrypted store is always held by some protector or  *)
(* by the operator's key file, whatever start, migration or crash came in  *)
(* between: the store is never left unreadable (create's refusal to re-key *)
(* ciphertext, Transfer's order of write, verify, commit and delete).      *)
KeyKept ==
    Encrypted /\ ~purging => keyFile = store.key \/ \E b \in Backends : record[b] = store.key

(* The file changes only as a credential store may: an entry at a time by  *)
(* a gateway's save or deletion; encrypted once and for all, under one     *)
(* key; emptied only by a purge.                                           *)
Promise == INSTANCE CredentialStore WITH entries <- store.entries, sealedBy <- store.key

StorePromise == Promise!Spec
=============================================================================
