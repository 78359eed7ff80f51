------------------------- MODULE StoredStateProofs --------------------------
(***************************************************************************)
(* What the gateway keeps in its state directory and finds again.          *)
(*                                                                         *)
(* The key of an encrypted credential store is never lost, and the store   *)
(* implements CredentialStore, for every set of helpers, keys, names and   *)
(* values, when commands do not overlap, every protector has a backend of  *)
(* its own and directories can be synced (Undisturbed).                    *)
(*                                                                         *)
(* A client that completed a flow stays registered, and a sign-in is       *)
(* admitted by the audience rules as they were declared while it was       *)
(* under way.                                                              *)
(***************************************************************************)
EXTENDS SecretStore, SignIn, FiniteSetTheorems, TLAPS

USE DEF At, Goto, Serving

(* What the assumptions say of the named places, keys and records. *)
LEMMA ConstantFacts ==
    /\ Empty \in Entries
    /\ Idle \in Command
    /\ Absent \in [kind : {"absent", "file", "encrypted-file"}, key : Keys \cup {None}, entries : Entries]
    /\ None \notin Keys /\ None \notin Protectors /\ KeyFile \notin Protectors /\ Plain \notin Protectors
    /\ None # KeyFile /\ None # Plain /\ KeyFile # Plain
    /\ KeyFile \notin Helpers /\ Keyring \notin Helpers
    /\ \A a \in Protectors : BackendOf[a] \in Backends
BY SecretStoreAssumption
DEF Empty, Entries, Idle, Command, Absent, Pcs, Places, Protectors, None, KeyFile, Plain, Keyring

(* Whatever file the first start finds is well typed. *)
LEMMA TypeInit == Init => TypeOK
<1> SUFFICES ASSUME Init PROVE TypeOK OBVIOUS
<1>1. \A p \in Procs : PhaseOK(p)
  BY DEF Init, Idle, PhaseOK, Moving
<1>2. proc \in [Procs -> Command]
  BY ConstantFacts DEF Init
<1> QED BY <1>1, <1>2, ConstantFacts DEF Init, TypeOK, Encrypted, Absent

(* The source a setting selects is a protector, the key file or Plain. *)
LEMMA SelectedPlaces ==
    ASSUME TypeOK, NEW s \in Settings, NEW source \in Selected(s)
    PROVE  /\ source \in Protectors \cup {KeyFile, Plain}
           /\ locator # None => source = locator
BY ConstantFacts DEF TypeOK, Settings, Selected, autoKeySource, Protectors

(* Every step of a command keeps the types. *)
LEMMA TypeStep ==
    ASSUME TypeOK, NEW p \in Procs, Step(p) PROVE TypeOK'
<1> USE ConstantFacts
<1>0. proc[p] \in Command /\ proc \in [Procs -> Command] /\ PhaseOK(p)
  BY DEF TypeOK
<1>a. ASSUME NEW c \in Command, proc' = [proc EXCEPT ![p] = c], PhaseOK(p)'
      PROVE  proc' \in [Procs -> Command] /\ \A q \in Procs : PhaseOK(q)'
  BY <1>a, <1>0 DEF TypeOK, PhaseOK
<1>b. ASSUME Opened(p)
      PROVE  /\ proc'[p] \in Command
             /\ proc' = [proc EXCEPT ![p] = proc'[p]]
             /\ PhaseOK(p)'
  <2>1. /\ proc'[p] \in Command
        /\ proc' = [proc EXCEPT ![p] = proc'[p]]
        /\ proc'[p].pc \in {"idle", "up"}
    <3>1. CASE proc' = [proc EXCEPT ![p] = Idle]
      BY <3>1, <1>0 DEF Idle
    <3>2. CASE proc' = [proc EXCEPT ![p].pc = "up", ![p].entries = Empty]
      BY <3>2, <1>0 DEF Command, Pcs
    <3> QED BY <1>b, <3>1, <3>2 DEF Opened
  <2> QED BY <2>1 DEF PhaseOK, Moving
<1>1. CASE Exit(p)
  <2>1. /\ proc'[p] \in Command
        /\ proc' = [proc EXCEPT ![p] = proc'[p]]
        /\ PhaseOK(p)'
    BY <1>1, <1>0 DEF Exit, Idle, Command, Pcs, PhaseOK, Moving
  <2> QED BY <1>1, <1>0, <1>a, <2>1 DEF Exit, Idle, TypeOK, Encrypted, PhaseOK, Moving
<1>2. CASE dataKey(p)
  <2>1. /\ proc'[p] \in Command
        /\ proc' = [proc EXCEPT ![p] = proc'[p]]
        /\ PhaseOK(p)'
    BY <1>2, <1>0 DEF dataKey, Command, Pcs, PhaseOK, Moving
  <2> QED BY <1>2, <1>0, <1>a, <2>1 DEF dataKey, TypeOK, Encrypted, PhaseOK, Moving
<1>3. CASE recordLocator(p)
  <2>1. /\ proc'[p] \in Command
        /\ proc' = [proc EXCEPT ![p] = proc'[p]]
        /\ PhaseOK(p)'
    BY <1>3, <1>0 DEF recordLocator, Command, Pcs, PhaseOK, Moving
  <2> QED BY <1>3, <1>0, <1>a, <2>1 DEF recordLocator, TypeOK, Encrypted, PhaseOK, Moving
<1>4. CASE create(p)
  <2>1. PICK k \in Keys \ used : proc' = [proc EXCEPT ![p].pc = "put", ![p].key = k]
    BY <1>4 DEF create
  <2>2. /\ proc'[p] \in Command
        /\ proc' = [proc EXCEPT ![p] = proc'[p]]
        /\ proc'[p].pc = "put" /\ proc'[p].key \in Keys /\ proc'[p].at = proc[p].at
    BY <2>1, <1>0 DEF Command, Pcs
  <2>3. proc[p].at \in Protectors
    BY <1>4, <1>0 DEF create, PhaseOK
  <2>4. PhaseOK(p)'
    BY <2>2, <2>3 DEF PhaseOK, Moving
  <2> QED BY <1>4, <1>a, <2>2, <2>4 DEF create, TypeOK, Encrypted
<1>5. CASE SaveVerified(p)
  <2>1. /\ proc'[p] \in Command
        /\ proc' = [proc EXCEPT ![p] = proc'[p]]
        /\ PhaseOK(p)'
    BY <1>5, <1>0 DEF SaveVerified, Put, Command, Pcs, PhaseOK, Moving
  <2> QED BY <1>5, <1>0, <1>a, <2>1 DEF SaveVerified, Put, TypeOK, Encrypted, PhaseOK, Moving
<1>6. CASE SaveManifest(p)
  <2>1. /\ proc'[p] \in Command
        /\ proc' = [proc EXCEPT ![p] = proc'[p]]
        /\ PhaseOK(p)'
    BY <1>6, <1>0 DEF SaveManifest, Command, Pcs, PhaseOK, Moving
  <2> QED BY <1>6, <1>0, <1>a, <2>1 DEF SaveManifest, TypeOK, Encrypted, PhaseOK, Moving
<1>7. CASE NewEncryptedFile(p)
  <2>1. CASE Opened(p)
    BY <1>7, <2>1, <1>b, <1>a DEF NewEncryptedFile, TypeOK, Encrypted
  <2>2. CASE proc' = [proc EXCEPT ![p].pc = "seal", ![p].entries = store.entries]
    <3>1. /\ proc'[p] \in Command
          /\ proc' = [proc EXCEPT ![p] = proc'[p]]
          /\ proc'[p].pc = "seal" /\ proc'[p].key \in Keys
      BY <1>7, <2>2, <1>0 DEF NewEncryptedFile, Command, Pcs, TypeOK, PhaseOK
    <3>2. PhaseOK(p)'
      BY <3>1 DEF PhaseOK, Moving
    <3> QED BY <1>7, <3>1, <3>2, <1>a DEF NewEncryptedFile, TypeOK, Encrypted
  <2> QED BY <1>7, <2>1, <2>2 DEF NewEncryptedFile
<1>8. CASE Migrated(p)
  <2>1. /\ store' \in [kind : {"absent", "file", "encrypted-file"}, key : Keys \cup {None}, entries : Entries]
        /\ Encrypted' /\ store'.key # None
    BY <1>8, <1>0 DEF Migrated, write, Command, PhaseOK, Encrypted
  <2>2. store'.kind # "absent"
    BY <2>1 DEF Encrypted
  <2> QED BY <1>8, <2>1, <2>2, <1>a, <1>b DEF Migrated, TypeOK
<1>9. CASE OpenPlain(p)
  BY <1>9, <1>b, <1>a DEF OpenPlain, TypeOK, Encrypted
<1>10. CASE Read(p)
  <2>1. PICK n \in Names, v \in Values \cup {None} :
          proc' = [proc EXCEPT ![p].pc = "write", ![p].entries = [store.entries EXCEPT ![n] = v]]
    BY <1>10 DEF Read
  <2>2. [store.entries EXCEPT ![n] = v] \in Entries
    BY DEF TypeOK, Entries
  <2>3. /\ proc'[p] \in Command
        /\ proc' = [proc EXCEPT ![p] = proc'[p]]
        /\ proc'[p].pc = "write"
    BY <2>1, <2>2, <1>0 DEF Command, Pcs
  <2>4. PhaseOK(p)'
    BY <2>3 DEF PhaseOK, Moving
  <2> QED BY <1>10, <1>a, <2>3, <2>4 DEF Read, TypeOK, Encrypted
<1>11. CASE Write(p)
  <2>1. /\ proc'[p] \in Command
        /\ proc' = [proc EXCEPT ![p] = proc'[p]]
        /\ proc'[p].pc = "up"
    BY <1>11, <1>0 DEF Write, Command, Pcs
  <2>2. PhaseOK(p)'
    BY <2>1 DEF PhaseOK, Moving
  <2>3. CASE UNCHANGED store
    BY <1>11, <1>a, <2>1, <2>2, <2>3 DEF Write, TypeOK, Encrypted
  <2>4. CASE write(p)
    <3>1. /\ store' \in [kind : {"absent", "file", "encrypted-file"}, key : Keys \cup {None}, entries : Entries]
          /\ Encrypted' <=> store'.key # None
          /\ store'.kind # "absent"
      BY <2>4, <1>0 DEF write, Command, Encrypted
    <3> QED BY <1>11, <1>a, <2>1, <2>2, <3>1 DEF Write, TypeOK
  <2> QED BY <1>11, <2>3, <2>4 DEF Write
<1>12. CASE Transfer(p)
  <2>1. /\ proc'[p] \in Command
        /\ proc' = [proc EXCEPT ![p] = proc'[p]]
        /\ PhaseOK(p)'
    BY <1>12, <1>0 DEF Transfer, Put, Command, Pcs, PhaseOK, Moving
  <2> QED BY <1>12, <1>0, <1>a, <2>1 DEF Transfer, Put, TypeOK, Encrypted, PhaseOK, Moving
<1>13. CASE VerifyTarget(p)
  <2>1. /\ proc'[p] \in Command
        /\ proc' = [proc EXCEPT ![p] = proc'[p]]
        /\ PhaseOK(p)'
    BY <1>13, <1>0 DEF VerifyTarget, Command, Pcs, PhaseOK, Moving
  <2> QED BY <1>13, <1>0, <1>a, <2>1 DEF VerifyTarget, TypeOK, Encrypted, PhaseOK, Moving
<1>14. CASE Commit(p)
  <2>1. /\ proc'[p] \in Command
        /\ proc' = [proc EXCEPT ![p] = proc'[p]]
        /\ PhaseOK(p)'
    BY <1>14, <1>0 DEF Commit, Command, Pcs, PhaseOK, Moving
  <2> QED BY <1>14, <1>0, <1>a, <2>1 DEF Commit, TypeOK, Encrypted, PhaseOK, Moving
<1>15. CASE DeleteTarget(p)
  <2>1. /\ proc'[p] \in Command
        /\ proc' = [proc EXCEPT ![p] = proc'[p]]
        /\ PhaseOK(p)'
    BY <1>15, <1>0 DEF DeleteTarget, Deleted, Idle, Command, Pcs, PhaseOK, Moving
  <2> QED BY <1>15, <1>0, <1>a, <2>1 DEF DeleteTarget, Deleted, Idle, TypeOK, Encrypted, PhaseOK, Moving
<1>16. CASE DeleteSource(p)
  <2>1. /\ proc'[p] \in Command
        /\ proc' = [proc EXCEPT ![p] = proc'[p]]
        /\ PhaseOK(p)'
    BY <1>16, <1>0 DEF DeleteSource, Deleted, Idle, Command, Pcs, PhaseOK, Moving
  <2> QED BY <1>16, <1>0, <1>a, <2>1 DEF DeleteSource, Deleted, Idle, TypeOK, Encrypted, PhaseOK, Moving
<1>17. CASE doPurge(p)
  <2>1. proc' = proc /\ PhaseOK(p)'
    BY <1>17, <1>0 DEF doPurge, PhaseOK
  <2>2. CASE store' = Absent /\ purging' = FALSE /\ UNCHANGED locator
    BY <1>17, <2>1, <2>2 DEF doPurge, TypeOK, Encrypted, Absent, PhaseOK
  <2>3. CASE locator' = None /\ UNCHANGED <<store, purging>>
    BY <1>17, <2>1, <2>3 DEF doPurge, TypeOK, Encrypted, PhaseOK
  <2> QED BY <1>17, <2>2, <2>3 DEF doPurge
<1>18. ASSUME NEW cmd \in {"up", "doctor"}, Open(p, cmd) PROVE TypeOK'
  <2>0. PICK s \in Settings : \E source \in Selected(s) :
          proc' = [proc EXCEPT ![p] = [Idle EXCEPT
             !.pc = IF source = Plain THEN "openPlain" ELSE "dataKey",
             !.cmd = cmd, !.at = source, !.keyFile = s.keyFile]]
    BY <1>18 DEF Open
  <2>1. PICK source \in Selected(s) :
          proc' = [proc EXCEPT ![p] = [Idle EXCEPT
             !.pc = IF source = Plain THEN "openPlain" ELSE "dataKey",
             !.cmd = cmd, !.at = source, !.keyFile = s.keyFile]]
    BY <2>0
  <2>2. source \in Protectors \cup {KeyFile, Plain} /\ s.keyFile \in BOOLEAN
    BY SelectedPlaces DEF Settings
  <2>3. /\ proc'[p] \in Command
        /\ proc' = [proc EXCEPT ![p] = proc'[p]]
        /\ proc'[p].at = source /\ proc'[p].key = None
        /\ proc'[p].pc = IF source = Plain THEN "openPlain" ELSE "dataKey"
    BY <2>1, <2>2, <1>0 DEF Command, Idle, Pcs, Places
  <2>4. PhaseOK(p)'
    BY <2>2, <2>3 DEF PhaseOK, Moving
  <2> QED BY <1>18, <1>a, <2>3, <2>4 DEF Open, TypeOK, Encrypted
<1>19. CASE MigrateKeyCustody(p)
  <2>0. PICK exported \in BOOLEAN, to \in Protectors \cup {KeyFile} : \E source \in Source(exported) :
          /\ Kind(source) # Kind(to) \/ (source \in Helpers /\ source # to)
          /\ Load(source) \in Keys
          /\ proc' = [proc EXCEPT ![p] = [Idle EXCEPT !.pc = "transfer", !.cmd = "migrate",
                 !.at = source, !.to = to, !.keyFile = exported, !.key = Load(source)]]
    BY <1>19 DEF MigrateKeyCustody
  <2>1. PICK source \in Source(exported) :
          /\ Kind(source) # Kind(to) \/ (source \in Helpers /\ source # to)
          /\ Load(source) \in Keys
          /\ proc' = [proc EXCEPT ![p] = [Idle EXCEPT !.pc = "transfer", !.cmd = "migrate",
                 !.at = source, !.to = to, !.keyFile = exported, !.key = Load(source)]]
    BY <2>0
  <2>2. source \in Protectors \cup {KeyFile}
    BY DEF Source, TypeOK
  <2>3. /\ proc'[p] \in Command
        /\ proc' = [proc EXCEPT ![p] = proc'[p]]
        /\ PhaseOK(p)'
    BY <2>1, <2>2, <1>0 DEF Command, Idle, Pcs, Places, PhaseOK, Moving
  <2> QED BY <1>19, <1>a, <2>3 DEF MigrateKeyCustody, TypeOK, Encrypted
<1>20. CASE DeleteKeyCustody(p)
  <2>1. proc' \in [Procs -> Command]
    BY <1>20, <1>0 DEF DeleteKeyCustody, Command, Pcs, Idle
  <2>2. \A q \in Procs : PhaseOK(q)'
    BY <1>20 DEF DeleteKeyCustody, TypeOK, PhaseOK, Moving, Idle
  <2>3. record' \in [Backends -> Keys \cup BadRecords \cup {None}]
    BY <1>20 DEF DeleteKeyCustody, Deleted, TypeOK
  <2>4. purging' \in BOOLEAN
    BY <1>20 DEF DeleteKeyCustody
  <2> QED BY <1>20, <2>1, <2>2, <2>3, <2>4 DEF DeleteKeyCustody, TypeOK, Encrypted
<1> QED BY <1>1, <1>2, <1>3, <1>4, <1>5, <1>6, <1>7, <1>8, <1>9, <1>10, <1>11, <1>12, <1>13, <1>14, <1>15, <1>16, <1>17, <1>18, <1>19, <1>20 DEF Step

(* The steps of p keep the invariant of the key's whereabouts. *)
LEMMA KeyStep ==
    ASSUME Undisturbed, TypeOK, StoreInv, NEW p \in Procs, OpenInv(p), MoveInv(p), Step(p)
    PROVE  StoreInv' /\ OpenInv(p)' /\ MoveInv(p)'
<1> USE ConstantFacts
<1>0. proc[p] \in Command /\ proc \in [Procs -> Command] /\ PhaseOK(p)
  BY DEF TypeOK
<1>a. ASSUME proc'[p].pc = "idle" PROVE OpenInv(p)' /\ MoveInv(p)'
  BY <1>a DEF OpenInv, MoveInv, Moving
<1>b. ASSUME UNCHANGED <<store, locator, record, keyFile, purging>> PROVE StoreInv'
  BY <1>b DEF StoreInv, Encrypted, Load
<1>c. ASSUME NEW a \in Protectors, NEW r, record' = [record EXCEPT ![BackendOf[a]] = r]
      PROVE  \A b \in Protectors \ {a} : record'[BackendOf[b]] = record[BackendOf[b]]
  BY <1>c DEF TypeOK, Undisturbed
<1>1. CASE Exit(p)
  <2>1. proc'[p].pc = "idle"
    BY <1>1, <1>0 DEF Exit, Idle
  <2> QED BY <1>1, <2>1, <1>a, <1>b DEF Exit
<1>2. ASSUME NEW cmd \in {"up", "doctor"}, Open(p, cmd) PROVE StoreInv' /\ OpenInv(p)' /\ MoveInv(p)'
  <2>0. PICK s \in Settings : \E source \in Selected(s) :
          proc' = [proc EXCEPT ![p] = [Idle EXCEPT
             !.pc = IF source = Plain THEN "openPlain" ELSE "dataKey",
             !.cmd = cmd, !.at = source, !.keyFile = s.keyFile]]
    BY <1>2 DEF Open
  <2>1. PICK source \in Selected(s) :
          proc' = [proc EXCEPT ![p] = [Idle EXCEPT
             !.pc = IF source = Plain THEN "openPlain" ELSE "dataKey",
             !.cmd = cmd, !.at = source, !.keyFile = s.keyFile]]
    BY <2>0
  <2>2. locator # None => source = locator
    BY SelectedPlaces
  <2>3. proc'[p].pc \in {"openPlain", "dataKey"} /\ proc'[p].at = source
    BY <2>1, <1>0 DEF Idle
  <2>4. OpenInv(p)' /\ MoveInv(p)'
    BY <1>2, <2>2, <2>3 DEF Open, OpenInv, MoveInv, Moving
  <2> QED BY <1>2, <2>4, <1>b DEF Open
<1>3. CASE dataKey(p)
  <2>1. /\ proc'[p].pc = "recordLocator" /\ proc'[p].at = proc[p].at
        /\ proc'[p].key = Load(proc[p].at)
    BY <1>3, <1>0 DEF dataKey, Command
  <2>2. OpenInv(p)' /\ MoveInv(p)'
    BY <1>3, <2>1 DEF dataKey, OpenInv, MoveInv, Moving, Load
  <2> QED BY <1>3, <2>2, <1>b DEF dataKey
<1>4. CASE recordLocator(p)
  <2>1. proc'[p].pc = "open" /\ proc'[p].at = proc[p].at /\ proc'[p].key = proc[p].key
    BY <1>4, <1>0 DEF recordLocator, Command
  <2>2. Holds(p)'
    BY <1>4, <2>1, <1>0 DEF recordLocator, OpenInv, PhaseOK, Holds, Load
  <2>3. OpenInv(p)' /\ MoveInv(p)'
    BY <2>1, <2>2 DEF OpenInv, MoveInv, Moving
  <2>4. StoreInv'
    BY <1>4 DEF recordLocator, StoreInv, Encrypted, Load
  <2> QED BY <2>3, <2>4
<1>5. CASE create(p)
  <2>1. proc'[p].pc = "put" /\ proc'[p].at = proc[p].at
    BY <1>5, <1>0 DEF create, Command
  <2>2. OpenInv(p)' /\ MoveInv(p)'
    BY <1>5, <2>1 DEF create, MayCreate, OpenInv, MoveInv, Moving, Encrypted
  <2> QED BY <1>5, <2>2, <1>b DEF create
<1>6. CASE SaveVerified(p)
  <2>1. proc'[p].pc = "verify" /\ proc'[p].at = proc[p].at /\ ~Encrypted /\ ~Encrypted'
    BY <1>6, <1>0 DEF SaveVerified, Command, OpenInv, Encrypted
  <2>2. OpenInv(p)' /\ MoveInv(p)'
    BY <1>6, <2>1 DEF SaveVerified, OpenInv, MoveInv, Moving
  <2> QED BY <2>1, <2>2 DEF StoreInv
<1>7. CASE SaveManifest(p)
  <2>1. /\ proc'[p].pc = "open" /\ proc'[p].at = proc[p].at /\ proc'[p].key = proc[p].key
        /\ ~Encrypted'
    BY <1>7, <1>0 DEF SaveManifest, Command, OpenInv, Encrypted
  <2>2. Holds(p)'
    BY <1>7, <2>1, <1>0 DEF SaveManifest, PhaseOK, Holds, Load
  <2>3. OpenInv(p)' /\ MoveInv(p)'
    BY <2>1, <2>2 DEF OpenInv, MoveInv, Moving
  <2> QED BY <2>1, <2>3 DEF StoreInv
<1>d. ASSUME Opened(p)
      PROVE  \/ proc'[p].pc = "idle"
             \/ /\ proc'[p].pc = "up" /\ proc'[p].at = proc[p].at
                /\ proc'[p].key = proc[p].key
  BY <1>d, <1>0 DEF Opened, Idle, Command
<1>8. CASE NewEncryptedFile(p)
  <2>1. Holds(p) /\ UNCHANGED <<store, locator, record, keyFile, purging>> /\ Readable(p)
    BY <1>8 DEF NewEncryptedFile, OpenInv
  <2>2. CASE Opened(p)
    <3>1. CASE proc'[p].pc = "idle"
      BY <3>1, <2>1, <1>a, <1>b
    <3>2. CASE proc'[p].pc = "up" /\ proc'[p].at = proc[p].at /\ proc'[p].key = proc[p].key
      <4>1. Holds(p)' /\ Readable(p)'
        BY <2>1, <3>2 DEF Holds, Load, Readable, Encrypted
      <4> QED BY <3>2, <4>1, <2>1, <1>b DEF OpenInv, MoveInv, Moving
    <3> QED BY <2>2, <1>d, <3>1, <3>2
  <2>3. CASE /\ store.kind = "file"
             /\ proc' = [proc EXCEPT ![p].pc = "seal", ![p].entries = store.entries]
    <3>1. /\ proc'[p].pc = "seal" /\ proc'[p].at = proc[p].at /\ proc'[p].key = proc[p].key
          /\ proc'[p].entries = store.entries
      BY <2>3, <1>0 DEF Command
    <3>2. Holds(p)' /\ ~Encrypted'
      BY <2>1, <2>3, <3>1 DEF Holds, Load, Encrypted
    <3> QED BY <2>1, <3>1, <3>2, <1>b DEF OpenInv, MoveInv, Moving
  <2> QED BY <1>8, <2>2, <2>3 DEF NewEncryptedFile
<1>9. CASE Migrated(p)
  <2>1. /\ Holds(p) /\ UNCHANGED <<locator, record, keyFile, purging>>
        /\ store'.key = proc[p].key /\ Encrypted'
    BY <1>9 DEF Migrated, write, OpenInv, Holds, Encrypted
  <2>2. StoreInv'
    BY <2>1 DEF StoreInv, Holds, Load
  <2>3. CASE proc'[p].pc = "idle"
    BY <2>2, <2>3, <1>a
  <2>4. CASE proc'[p].pc = "up" /\ proc'[p].at = proc[p].at /\ proc'[p].key = proc[p].key
    <3>1. Holds(p)' /\ Readable(p)'
      BY <2>1, <2>4 DEF Holds, Load, Readable
    <3> QED BY <2>2, <2>4, <3>1 DEF OpenInv, MoveInv, Moving
  <2> QED BY <1>9, <1>d, <2>3, <2>4 DEF Migrated
<1>10. CASE OpenPlain(p)
  <2>1. proc[p].key = None /\ Readable(p) /\ UNCHANGED <<store, locator, record, keyFile, purging>>
    BY <1>10, <1>0 DEF OpenPlain, PhaseOK
  <2>2. CASE proc'[p].pc = "idle"
    BY <2>1, <2>2, <1>a, <1>b
  <2>3. CASE proc'[p].pc = "up" /\ proc'[p].at = proc[p].at /\ proc'[p].key = proc[p].key
    BY <2>1, <2>3, <1>b DEF OpenInv, MoveInv, Moving, Readable, Encrypted
  <2> QED BY <1>10, <1>d, <2>2, <2>3 DEF OpenPlain
<1>11. CASE Read(p)
  <2>1. PICK n \in Names, v \in Values \cup {None} :
          proc' = [proc EXCEPT ![p].pc = "write", ![p].entries = [store.entries EXCEPT ![n] = v]]
    BY <1>11 DEF Read
  <2>2. /\ proc'[p].pc = "write" /\ proc'[p].at = proc[p].at /\ proc'[p].key = proc[p].key
        /\ proc'[p].entries = [store.entries EXCEPT ![n] = v]
    BY <2>1, <1>0 DEF Command
  <2>3. UNCHANGED <<store, locator, record, keyFile, purging>> /\ Readable(p)
        /\ (proc[p].key # None => Holds(p))
    BY <1>11 DEF Read, OpenInv
  <2>4. Readable(p)' /\ (proc'[p].key # None => Holds(p)')
    BY <2>2, <2>3 DEF Readable, Encrypted, Holds, Load
  <2>5. OpenInv(p)' /\ MoveInv(p)'
    BY <2>2, <2>3, <2>4 DEF OpenInv, MoveInv, Moving
  <2> QED BY <2>3, <2>5, <1>b
<1>12. CASE Write(p)
  <2>1. proc'[p].pc = "up" /\ proc'[p].at = proc[p].at /\ proc'[p].key = proc[p].key
    BY <1>12, <1>0 DEF Write, Command
  <2>2. UNCHANGED <<locator, record, keyFile, purging>> /\ Readable(p)
        /\ (proc[p].key # None => Holds(p))
    BY <1>12 DEF Write, OpenInv
  <2>3. proc'[p].key # None => Holds(p)'
    BY <2>1, <2>2 DEF Holds, Load
  <2>4. Readable(p)' /\ StoreInv'
    <3>1. CASE UNCHANGED store
      BY <2>1, <2>2, <3>1, <1>b DEF Readable, Encrypted
    <3>2. CASE write(p)
      <4>1. store'.key = proc[p].key /\ (Encrypted' => proc[p].key # None)
        BY <3>2 DEF write, Encrypted
      <4> QED BY <4>1, <2>1, <2>2 DEF Readable, StoreInv, Holds, Load
    <3> QED BY <1>12, <3>1, <3>2 DEF Write
  <2> QED BY <2>1, <2>3, <2>4 DEF OpenInv, MoveInv, Moving
<1>13. CASE MigrateKeyCustody(p)
  <2>0. PICK exported \in BOOLEAN, to \in Protectors \cup {KeyFile} : \E source \in Source(exported) :
          /\ Kind(source) # Kind(to) \/ (source \in Helpers /\ source # to)
          /\ Load(source) \in Keys
          /\ proc' = [proc EXCEPT ![p] = [Idle EXCEPT !.pc = "transfer", !.cmd = "migrate",
                 !.at = source, !.to = to, !.keyFile = exported, !.key = Load(source)]]
    BY <1>13 DEF MigrateKeyCustody
  <2>1. PICK source \in Source(exported) :
          /\ Kind(source) # Kind(to) \/ (source \in Helpers /\ source # to)
          /\ Load(source) \in Keys
          /\ proc' = [proc EXCEPT ![p] = [Idle EXCEPT !.pc = "transfer", !.cmd = "migrate",
                 !.at = source, !.to = to, !.keyFile = exported, !.key = Load(source)]]
    BY <2>0
  <2>2. /\ proc'[p].pc = "transfer" /\ proc'[p].at = source /\ proc'[p].to = to
        /\ proc'[p].key = Load(source)
    BY <2>1, <1>0 DEF Idle
  <2>3. /\ source \in Protectors \cup {KeyFile} /\ source # to
        /\ source # KeyFile => locator = source
        /\ source = KeyFile => locator = None
    BY <2>1 DEF Source, TypeOK
  <2>4. UNCHANGED <<store, locator, record, keyFile, purging>>
    BY <1>13 DEF MigrateKeyCustody
  <2>5. Holds(p)'
    BY <2>1, <2>2, <2>3, <2>4 DEF Holds, Load
  <2>6. OpenInv(p)' /\ MoveInv(p)'
    BY <2>2, <2>3, <2>4, <2>5 DEF OpenInv, MoveInv, Moving
  <2> QED BY <2>4, <2>6, <1>b
<1>14. CASE Transfer(p)
  <2>1. /\ proc'[p].pc = "check" /\ proc'[p].at = proc[p].at /\ proc'[p].to = proc[p].to
        /\ proc'[p].key = proc[p].key
    BY <1>14, <1>0 DEF Transfer, Command
  <2>2. /\ Holds(p) /\ (proc[p].at = KeyFile => locator = None)
        /\ proc[p].to # proc[p].at /\ proc[p].to \in Protectors \cup {KeyFile}
    BY <1>14, <1>0 DEF Transfer, MoveInv, Moving, PhaseOK
  <2>3. UNCHANGED <<store, locator, purging>>
    BY <1>14 DEF Transfer
  <2>4. /\ \A b \in (Protectors \cup {KeyFile}) \ {proc[p].to} : Load(b)' = Load(b)
        /\ keyFile # None => keyFile' = keyFile
    <3>1. CASE proc[p].to = KeyFile
      BY <1>14, <3>1 DEF Transfer, Load
    <3>2. CASE proc[p].to # KeyFile
      <4>1. /\ keyFile' = keyFile
            /\ \E r : record' = [record EXCEPT ![BackendOf[proc[p].to]] = r]
        BY <1>14, <3>2 DEF Transfer, Put
      <4>2. \A b \in Protectors \ {proc[p].to} : record'[BackendOf[b]] = record[BackendOf[b]]
        BY <4>1, <3>2, <2>2, <1>c
      <4> QED BY <4>1, <4>2 DEF Load
    <3> QED BY <3>1, <3>2
  <2>5. Holds(p)'
    <3>1. Load(proc[p].at) = proc[p].key /\ proc[p].at \in (Protectors \cup {KeyFile}) \ {proc[p].to}
      BY <2>2 DEF Holds
    <3>2. Load(proc[p].at)' = proc[p].key
      BY <2>1, <2>4, <3>1
    <3> QED BY <2>1, <2>2, <2>3, <3>2 DEF Holds
  <2>6. OpenInv(p)' /\ MoveInv(p)'
    BY <2>1, <2>2, <2>3, <2>5 DEF OpenInv, MoveInv, Moving
  <2>7. StoreInv'
    <3>1. locator # None => locator \in Protectors \ {proc[p].to}
      BY <2>2 DEF Holds, TypeOK
    <3>2. locator # None => Load(locator)' = Load(locator)
      BY <2>3, <2>4, <3>1
    <3> QED BY <2>3, <2>4, <3>2 DEF StoreInv, Encrypted, TypeOK
  <2> QED BY <2>6, <2>7
<1>15. CASE VerifyTarget(p)
  <2>1. /\ proc'[p].pc = "undo" \/ (proc'[p].pc = "commit" /\ Load(proc[p].to) = proc[p].key)
        /\ proc'[p].at = proc[p].at /\ proc'[p].to = proc[p].to /\ proc'[p].key = proc[p].key
    BY <1>15, <1>0 DEF VerifyTarget, Command
  <2>2. /\ Holds(p) /\ (proc[p].at = KeyFile => locator = None) /\ proc[p].to # proc[p].at
        /\ UNCHANGED <<store, locator, record, keyFile, purging>>
    BY <1>15 DEF VerifyTarget, MoveInv, Moving
  <2>3. Holds(p)' /\ (proc'[p].pc = "commit" => Load(proc[p].to)' = proc'[p].key)
    BY <2>1, <2>2 DEF Holds, Load
  <2>4. OpenInv(p)' /\ MoveInv(p)'
    BY <2>1, <2>2, <2>3 DEF OpenInv, MoveInv, Moving
  <2> QED BY <2>2, <2>4, <1>b
<1>16. CASE Commit(p)
  <2>1. /\ proc'[p].at = proc[p].at /\ proc'[p].to = proc[p].to /\ proc'[p].key = proc[p].key
        /\ \/ /\ proc'[p].pc = "deleteSource"
              /\ locator' = IF proc[p].to = KeyFile THEN None ELSE proc[p].to
           \/ proc'[p].pc = "undo" /\ locator' = locator
    BY <1>16, <1>0 DEF Commit, Command, Undisturbed
  <2>2. /\ Holds(p) /\ (proc[p].at = KeyFile => locator = None) /\ proc[p].to # proc[p].at
        /\ Load(proc[p].to) = proc[p].key /\ proc[p].to \in Protectors \cup {KeyFile}
        /\ UNCHANGED <<store, record, keyFile, purging>>
    BY <1>16, <1>0 DEF Commit, MoveInv, Moving, PhaseOK
  <2>3. CASE proc'[p].pc = "undo" /\ locator' = locator
    <3>1. Holds(p)'
      BY <2>1, <2>2, <2>3 DEF Holds, Load
    <3>2. OpenInv(p)' /\ MoveInv(p)'
      BY <2>1, <2>2, <2>3, <3>1 DEF OpenInv, MoveInv, Moving
    <3> QED BY <3>2, <2>2, <2>3, <1>b
  <2>4. CASE /\ proc'[p].pc = "deleteSource"
             /\ locator' = IF proc[p].to = KeyFile THEN None ELSE proc[p].to
    <3>1. Load(proc[p].to)' = proc'[p].key
      BY <2>1, <2>2 DEF Load
    <3>2. OpenInv(p)' /\ MoveInv(p)'
      BY <2>1, <2>2, <2>4, <3>1 DEF OpenInv, MoveInv, Moving
    <3>3. StoreInv'
      BY <2>2, <2>4 DEF StoreInv, Encrypted, Holds, Load
    <3> QED BY <3>2, <3>3
  <2> QED BY <2>1, <2>3, <2>4
<1>17. CASE DeleteTarget(p)
  <2>1. proc'[p].pc = "idle" /\ UNCHANGED <<store, locator, keyFile, purging>>
    BY <1>17, <1>0 DEF DeleteTarget, Idle
  <2>2. /\ proc[p].to # proc[p].at /\ proc[p].to \in Protectors \cup {KeyFile}
        /\ locator # None => locator = proc[p].at
    BY <1>17, <1>0 DEF DeleteTarget, MoveInv, Moving, PhaseOK, Holds
  <2>3. locator # None => record'[BackendOf[locator]] = record[BackendOf[locator]]
    BY <1>17, <2>2, <1>c DEF DeleteTarget, Deleted, TypeOK
  <2>4. StoreInv'
    BY <2>1, <2>3 DEF StoreInv, Encrypted, Load, TypeOK
  <2> QED BY <2>1, <2>4, <1>a
<1>18. CASE DeleteSource(p)
  <2>1. proc'[p].pc = "idle" /\ UNCHANGED <<store, locator, keyFile, purging>>
    BY <1>18, <1>0 DEF DeleteSource, Idle
  <2>2. /\ proc[p].at # proc[p].to /\ proc[p].at \in Protectors \cup {KeyFile}
        /\ locator # None => locator = proc[p].to
    BY <1>18, <1>0 DEF DeleteSource, MoveInv, Moving, PhaseOK
  <2>3. locator # None => record'[BackendOf[locator]] = record[BackendOf[locator]]
    BY <1>18, <2>2, <1>c DEF DeleteSource, Deleted, TypeOK
  <2>4. StoreInv'
    BY <2>1, <2>3 DEF StoreInv, Encrypted, Load, TypeOK
  <2> QED BY <2>1, <2>4, <1>a
<1>19. CASE DeleteKeyCustody(p)
  <2>1. proc'[p].pc = "purge" /\ UNCHANGED <<store, locator, keyFile>>
    BY <1>19, <1>0 DEF DeleteKeyCustody, Idle
  <2>2. PICK place \in IF locator # None THEN {locator} ELSE Protectors \cup {KeyFile} :
          purging' = (purging \/ (Encrypted /\ place # KeyFile /\ Load(place) = store.key))
    BY <1>19 DEF DeleteKeyCustody
  <2>3. Encrypted /\ ~purging' => keyFile = store.key
    BY <2>2 DEF StoreInv, TypeOK
  <2>4. StoreInv'
    BY <2>1, <2>3 DEF StoreInv, Encrypted
  <2>5. OpenInv(p)' /\ MoveInv(p)'
    BY <2>1, <2>3 DEF OpenInv, MoveInv, Moving, Encrypted
  <2> QED BY <2>4, <2>5
<1>20. CASE doPurge(p)
  <2>1. /\ proc' = proc /\ proc[p].pc = "purge" /\ UNCHANGED keyFile
        /\ \/ ~Encrypted'
           \/ UNCHANGED <<store, purging>>
    BY <1>20 DEF doPurge, Absent, Encrypted
  <2>2. Encrypted' /\ ~purging' => keyFile' = store'.key
    BY <2>1, <1>20 DEF doPurge, MoveInv, Encrypted
  <2> QED BY <2>1, <2>2 DEF StoreInv, OpenInv, MoveInv, Moving
<1> QED
  BY <1>1, <1>2, <1>3, <1>4, <1>5, <1>6, <1>7, <1>8, <1>9, <1>10, <1>11, <1>12, <1>13,
     <1>14, <1>15, <1>16, <1>17, <1>18, <1>19, <1>20
  DEF Step

(* The inductive step of IInv. *)
LEMMA InvariantStep == ASSUME IInv, [Next]_vars PROVE IInv'
<1>1. CASE UNCHANGED vars
  BY <1>1 DEF vars, IInv, TypeOK, StoreInv, OpenInv, MoveInv, Holds, Load, Encrypted, Readable,
     PhaseOK
<1>2. CASE PlaceKeyFile
  <2>1. TypeOK'
    BY <1>2 DEF PlaceKeyFile, IInv, TypeOK, Encrypted, PhaseOK
  <2>2. ASSUME Undisturbed PROVE StoreInv'
    BY <1>2, <2>2, ConstantFacts DEF PlaceKeyFile, IInv, TypeOK, StoreInv, Encrypted, Load
  <2>3. ASSUME Undisturbed, NEW p \in Procs PROVE OpenInv(p)' /\ MoveInv(p)'
    <3>1. OpenInv(p) /\ MoveInv(p) /\ PhaseOK(p) /\ TypeOK /\ StoreInv
      BY <2>3 DEF IInv, TypeOK
    <3>2. \A place \in Protectors \cup {KeyFile} : Load(place) # None => Load(place)' = Load(place)
      BY <1>2, ConstantFacts DEF PlaceKeyFile, Load
    <3>3. Holds(p) => Holds(p)'
      BY <1>2, <3>2, ConstantFacts DEF PlaceKeyFile, Holds
    <3>4. OpenInv(p)'
      BY <1>2, <3>1, <3>2, <3>3, ConstantFacts
      DEF PlaceKeyFile, OpenInv, Encrypted, Readable, PhaseOK
    <3>5. MoveInv(p)'
      BY <1>2, <3>1, <3>2, <3>3, ConstantFacts
      DEF PlaceKeyFile, MoveInv, Encrypted, PhaseOK, Moving, TypeOK
    <3> QED BY <3>4, <3>5
  <2> QED BY <2>1, <2>2, <2>3 DEF IInv
<1>3. ASSUME NEW p \in Procs, Step(p) PROVE IInv'
  <2>1. TypeOK'
    BY <1>3, TypeStep DEF IInv
  <2>2. ASSUME Undisturbed PROVE StoreInv' /\ \A q \in Procs : OpenInv(q)' /\ MoveInv(q)'
    <3>1. StoreInv' /\ OpenInv(p)' /\ MoveInv(p)'
      BY <1>3, <2>2, KeyStep DEF IInv
    <3>2. \A q \in Procs : q = p
      BY <2>2 DEF Undisturbed
    <3> QED BY <3>1, <3>2
  <2> QED BY <2>1, <2>2 DEF IInv
<1> QED BY <1>1, <1>2, <1>3 DEF Next

(* The types hold always; undisturbed, so does where the data key is.      *)
THEOREM InvariantTheorem == Spec => []IInv
<1>1. Init => IInv
  <2> SUFFICES ASSUME Init PROVE IInv OBVIOUS
  <2>1. TypeOK
    BY TypeInit
  <2>2. StoreInv
    BY DEF Init, StoreInv, Encrypted, Absent
  <2>3. \A p \in Procs : OpenInv(p) /\ MoveInv(p)
    BY DEF Init, Idle, OpenInv, MoveInv, Moving
  <2> QED BY <2>1, <2>2, <2>3 DEF IInv
<1>2. IInv /\ [Next]_vars => IInv'
  BY InvariantStep
<1> QED BY <1>1, <1>2, PTL DEF Spec

(* KeyKept: with one command at a time, a backend per protector and        *)
(* directories that sync, the data key of an encrypted store is never      *)
(* lost, through crashes, failing protectors and migrations.               *)
THEOREM KeyKeptTheorem ==
    ASSUME Undisturbed PROVE Spec => []KeyKept
<1>1. IInv => KeyKept
  BY ConstantFacts DEF IInv, StoreInv, KeyKept, Load, TypeOK
<1> QED BY <1>1, InvariantTheorem, PTL

(* Every step, undisturbed, is one of the abstract store or a stutter. *)
LEMMA PromiseStep ==
    ASSUME Undisturbed, IInv, [Next]_vars
    PROVE  [Promise!Next]_<<store.entries, store.key>>
<1> USE ConstantFacts
<1>1. CASE UNCHANGED store
  BY <1>1
<1>2. ASSUME NEW p \in Procs, Migrated(p) PROVE Promise!Seal
  <2>1. proc[p].key \in Keys /\ proc[p].entries = store.entries /\ store.key = None
    BY <1>2 DEF Migrated, IInv, TypeOK, PhaseOK, OpenInv
  <2>2. store'.key = proc[p].key /\ store'.entries = proc[p].entries
    BY <1>2 DEF Migrated, write
  <2> QED BY <2>1, <2>2 DEF Promise!Seal, Promise!SealKept
<1>3. ASSUME NEW p \in Procs, Write(p), write(p)
      PROVE  \E n \in Names, v \in Values \cup {None} : Promise!Put(n, v)
  <2>1. PICK n \in Names, v \in Values \cup {None} : proc[p].entries = [store.entries EXCEPT ![n] = v]
    BY <1>3 DEF Write, IInv, OpenInv
  <2>2. store'.key = proc[p].key /\ store'.entries = proc[p].entries
    BY <1>3 DEF write
  <2>3. Readable(p) /\ proc[p].key \in Keys \cup {None}
    BY <1>3 DEF Write, IInv, OpenInv, TypeOK, Command
  <2>4. store.key = None \/ store.key = proc[p].key
    BY <2>3 DEF Readable, IInv, TypeOK
  <2> QED BY <2>1, <2>2, <2>3, <2>4 DEF Promise!Put, Promise!SealKept
<1>4. ASSUME NEW p \in Procs, store' = Absent PROVE Promise!Purge
  BY <1>4 DEF Absent, Promise!Purge, Promise!Empty, Empty
<1>5. ASSUME NEW p \in Procs, Step(p) PROVE [Promise!Next]_<<store.entries, store.key>>
  <2>1. CASE UNCHANGED store
    BY <2>1
  <2>2. CASE Migrated(p)
    BY <2>2, <1>2 DEF Promise!Next
  <2>3. CASE Write(p)
    BY <2>3, <2>1, <1>3 DEF Write, Promise!Next
  <2>4. CASE doPurge(p)
    BY <2>4, <2>1, <1>4 DEF doPurge, Promise!Next
  <2>5. Migrated(p) \/ Write(p) \/ doPurge(p) \/ UNCHANGED store
    BY <1>5 DEF Step, Open, dataKey, recordLocator, create, SaveVerified, SaveManifest,
       NewEncryptedFile, OpenPlain, Read, MigrateKeyCustody, Transfer, VerifyTarget, Commit,
       DeleteTarget, DeleteSource, DeleteKeyCustody, Exit
  <2> QED BY <2>1, <2>2, <2>3, <2>4, <2>5
<1>6. UNCHANGED vars \/ PlaceKeyFile => UNCHANGED store
  BY DEF vars, PlaceKeyFile
<1> QED BY <1>1, <1>5, <1>6 DEF Next

(* StorePromise: undisturbed, the file store implements CredentialStore:   *)
(* entries change one at a time, and an encrypted store stays encrypted    *)
(* under its key until it is purged.                                       *)
THEOREM StorePromiseTheorem ==
    ASSUME Undisturbed PROVE Spec => StorePromise
<1>1. Init => Promise!Init
  BY ConstantFacts DEF Init, Absent, Entries, Promise!Init
<1>2. IInv /\ [Next]_vars => [Promise!Next]_<<store.entries, store.key>>
  BY PromiseStep
<1> QED BY <1>1, <1>2, InvariantTheorem, PTL DEF Spec, StorePromise, Promise!Spec

-----------------------------------------------------------------------------
(* ClientRegistration and SignIn.  UsedInv compares the table with the     *)
(* file it is reloaded from; AudienceInv what was declared with the rules  *)
(* file, and both with what a callback has seen.                           *)

LEMMA NoEntriesTable ==
    ASSUME NEW n
    PROVE  Table(NoEntries, n) /\ DOMAIN NoEntries = {}
  BY DEF Table, NoEntries

LEMMA TableMore ==
    ASSUME NEW t, NEW n \in Nat, NEW m \in Nat, n <= m, Table(t, n)
    PROVE  Table(t, m)
  BY DEF Table

(* A sweep takes out clients that were never used. *)
LEMMA SweptTable ==
    ASSUME NEW t, NEW n, Table(t, n)
    PROVE  /\ Table(expireUnusedClientsLocked(t), n)
           /\ \A ids : AllUsed(ids, t) => AllUsed(ids, expireUnusedClientsLocked(t))
           /\ DOMAIN expireUnusedClientsLocked(t) \subseteq DOMAIN t
  <1> DEFINE gone == Expired(t)
             s == [c \in DOMAIN t \ gone |-> t[c]]
  <1>1. expireUnusedClientsLocked(t) = s
    BY DEF expireUnusedClientsLocked, Without
  <1>2. \A c \in gone : ~t[c].used
    BY DEF Expired
  <1> HIDE DEF gone
  <1>3. /\ DOMAIN s = DOMAIN t \ gone /\ \A c \in DOMAIN s : s[c] = t[c]
        /\ s = [c \in DOMAIN s |-> s[c]]
    OBVIOUS
  <1> HIDE DEF s
  <1>4. Table(s, n) /\ \A ids : AllUsed(ids, t) => AllUsed(ids, s)
    BY <1>2, <1>3 DEF Table, AllUsed
  <1> QED
    BY <1>1, <1>3, <1>4

(* A write leaves the new table, or a file that is known not to be it. *)
LEMMA Persisted ==
    ASSUME UsedInv, NEW t, NEW i, NEW how \in ClientWrites
    PROVE  /\ DOMAIN persistClientsLocked(t, i, how) = {"readable", "issuer", "clients", "current"}
           /\ persistClientsLocked(t, i, how).clients \in {t, stored.clients, NoEntries}
           /\ (persistClientsLocked(t, i, how).readable /\ persistClientsLocked(t, i, how).current) =>
                 /\ persistClientsLocked(t, i, how).issuer = i
                 /\ persistClientsLocked(t, i, how).clients = t
  <1> DEFINE s == persistClientsLocked(t, i, how)
  <1>1. how \in {"ok", "failed", "torn"} /\ DOMAIN stored = {"readable", "issuer", "clients", "current"}
    BY RegistrationAssumption DEF UsedInv
  <1>2. CASE how = "ok"
    <2>1. s = [readable |-> TRUE, issuer |-> i, clients |-> t, current |-> TRUE]
      BY <1>2 DEF persistClientsLocked
    <2> HIDE DEF s
    <2>2. DOMAIN s = {"readable", "issuer", "clients", "current"} /\ s.issuer = i /\ s.clients = t
      BY <2>1
    <2> QED
      BY <2>2 DEF s
  <1>3. CASE how = "failed"
    <2>1. s = [stored EXCEPT !.current = FALSE]
      BY <1>3 DEF persistClientsLocked
    <2> HIDE DEF s
    <2>2. DOMAIN s = {"readable", "issuer", "clients", "current"} /\ ~s.current /\ s.clients = stored.clients
      BY <1>1, <2>1
    <2> QED
      BY <2>2 DEF s
  <1>4. CASE how = "torn"
    <2> DEFINE none == NoEntries
    <2>1. s = [stored EXCEPT !.readable = FALSE, !.clients = none, !.current = FALSE]
      BY <1>4 DEF persistClientsLocked
    <2> HIDE DEF s, none
    <2>2. DOMAIN s = {"readable", "issuer", "clients", "current"} /\ ~s.current /\ s.clients = none
      BY <1>1, <2>1
    <2> QED
      BY <2>2 DEF s, none
  <1> QED
    BY <1>1, <1>2, <1>3, <1>4

(* The table changes in a running gateway and is written if it did. *)
LEMMA TableStep ==
    ASSUME UsedInv, UNCHANGED <<up, issuer>>, up, minted' \in Nat, minted <= minted',
           NEW t, clients' = t, Table(t, minted'), AllUsed(completed', t), NEW how \in ClientWrites,
           \/ t = clients /\ stored' = stored
           \/ stored' = persistClientsLocked(t, issuer, how)
    PROVE  UsedInv'
  <1>1. Table(stored.clients, minted') /\ Table(NoEntries, minted')
    BY TableMore, NoEntriesTable DEF UsedInv
  <1>2. CASE t = clients /\ stored' = stored
    BY <1>1, <1>2 DEF UsedInv
  <1>3. CASE stored' = persistClientsLocked(t, issuer, how)
    <2>1. /\ DOMAIN stored' = {"readable", "issuer", "clients", "current"}
          /\ stored'.clients \in {t, stored.clients, NoEntries}
          /\ (stored'.readable /\ stored'.current) => stored'.issuer = issuer /\ stored'.clients = t
      BY <1>3, Persisted
    <2>2. Table(stored'.clients, minted')
      BY <1>1, <2>1
    <2> QED
      BY <2>1, <2>2 DEF UsedInv
  <1> QED
    BY <1>2, <1>3

LEMMA StepMarks ==
    ASSUME UsedInv, up, UNCHANGED <<up, issuer, minted>>, NEW c, NEW how \in ClientWrites,
           markClientUsedLocked(c, how)
    PROVE  UsedInv'
  <1> DEFINE unmarked == c \in DOMAIN clients /\ ~clients[c].used
             t == [clients EXCEPT ![c].used = TRUE]
  <1>1. /\ clients' = IF unmarked THEN t ELSE clients
        /\ stored' = IF unmarked THEN persistClientsLocked(clients', issuer, how) ELSE stored
        /\ completed' = IF c \in DOMAIN clients THEN completed \cup {c} ELSE completed
    BY DEF markClientUsedLocked
  <1>2. minted \in Nat /\ Table(clients, minted) /\ AllUsed(completed, clients)
    BY DEF UsedInv
  <1>3. CASE ~unmarked
    <2>1. AllUsed(completed', clients)
      BY <1>1, <1>2, <1>3 DEF AllUsed
    <2> QED
      BY <1>1, <1>2, <1>3, <2>1, TableStep
  <1>4. CASE unmarked
    <2>1. /\ t = [x \in DOMAIN t |-> t[x]] /\ DOMAIN t = DOMAIN clients /\ t[c].used
          /\ \A x \in DOMAIN t : /\ DOMAIN t[x] = {"created", "used"}
                                 /\ x # c => t[x] = clients[x]
      BY <1>2, <1>4 DEF Table
    <2> HIDE DEF t
    <2>2. Table(t, minted) /\ AllUsed(completed', t)
      BY <1>1, <1>2, <1>4, <2>1 DEF Table, AllUsed
    <2>3. clients' = t /\ stored' = persistClientsLocked(t, issuer, how)
      BY <1>1, <1>4
    <2> QED
      BY <1>2, <2>2, <2>3, TableStep
  <1> QED
    BY <1>3, <1>4

(* A new client's id is new: it takes no used client's place. *)
LEMMA StepRegisters ==
    ASSUME UsedInv, NEW s, NEW how \in ClientWrites, register(s, how)
    PROVE  UsedInv'
  <1> DEFINE swept == expireUnusedClientsLocked(clients)
             v == [created |-> now, used |-> FALSE]
             t == [c \in DOMAIN swept \cup {minted + 1} |-> IF c = minted + 1 THEN v ELSE swept[c]]
  <1>1. /\ up /\ UNCHANGED <<up, issuer, completed>>
        /\ \/ clients' = swept /\ minted' = minted
           \/ clients' = t /\ minted' = minted + 1
        /\ \/ clients' = clients /\ stored' = stored
           \/ stored' = persistClientsLocked(clients', issuer, how)
    BY DEF register, With
  <1>2. minted \in Nat /\ Table(clients, minted) /\ AllUsed(completed, clients)
    BY <1>1 DEF UsedInv
  <1>3. Table(swept, minted) /\ AllUsed(completed, swept)
    BY <1>2, SweptTable
  <1>4. DOMAIN v = {"created", "used"}
    OBVIOUS
  <1> HIDE DEF swept, v
  <1>5. CASE clients' = swept /\ minted' = minted
    BY <1>1, <1>2, <1>3, <1>5, TableStep
  <1>6. CASE clients' = t /\ minted' = minted + 1
    <2>1. /\ DOMAIN t = DOMAIN swept \cup {minted + 1} /\ t[minted + 1] = v
          /\ \A c \in DOMAIN swept : c # minted + 1 => t[c] = swept[c]
          /\ t = [c \in DOMAIN t |-> t[c]]
      OBVIOUS
    <2> HIDE DEF t
    <2>2. minted + 1 \in Nat /\ minted <= minted + 1 /\ minted + 1 \notin 1 .. minted
          /\ 1 .. minted \subseteq 1 .. (minted + 1) /\ minted + 1 \in 1 .. (minted + 1)
      BY <1>2
    <2>3. \A c \in DOMAIN swept : c # minted + 1
      BY <1>3, <2>2 DEF Table
    <2>4. Table(t, minted + 1)
      BY <1>3, <1>4, <2>1, <2>2, <2>3 DEF Table
    <2>5. AllUsed(completed', t)
      BY <1>1, <1>3, <2>1, <2>3 DEF AllUsed
    <2> QED
      BY <1>1, <1>6, <2>2, <2>4, <2>5, TableStep
  <1> QED
    BY <1>1, <1>5, <1>6

(* What a start loads is the table of the last process, if the file was    *)
(* written; and only then is anything owed to its clients.                 *)
LEMMA StepLoads ==
    ASSUME UsedInv, ~up, up', UNCHANGED minted, NEW i, NEW how \in ClientWrites, LoadClients(i, how),
           up' \in BOOLEAN
    PROVE  UsedInv'
  <1> DEFINE from == Loaded(i)
             t == expireUnusedClientsLocked(from)
  <1>1. /\ clients' = t /\ issuer' = i
        /\ \/ t = from /\ stored' = stored
           \/ stored' = persistClientsLocked(t, i, how)
        /\ completed' = IF stored.readable /\ stored.issuer = i /\ stored.current THEN completed ELSE {}
    BY DEF LoadClients
  <1>2. /\ minted \in Nat /\ Table(stored.clients, minted)
        /\ DOMAIN stored = {"readable", "issuer", "clients", "current"}
        /\ (stored.readable /\ stored.current) => AllUsed(completed, stored.clients)
    BY DEF UsedInv
  <1>3. /\ from \in {stored.clients, NoEntries}
        /\ (stored.readable /\ stored.issuer = i) => from = stored.clients
        /\ DOMAIN from # {} => stored.issuer = i /\ from = stored.clients
    BY NoEntriesTable DEF Loaded
  <1>4. Table(from, minted) /\ AllUsed(completed', from)
    BY <1>1, <1>2, <1>3, NoEntriesTable DEF AllUsed
  <1> HIDE DEF from
  <1>5. Table(t, minted) /\ AllUsed(completed', t) /\ DOMAIN t \subseteq DOMAIN from
    BY <1>4, SweptTable
  <1> HIDE DEF t
  <1>6. CASE t = from /\ stored' = stored
    BY <1>1, <1>2, <1>3, <1>5, <1>6 DEF UsedInv
  <1>7. CASE stored' = persistClientsLocked(t, i, how)
    <2>1. /\ DOMAIN stored' = {"readable", "issuer", "clients", "current"}
          /\ stored'.clients \in {t, stored.clients, NoEntries}
          /\ (stored'.readable /\ stored'.current) => stored'.issuer = i /\ stored'.clients = t
      BY <1>7, Persisted
    <2>2. Table(stored'.clients, minted)
      BY <1>2, <1>5, <2>1, NoEntriesTable
    <2> QED
      BY <1>1, <1>2, <1>5, <2>1, <2>2 DEF UsedInv
  <1> QED
    BY <1>1, <1>6, <1>7

(* What the crash leaves is the file, which had what completed a flow. *)
LEMMA StepForgets ==
    ASSUME UsedInv, up, up' = FALSE, UNCHANGED minted, ForgetClients
    PROVE  UsedInv'
  <1>1. clients' = NoEntries /\ UNCHANGED <<stored, completed>>
    BY DEF ForgetClients
  <1>2. (stored.readable /\ stored.current) => AllUsed(completed, stored.clients)
    BY DEF UsedInv, AllUsed
  <1> QED
    BY <1>1, <1>2, NoEntriesTable DEF UsedInv

LEMMA InitUsed == SignInInit => UsedInv
  <1> SUFFICES ASSUME SignInInit PROVE UsedInv
    OBVIOUS
  <1>1. /\ clients = NoEntries /\ completed = {} /\ up = FALSE
        /\ stored = [readable |-> FALSE, issuer |-> CHOOSE i \in Issuers : TRUE,
                     clients |-> NoEntries, current |-> TRUE]
    BY DEF SignInInit, RegistrationInit, NoFile
  <1>2. PICK b \in Spent : minted = b.ids
    BY DEF SignInInit
  <1>3. minted \in Nat
    BY <1>2, SignInAssumption, RegistrationAssumption
  <1>4. DOMAIN stored = {"readable", "issuer", "clients", "current"} /\ stored.clients = NoEntries
    BY <1>1
  <1> QED
    BY <1>1, <1>3, <1>4, NoEntriesTable DEF UsedInv, AllUsed

LEMMA NextUsed == UsedInv /\ [SignInNext]_signInVars => UsedInv'
  <1> SUFFICES ASSUME UsedInv, [SignInNext]_signInVars PROVE UsedInv'
    OBVIOUS
  <1>1. ASSUME UNCHANGED <<up, issuer, minted, clients, stored, completed>> PROVE UsedInv'
    BY <1>1 DEF UsedInv, AllUsed
  <1>2. ASSUME NEW f \in Flows, NEW how \in ClientWrites, NEW matching, grantCode(f, matching, how)
        PROVE  UsedInv'
    <2>1. up /\ UNCHANGED <<up, issuer, minted>>
      BY <1>2 DEF grantCode, InStage, boundVars
    <2>2. CASE markClientUsedLocked(flow[f].client, how)
      BY <2>1, <2>2, StepMarks
    <2>3. CASE UNCHANGED clientVars
      BY <1>1, <2>1, <2>3 DEF clientVars
    <2> QED
      BY <1>2, <2>2, <2>3 DEF grantCode
  <1>3. ASSUME NEW f \in Flows,
               \/ \E c \in Ids : authorize(f, c)
               \/ ssoCallback(f) \/ Exchange(f) \/ Key(f) \/ refresh(f) \/ validateIDToken(f)
               \/ recordFederatedIdentity(f)
        PROVE  UsedInv'
    BY <1>1, <1>3 DEF authorize, ssoCallback, Exchange, Key, refresh, validateIDToken,
       recordFederatedIdentity, clientVars, boundVars
  <1>4. ASSUME NEW s \in Sources, NEW how \in ClientWrites, Register(s, how) PROVE UsedInv'
    BY <1>4, StepRegisters DEF Register
  <1>5. ASSUME NEW p, NEW q, NEW m, NEW i, NEW how \in ClientWrites, NEW supplied,
               Start(p, q, m, i, how, supplied)
        PROVE  UsedInv'
    <2>1. ~up /\ up' = TRUE /\ UNCHANGED minted /\ LoadClients(i, how)
      BY <1>5 DEF Start
    <2> QED
      BY <2>1, StepLoads
  <1>6. CASE Crash
    BY <1>6, StepForgets DEF Crash
  <1>7. CASE Edit \/ Rotate \/ Tick \/ UNCHANGED signInVars
    BY <1>1, <1>7 DEF Edit, Rotate, Tick, signInVars, clientVars, boundVars
  <1>8. ASSUME NEW p, NEW q, StartFails(p, q) PROVE UsedInv'
    BY <1>1, <1>8 DEF StartFails, clientVars, boundVars
  <1> QED
    BY <1>2, <1>3, <1>4, <1>5, <1>6, <1>7, <1>8 DEF SignInNext

(* UsedKept for any caps, lifetimes, sources and number of restarts: while *)
(* the gateway runs, every client that completed a flow is in its table,   *)
(* through sweeps, and restarts under the same issuer unless the file      *)
(* could not be written.                                                   *)
THEOREM UsedKeptTheorem == SignInSpec => []UsedKept
  <1>1. UsedInv => UsedKept
    BY DEF UsedInv, UsedKept, AllUsed
  <1> QED
    BY <1>1, InitUsed, NextUsed, PTL DEF SignInSpec

(* One sign-in moves on; the rules and the flags stay. *)
LEMMA SignInStep ==
    ASSUME AudienceInv, UNCHANGED <<up, rules, edit, declared, posture>>, up,
           NEW f \in Flows, NEW o, flow' = [flow EXCEPT ![f] = o], DOMAIN o = FlowFields,
           o.stage \in InCallback => Declaration \in o.seen,
           o.stage \in {"admitted", "coded"} => o.nonce /\ \E d \in o.seen : InAudience(o.id, d)
    PROVE  AudienceInv'
  <1>1. flow' = [g \in Flows |-> IF g = f THEN o ELSE flow[g]]
    BY DEF AudienceInv
  <1>2. flow' = [g \in Flows |-> flow'[g]] /\ \A g \in Flows : DOMAIN flow'[g] = FlowFields
    BY <1>1 DEF AudienceInv
  <1>3. Declaration' = Declaration /\ loadLocked' = loadLocked
    BY DEF Declaration, loadLocked
  <1>4. \A g \in Flows : flow'[g].stage \in InCallback => Declaration' \in flow'[g].seen
    BY <1>1, <1>3 DEF AudienceInv
  <1>5. AdmissionCurrent'
    <2> SUFFICES ASSUME NEW g \in Flows, flow'[g].stage \in {"admitted", "coded"}
                 PROVE  (flow[g].nonce /\ \E d \in flow[g].seen : InAudience(flow[g].id, d))'
      BY DEF AdmissionCurrent
    <2>1. CASE g = f
      <3>1. flow'[g] = o
        BY <1>1, <2>1
      <3> QED
        BY <3>1 DEF InAudience
    <2>2. CASE g # f
      <3>1. flow'[g] = flow[g]
        BY <1>1, <2>2
      <3> QED
        BY <3>1 DEF AudienceInv, AdmissionCurrent, InAudience
    <2> QED
      BY <2>1, <2>2
  <1>6. RulesOK'
    BY <1>3 DEF AudienceInv, RulesOK
  <1> QED
    BY <1>2, <1>4, <1>5, <1>6 DEF AudienceInv

LEMMA NoFlowFields ==
    DOMAIN NoFlow = FlowFields /\ NoFlow.stage = "idle"
    /\ "idle" \notin InCallback /\ "idle" \notin {"admitted", "coded"}
  BY DEF NoFlow, FlowFields, InCallback

LEMMA StepEndsFlow ==
    ASSUME AudienceInv, UNCHANGED <<up, rules, edit, declared, posture>>, up, NEW f \in Flows, Fails(f)
    PROVE  AudienceInv'
  <1>1. flow' = [flow EXCEPT ![f] = NoFlow]
    BY DEF Fails
  <1> QED
    BY <1>1, NoFlowFields, SignInStep

LEMMA StepAuthorizes ==
    ASSUME AudienceInv, NEW f \in Flows, NEW c, authorize(f, c)
    PROVE  AudienceInv'
  <1> DEFINE n == NoFlow
             e == now + PendingTTL
             o == [n EXCEPT !.stage = "pending", !.client = c, !.expiry = e]
  <1>1. /\ UNCHANGED <<up, rules, edit, declared, posture>> /\ up
        /\ flow' = [flow EXCEPT ![f] = o]
    BY DEF authorize, InStage, ruleVars
  <1>2. DOMAIN n = FlowFields
    BY NoFlowFields
  <1> HIDE DEF n, e
  <1>3. DOMAIN o = FlowFields /\ o.stage = "pending"
    BY <1>2 DEF FlowFields
  <1> HIDE DEF o
  <1> QED
    BY <1>1, <1>3, SignInStep DEF InCallback

LEMMA StepCallbacks ==
    ASSUME AudienceInv, NEW f \in Flows, ssoCallback(f)
    PROVE  AudienceInv'
  <1> DEFINE ds == {Declaration}
             o == [flow[f] EXCEPT !.stage = "taken", !.expiry = 0, !.seen = ds]
  <1>1. UNCHANGED <<up, rules, edit, declared, posture>> /\ up
    BY DEF ssoCallback, InStage, ruleVars
  <1>2. CASE Fails(f)
    BY <1>1, <1>2, StepEndsFlow
  <1>3. CASE flow' = [flow EXCEPT ![f].stage = "taken", ![f].expiry = 0, ![f].seen = ds]
    <2>1. Declaration \in ds
      OBVIOUS
    <2> HIDE DEF ds
    <2>2. DOMAIN flow[f] = FlowFields /\ flow' = [flow EXCEPT ![f] = o]
      BY <1>3 DEF AudienceInv
    <2>3. DOMAIN o = FlowFields /\ o.stage = "taken" /\ o.seen = ds
      BY <2>2 DEF FlowFields
    <2> HIDE DEF o
    <2> QED
      BY <1>1, <2>1, <2>2, <2>3, SignInStep
  <1> QED
    BY <1>2, <1>3 DEF ssoCallback

LEMMA StepExchanges ==
    ASSUME AudienceInv, NEW f \in Flows, Exchange(f)
    PROVE  AudienceInv'
  <1>1. UNCHANGED <<up, rules, edit, declared, posture>> /\ up /\ flow[f].stage = "taken"
    BY DEF Exchange, InStage, ruleVars
  <1>2. CASE Fails(f)
    BY <1>1, <1>2, StepEndsFlow
  <1>3. ASSUME NEW id, NEW mine,
               flow' = [flow EXCEPT ![f].stage = "keyed", ![f].id = id, ![f].nonce = mine, ![f].kid = kid]
        PROVE  AudienceInv'
    <2> DEFINE o == [flow[f] EXCEPT !.stage = "keyed", !.id = id, !.nonce = mine, !.kid = kid]
    <2>1. DOMAIN flow[f] = FlowFields /\ flow' = [flow EXCEPT ![f] = o]
      BY <1>3 DEF AudienceInv
    <2>2. DOMAIN o = FlowFields /\ o.stage = "keyed" /\ o.seen = flow[f].seen
      BY <2>1 DEF FlowFields
    <2>3. Declaration \in flow[f].seen
      BY <1>1 DEF AudienceInv, InCallback
    <2> HIDE DEF o
    <2> QED
      BY <1>1, <2>1, <2>2, <2>3, SignInStep
  <1> QED
    BY <1>2, <1>3 DEF Exchange

LEMMA StepKeys ==
    ASSUME AudienceInv, NEW f \in Flows, Key(f) \/ refresh(f)
    PROVE  AudienceInv'
  <1>1. UNCHANGED <<up, rules, edit, declared, posture>> /\ up /\ flow[f].stage \in {"keyed", "fetching"}
    BY DEF Key, refresh, InStage, ruleVars
  <1>2. CASE Fails(f)
    BY <1>1, <1>2, StepEndsFlow
  <1>3. ASSUME NEW o, flow' = [flow EXCEPT ![f] = o], DOMAIN o = FlowFields,
               o.stage \in {"signed", "fetching"}, o.seen = flow[f].seen
        PROVE  AudienceInv'
    <2>1. Declaration \in flow[f].seen
      BY <1>1 DEF AudienceInv, InCallback
    <2> QED
      BY <1>1, <1>3, <2>1, SignInStep
  <1>4. DOMAIN flow[f] = FlowFields
    BY DEF AudienceInv
  <1>5. CASE flow' = [flow EXCEPT ![f].stage = "signed", ![f].kid = 0]
    <2> DEFINE o == [flow[f] EXCEPT !.stage = "signed", !.kid = 0]
    <2>1. flow' = [flow EXCEPT ![f] = o]
      BY <1>5 DEF AudienceInv
    <2>2. DOMAIN o = FlowFields /\ o.stage = "signed" /\ o.seen = flow[f].seen
      BY <1>4 DEF FlowFields
    <2> QED
      BY <1>3, <2>1, <2>2
  <1>6. ASSUME NEW ks, flow' = [flow EXCEPT ![f].stage = "fetching", ![f].fetched = ks]
        PROVE  AudienceInv'
    <2> DEFINE o == [flow[f] EXCEPT !.stage = "fetching", !.fetched = ks]
    <2>1. flow' = [flow EXCEPT ![f] = o]
      BY <1>6 DEF AudienceInv
    <2>2. DOMAIN o = FlowFields /\ o.stage = "fetching" /\ o.seen = flow[f].seen
      BY <1>4 DEF FlowFields
    <2> QED
      BY <1>3, <2>1, <2>2
  <1>7. CASE flow' = [flow EXCEPT ![f].stage = "signed", ![f].kid = 0, ![f].fetched = {}]
    <2> DEFINE o == [flow[f] EXCEPT !.stage = "signed", !.kid = 0, !.fetched = {}]
    <2>1. flow' = [flow EXCEPT ![f] = o]
      BY <1>7 DEF AudienceInv
    <2>2. DOMAIN o = FlowFields /\ o.stage = "signed" /\ o.seen = flow[f].seen
      BY <1>4 DEF FlowFields
    <2> QED
      BY <1>3, <2>1, <2>2
  <1>8. CASE Key(f)
    BY <1>2, <1>5, <1>6, <1>8 DEF Key
  <1>9. CASE refresh(f)
    BY <1>2, <1>7, <1>9 DEF refresh
  <1> QED
    BY <1>8, <1>9

(* Whom Permits lets in is in the audience as the file declares it now. *)
LEMMA PermittedInAudience ==
    ASSUME AudienceInv, NEW claims, posture.hd => claims.hd, Permits(FederatedIdentity(claims))
    PROVE  InAudience(claims, Declaration)
  <1> DEFINE id == FederatedIdentity(claims)
             d == Declaration
  <1>1. id.hd = claims.hd
    BY DEF FederatedIdentity
  <1>2. d.readable = rules.readable /\ d.set = declared
    BY DEF Declaration
  <1> HIDE DEF id, d
  <1>3. declared = loadLocked /\ IsFiniteSet(declared)
    BY DEF AudienceInv, RulesOK
  <1>4. /\ Match(id).err = ~rules.readable /\ Match(id).count = Cardinality(declared)
        /\ Match(id).matched = \E r \in declared : matches(r, id)
    BY <1>3 DEF Match
  <1>5. Cardinality(declared) > 0 <=> declared # {}
    <2>1. Cardinality(declared) \in Nat
      BY <1>3, FS_CardinalityType
    <2>2. Cardinality(declared) = 0 <=> declared = {}
      BY <1>3, FS_EmptySet
    <2> QED
      BY <2>1, <2>2
  <1>6. \/ posture.any
        \/ /\ rules.readable
           /\ IF declared # {} THEN \E r \in declared : matches(r, id) ELSE posture.hd
    BY <1>4, <1>5 DEF Permits, id
  <1> QED
    BY <1>1, <1>2, <1>6 DEF InAudience, id, d

LEMMA StepValidates ==
    ASSUME AudienceInv, NEW f \in Flows, validateIDToken(f)
    PROVE  AudienceInv'
  <1>1. UNCHANGED <<up, rules, edit, declared, posture>> /\ up /\ flow[f].stage = "signed"
    BY DEF validateIDToken, InStage, ruleVars
  <1>2. CASE Fails(f)
    BY <1>1, <1>2, StepEndsFlow
  <1>3. CASE ~Fails(f)
    <2> DEFINE o == [flow[f] EXCEPT !.stage = "admitted"]
    <2>1. /\ flow[f].nonce /\ (posture.hd => flow[f].id.hd) /\ Permits(FederatedIdentity(flow[f].id))
          /\ flow' = [flow EXCEPT ![f] = o]
      BY <1>3 DEF validateIDToken
    <2>2. /\ DOMAIN o = FlowFields /\ o.stage = "admitted" /\ o.seen = flow[f].seen
          /\ o.nonce = flow[f].nonce /\ o.id = flow[f].id
      BY DEF AudienceInv, FlowFields
    <2>3. Declaration \in flow[f].seen
      BY <1>1 DEF AudienceInv, InCallback
    <2>4. InAudience(flow[f].id, Declaration)
      BY <2>1, PermittedInAudience
    <2>5. o.nonce /\ \E d \in o.seen : InAudience(o.id, d)
      BY <2>1, <2>2, <2>3, <2>4
    <2> HIDE DEF o
    <2> QED
      BY <1>1, <2>1, <2>2, <2>5, SignInStep DEF InCallback
  <1> QED
    BY <1>2, <1>3

LEMMA StepRecords ==
    ASSUME AudienceInv, NEW f \in Flows, recordFederatedIdentity(f)
    PROVE  AudienceInv'
  <1> DEFINE e == now + CodeTTL
             o == [flow[f] EXCEPT !.stage = "coded", !.expiry = e]
  <1>1. /\ UNCHANGED <<up, rules, edit, declared, posture>> /\ up /\ flow[f].stage = "admitted"
        /\ flow' = [flow EXCEPT ![f].stage = "coded", ![f].expiry = e]
    BY DEF recordFederatedIdentity, InStage, ruleVars
  <1> HIDE DEF e
  <1>2. DOMAIN flow[f] = FlowFields /\ flow' = [flow EXCEPT ![f] = o]
    BY <1>1 DEF AudienceInv
  <1>3. /\ DOMAIN o = FlowFields /\ o.stage = "coded" /\ o.seen = flow[f].seen
        /\ o.nonce = flow[f].nonce /\ o.id = flow[f].id
    BY <1>2 DEF FlowFields
  <1>4. o.nonce /\ \E d \in o.seen : InAudience(o.id, d)
    BY <1>1, <1>3 DEF AudienceInv, AdmissionCurrent
  <1> HIDE DEF o
  <1> QED
    BY <1>1, <1>2, <1>3, <1>4, SignInStep DEF InCallback

(* Edits *)

LEMMA NormalKept ==
    ASSUME NEW spec \in Specs, Usable(spec)
    PROVE  AsKept(normalizeAudienceRule(spec))
  <1> DEFINE low == Lower(spec.value)
  <1>1. spec = [kind |-> spec.kind, value |-> spec.value] /\ Lower(low) = low
    BY AudienceAssumption
  <1>2. CASE spec.kind = "subject"
    BY <1>2 DEF AsKept, normalizeAudienceRule
  <1>3. CASE spec.kind # "subject"
    <2> DEFINE r == [spec EXCEPT !.value = low]
    <2>1. normalizeAudienceRule(spec) = r
      BY <1>3 DEF normalizeAudienceRule
    <2> HIDE DEF low
    <2>2. r.kind = spec.kind /\ r.value = low /\ r = [kind |-> spec.kind, value |-> low]
      BY <1>1
    <2> HIDE DEF r
    <2>3. [r EXCEPT !.value = Lower(@)] = r
      BY <1>1, <2>2
    <2>4. r \notin Malformed
      BY AudienceAssumption DEF r, low, Usable
    <2>5. AsKept(r)
      BY <1>3, <2>2, <2>3, <2>4 DEF AsKept, normalizeAudienceRule, Usable
    <2> QED
      BY <2>1, <2>5
  <1> QED
    BY <1>2, <1>3

(* Rules that were stored are loaded as they are. *)
LEMMA LoadedAsKept ==
    ASSUME \A r \in rules.set : AsKept(r)
    PROVE  loadLocked = rules.set
  BY DEF loadLocked, AsKept

LEMMA StepBeginsEdit ==
    ASSUME RulesOK, NEW e \in Editors, NEW doing, NEW r, AsKept(r), BeginEdit(e, doing, r)
    PROVE  RulesOK'
  <1> DEFINE o == [doing |-> doing, rule |-> r, read |-> declared]
  <1>1. edit' = [edit EXCEPT ![e] = o] /\ UNCHANGED <<rules, declared>>
    BY DEF BeginEdit, RulesOK
  <1>2. o.rule = r /\ o.read = declared
    OBVIOUS
  <1> HIDE DEF o
  <1>3. edit' = [d \in Editors |-> IF d = e THEN o ELSE edit[d]]
    BY <1>1 DEF RulesOK
  <1>4. \A d \in Editors : edit'[d].doing # "none" => edit'[d].read = declared /\ AsKept(edit'[d].rule)
    BY <1>2, <1>3 DEF RulesOK
  <1>5. loadLocked' = loadLocked
    BY <1>1 DEF loadLocked
  <1> QED
    BY <1>1, <1>3, <1>4, <1>5 DEF RulesOK

(* An edit that ends, alone, with the file it leaves. *)
LEMMA StepEndsEdit ==
    ASSUME RulesOK, \A d, e \in Editors : d = e, NEW e \in Editors, edit' = [edit EXCEPT ![e] = NoEdit],
           DOMAIN rules' = {"readable", "set"}, declared' = loadLocked', IsFiniteSet(declared'),
           \A r \in declared' : AsKept(r)
    PROVE  RulesOK'
  <1>1. NoEdit.doing = "none"
    BY DEF NoEdit
  <1>2. edit' = [d \in Editors |-> NoEdit]
    BY DEF RulesOK
  <1> QED
    BY <1>1, <1>2 DEF RulesOK

LEMMA StepWritesRules ==
    ASSUME RulesOK, \A d, e \in Editors : d = e, NEW e \in Editors, writeLocked(e)
    PROVE  RulesOK'
  <1>1. /\ edit[e].doing # "none" /\ rules' = [readable |-> TRUE, set |-> Kept(e)]
        /\ declared' = Wanted(e) /\ edit' = [edit EXCEPT ![e] = NoEdit]
    BY DEF writeLocked
  <1>2. edit[e].read = declared /\ AsKept(edit[e].rule) /\ IsFiniteSet(declared)
        /\ \A r \in declared : AsKept(r)
    BY <1>1 DEF RulesOK
  <1>3. Kept(e) = Wanted(e) /\ \A r \in Wanted(e) : AsKept(r)
    BY <1>2 DEF Kept, Wanted
  <1>4. IsFiniteSet(Wanted(e))
    BY <1>2, FS_AddElement, FS_RemoveElement DEF Wanted
  <1>5. rules'.set = Wanted(e) /\ DOMAIN rules' = {"readable", "set"}
    BY <1>1, <1>3
  <1>6. loadLocked' = rules'.set
    BY <1>3, <1>5 DEF loadLocked, AsKept
  <1> QED
    BY <1>1, <1>3, <1>4, <1>5, <1>6, StepEndsEdit

LEMMA StepEdits ==
    ASSUME RulesOK, \A d, e \in Editors : d = e, EditStep \/ AdminStep
    PROVE  RulesOK'
  <1>1. ASSUME NEW e \in Editors, NEW spec \in Specs, Add(e, spec) \/ Remove(e, spec) PROVE RulesOK'
    <2>1. PICK doing : BeginEdit(e, doing, normalizeAudienceRule(spec)) /\ Usable(spec)
      BY <1>1 DEF Add, Remove
    <2> QED
      BY <2>1, NormalKept, StepBeginsEdit
  <1>2. ASSUME NEW e \in Editors, writeLocked(e) PROVE RulesOK'
    BY <1>2, StepWritesRules
  <1>3. ASSUME NEW e \in Editors, WriteFails(e) PROVE RulesOK'
    <2>1. edit' = [edit EXCEPT ![e] = NoEdit] /\ UNCHANGED <<rules, declared>> /\ loadLocked' = loadLocked
      BY <1>3 DEF WriteFails, loadLocked
    <2> QED
      BY <2>1, StepEndsEdit DEF RulesOK
  <1>4. CASE Damage \/ Repair
    <2>1. UNCHANGED <<edit, declared>> /\ rules'.set = rules.set /\ DOMAIN rules' = DOMAIN rules
      BY <1>4 DEF Damage, Repair, RulesOK
    <2>2. loadLocked' = loadLocked
      BY <2>1 DEF loadLocked
    <2> QED
      BY <2>1, <2>2 DEF RulesOK
  <1> QED
    BY <1>1, <1>2, <1>3, <1>4 DEF EditStep, AdminStep, adminAddAudienceRule, adminDeleteAudienceRule,
       runSSOAudienceAllow, runSSOAudienceRemove

(* A callback in progress sees what an edit declares. *)
LEMMA StepDeclares ==
    ASSUME AudienceInv, \A d, e \in Editors : d = e, Edit
    PROVE  AudienceInv'
  <1> DEFINE new == Declaration'
             Told(f) == [flow[f] EXCEPT !.seen = @ \cup {new}]
  <1>1. /\ RulesOK' /\ UNCHANGED <<up, posture>>
        /\ flow' = [f \in Flows |-> IF flow[f].stage \in InCallback THEN Told(f) ELSE flow[f]]
    BY StepEdits DEF Edit, AudienceInv
  <1> HIDE DEF new
  <1>2. \A f \in Flows : /\ DOMAIN Told(f) = FlowFields /\ Told(f).stage = flow[f].stage
                         /\ new \in Told(f).seen
    BY DEF AudienceInv, FlowFields
  <1> HIDE DEF Told
  <1>3. \A f \in Flows : \/ flow'[f] = flow[f] /\ flow[f].stage \notin InCallback
                         \/ flow'[f] = Told(f) /\ flow[f].stage \in InCallback
    BY <1>1
  <1>4. AdmissionCurrent'
    <2> SUFFICES ASSUME NEW f \in Flows, flow'[f].stage \in {"admitted", "coded"}
                 PROVE  (flow[f].nonce /\ \E d \in flow[f].seen : InAudience(flow[f].id, d))'
      BY DEF AdmissionCurrent
    <2>1. flow'[f] = flow[f]
      BY <1>2, <1>3 DEF InCallback
    <2> QED
      BY <1>1, <2>1 DEF AudienceInv, AdmissionCurrent, InAudience
  <1>5. \A f \in Flows : flow'[f].stage \in InCallback => new \in flow'[f].seen
    BY <1>2, <1>3
  <1>6. \A f \in Flows : /\ DOMAIN flow'[f] = FlowFields
                         /\ flow[f].stage = "idle" => flow'[f].stage = "idle"
    BY <1>2, <1>3 DEF AudienceInv
  <1>7. flow' = [f \in Flows |-> flow'[f]]
    BY <1>1
  <1> QED
    BY <1>1, <1>4, <1>5, <1>6, <1>7 DEF AudienceInv, new

LEMMA InitAudience == SignInInit => AudienceInv
  <1> SUFFICES ASSUME SignInInit PROVE AudienceInv
    OBVIOUS
  <1>1. /\ up = FALSE /\ flow = [f \in Flows |-> NoFlow] /\ declared = loadLocked
        /\ edit = [e \in Editors |-> NoEdit]
        /\ rules \in [readable : {TRUE}, set : {s \in SUBSET Specs : IsFiniteSet(s) /\ Cardinality(s) <= MaxRules}]
    BY DEF SignInInit, RulesInit
  <1> DEFINE good == {r \in rules.set : Usable(r)}
  <1>2. DOMAIN rules = {"readable", "set"} /\ rules.set \subseteq Specs /\ IsFiniteSet(rules.set)
    BY <1>1
  <1>3. IsFiniteSet(good) /\ \A r \in good : r \in Specs /\ Usable(r)
    BY <1>2, FS_Subset
  <1>4. loadLocked = {normalizeAudienceRule(r) : r \in good}
    BY DEF loadLocked
  <1> HIDE DEF good
  <1>5. IsFiniteSet(loadLocked)
    <2> DEFINE as == [r \in good |-> normalizeAudienceRule(r)]
               all == {as[r] : r \in good}
    <2>1. as \in [good -> all]
      OBVIOUS
    <2>2. loadLocked = all
      BY <1>4
    <2>3. as \in Surjection(good, all)
      BY <2>1 DEF Surjection
    <2> HIDE DEF as, all
    <2> QED
      BY <1>3, <2>2, <2>3, FS_Surjection
  <1>6. \A r \in loadLocked : AsKept(r)
    BY <1>3, <1>4, NormalKept
  <1>7. NoEdit.doing = "none"
    BY DEF NoEdit
  <1>8. RulesOK
    BY <1>1, <1>2, <1>5, <1>6, <1>7 DEF RulesOK
  <1> QED
    BY <1>1, <1>8, NoFlowFields DEF AudienceInv, AdmissionCurrent

(* No sign-in is under way: what the flags are does not matter. *)
LEMMA StepRestarts ==
    ASSUME AudienceInv, UNCHANGED <<rules, edit, declared>>, up' \in BOOLEAN,
           flow' = [f \in Flows |-> flow'[f]],
           \A f \in Flows : DOMAIN flow'[f] = FlowFields /\ flow'[f].stage = "idle"
    PROVE  AudienceInv'
  <1>1. loadLocked' = loadLocked
    BY DEF loadLocked
  <1>2. RulesOK'
    BY <1>1 DEF AudienceInv, RulesOK
  <1>3. \A f \in Flows : flow'[f].stage \notin InCallback /\ flow'[f].stage \notin {"admitted", "coded"}
    BY DEF InCallback
  <1>4. AdmissionCurrent'
    BY <1>3 DEF AdmissionCurrent
  <1> QED
    BY <1>2, <1>3, <1>4 DEF AudienceInv

LEMMA NextAudience ==
    ASSUME \A d, e \in Editors : d = e, AudienceInv, [SignInNext]_signInVars
    PROVE  AudienceInv'
  <1>1. ASSUME UNCHANGED <<up, rules, edit, declared, posture, flow>> PROVE AudienceInv'
    <2>1. /\ loadLocked' = loadLocked /\ Declaration' = Declaration
      BY <1>1 DEF loadLocked, Declaration
    <2>2. RulesOK'
      BY <1>1, <2>1 DEF AudienceInv, RulesOK
    <2>3. AdmissionCurrent'
      BY <1>1 DEF AudienceInv, AdmissionCurrent, InAudience
    <2> QED
      BY <1>1, <2>1, <2>2, <2>3 DEF AudienceInv
  <1>2. ASSUME NEW f \in Flows, NEW how, NEW matching, grantCode(f, matching, how) PROVE AudienceInv'
    <2>1. up /\ UNCHANGED <<up, rules, edit, declared, posture>> /\ Fails(f)
      BY <1>2 DEF grantCode, InStage, ruleVars
    <2> QED
      BY <2>1, StepEndsFlow
  <1>3. ASSUME NEW f \in Flows,
               \/ \E c \in Ids : authorize(f, c)
               \/ ssoCallback(f) \/ Exchange(f) \/ Key(f) \/ refresh(f) \/ validateIDToken(f)
               \/ recordFederatedIdentity(f)
        PROVE  AudienceInv'
    BY <1>3, StepAuthorizes, StepCallbacks, StepExchanges, StepKeys, StepValidates, StepRecords
  <1>4. ASSUME NEW s, NEW how, Register(s, how) PROVE AudienceInv'
    BY <1>1, <1>4 DEF Register, register, ruleVars
  <1>5. ASSUME NEW p, NEW q, NEW m, NEW i, NEW how, NEW supplied, Start(p, q, m, i, how, supplied)
        PROVE  AudienceInv'
    <2>1. ~up /\ up' = TRUE /\ UNCHANGED <<rules, edit, declared, flow>>
      BY <1>5 DEF Start, ruleVars
    <2>2. \A f \in Flows : DOMAIN flow'[f] = FlowFields /\ flow'[f].stage = "idle"
      BY <2>1 DEF AudienceInv
    <2>3. flow' = [f \in Flows |-> flow'[f]]
      BY <2>1 DEF AudienceInv
    <2> QED
      BY <2>1, <2>2, <2>3, StepRestarts
  <1>6. CASE Crash
    <2>1. up' = FALSE /\ UNCHANGED <<rules, edit, declared>> /\ flow' = [f \in Flows |-> NoFlow]
      BY <1>6 DEF Crash, ruleVars
    <2>2. \A f \in Flows : DOMAIN flow'[f] = FlowFields /\ flow'[f].stage = "idle"
      BY <2>1, NoFlowFields
    <2> QED
      BY <2>1, <2>2, StepRestarts
  <1>7. CASE Edit
    BY <1>7, StepDeclares
  <1>8. CASE Rotate \/ Tick \/ UNCHANGED signInVars
    BY <1>1, <1>8 DEF Rotate, Tick, signInVars, ruleVars
  <1>9. ASSUME NEW p, NEW q, StartFails(p, q) PROVE AudienceInv'
    BY <1>1, <1>9 DEF StartFails, ruleVars
  <1> QED
    BY <1>2, <1>3, <1>4, <1>5, <1>6, <1>7, <1>8, <1>9 DEF SignInNext

(* AdmissionCurrent for any rules, claims, keys and number of sign-ins,    *)
(* through damage to the rules file and restarts, when one edit is made at *)
(* a time: nobody reaches a code who was not in the declared audience at   *)
(* some time between the callback and the check.  (Of two edits at once,   *)
(* each with a mutex of its own, writeLocked may undo one, and the         *)
(* audience is then not what was acknowledged.)                            *)
THEOREM AdmissionCurrentTheorem ==
    ASSUME \A d, e \in Editors : d = e
    PROVE  SignInSpec => []AdmissionCurrent
  <1>1. AudienceInv /\ [SignInNext]_signInVars => AudienceInv'
    BY NextAudience
  <1>2. AudienceInv => AdmissionCurrent
    BY DEF AudienceInv
  <1> QED
    BY <1>1, <1>2, InitAudience, PTL DEF SignInSpec
=============================================================================
