---------------------------- MODULE SnapshotLibrary ----------------------------
(***************************************************************************)
(* The backup library on top of SnapshotStore: requests that verify a      *)
(* snapshot, scan the library or export a snapshot, each reading a row,    *)
(* working on files and writing back without a lock, beside the engine,    *)
(* the user of the drive and crashes.                                      *)
(*                                                                         *)
(* Sources: internal/snapshots/service.go, the verification and export     *)
(* parts of internal/storage/storage.go and SetSnapshotVerification.       *)
(* Location and digest of a row never change once it is committed, so a    *)
(* request keeps the job only.                                             *)
(***************************************************************************)
EXTENDS SnapshotStore

CONSTANTS
  Requests,         (* HTTP requests on the library.                       *)
  NestedArchives    (* Files named snapshot.zip in the application data:   *)
                    (* records of the job and the file.                    *)

ASSUME NestedAssumption == \A n \in NestedArchives : n.job \in Jobs

VARIABLES
  rpc, rjob,     (* Each request: step and snapshot.                       *)
  verdict,       (* Outcome of the verification.                           *)
  items,         (* Scan: the rows still to be looked at.                  *)
  exports,       (* _restore_exports/export-<id>: ABSENT, OPEN or DONE.    *)
  scratch,       (* Number of _partial/verify-* directories.               *)
  misread        (* Auxiliary: snapshots a check of which met an I/O error.*)

requestVars == <<rpc, rjob, verdict, items>>
libraryVars == <<requestVars, exports, scratch, misread>>
vars == <<storeVars, libraryVars>>

IdleRequests ==
  /\ rpc = [r \in Requests |-> "idle"] /\ rjob = [r \in Requests |-> NoJob]
  /\ verdict = [r \in Requests |-> "NONE"] /\ items = [r \in Requests |-> {}]

LibraryInit ==
  /\ Init /\ IdleRequests
  /\ exports = [j \in Jobs |-> "ABSENT"] /\ scratch = 0 /\ misread = {}

--------------------------------------------------------------------------------
Rows == {j \in Jobs : HasRow(j)}

Begin(r, j, step) ==
  /\ rpc[r] = "idle" /\ HasRow(j)
  /\ rpc' = [rpc EXCEPT ![r] = step] /\ rjob' = [rjob EXCEPT ![r] = j]
  /\ UNCHANGED <<storeVars, verdict, items, exports, scratch, misread>>

End(r) ==
  /\ rpc' = [rpc EXCEPT ![r] = "idle"] /\ rjob' = [rjob EXCEPT ![r] = NoJob]
  /\ verdict' = [verdict EXCEPT ![r] = "NONE"]
  /\ items' = [items EXCEPT ![r] = {}]

Decide(r, outcome) ==
  /\ verdict' = [verdict EXCEPT ![r] = outcome]
  /\ rpc' = [rpc EXCEPT ![r] = "record"]
  /\ UNCHANGED <<storeVars, rjob, items, exports>>

--------------------------------------------------------------------------------
(* Service.Verify, quick and full. *)

BeginVerify(r, j) == Begin(r, j, "quick") \/ Begin(r, j, "full")

CheckQuick(r) ==
  /\ rpc[r] = "quick"
  /\ Decide(r, IF Verified(rjob[r]) THEN "VERIFIED" ELSE "FAILED")
  /\ UNCHANGED <<scratch, misread>>

(* FullVerify: QuickVerify, then the archive is opened and a scratch       *)
(* directory made for the databases in it.                                 *)
FullVerifyFails(r) ==
  /\ rpc[r] = "full" /\ ~Verified(rjob[r])
  /\ Decide(r, "FAILED")
  /\ UNCHANGED <<scratch, misread>>

OpenScratch(r) ==
  /\ rpc[r] = "full" /\ Verified(rjob[r])
  /\ scratch' = scratch + 1
  /\ rpc' = [rpc EXCEPT ![r] = "entries"]
  /\ UNCHANGED <<storeVars, rjob, verdict, items, exports, misread>>

(* Reading every entry: an archive that is altered now may or may not show *)
(* it, a deleted one stays readable through the open file.                 *)
ReadEntries(r) ==
  /\ rpc[r] = "entries"
  /\ \E outcome \in {"VERIFIED", "FAILED"} :
       /\ outcome = "FAILED" => ~Verified(rjob[r])
       /\ Decide(r, outcome)
  /\ scratch' = scratch - 1
  /\ UNCHANGED misread

(* Any error of the drive during a verification is a failed verification,  *)
(* the creation of the scratch directory included.                         *)
CheckError(r) ==
  /\ rpc[r] \in {"quick", "full", "entries"}
  /\ Decide(r, "FAILED")
  /\ scratch' = IF rpc[r] = "entries" THEN scratch - 1 ELSE scratch
  /\ misread' = misread \cup {rjob[r]}

(* SetSnapshotVerification.  A success is written with the context of the  *)
(* request and lost when the client has gone, a failure is not.            *)
SetSnapshotVerification(r) ==
  /\ rpc[r] = "record"
  /\ row' = [row EXCEPT ![rjob[r]].verification = verdict[r]]
  /\ End(r)
  /\ UNCHANGED <<jobStatus, partial, cache, store, pc, localVars, loc, auxVars,
                 exports, scratch, misread>>

(* Mutant: the cancelled context counts as a failed verification. *)
ClientGoneFails(r) ==
  /\ rpc[r] = "record" /\ verdict[r] = "VERIFIED"
  /\ row' = [row EXCEPT ![rjob[r]].verification = "FAILED"]
  /\ End(r)
  /\ UNCHANGED <<jobStatus, partial, cache, store, pc, localVars, loc, auxVars,
                 exports, scratch, misread>>

ClientGone(r) ==
  /\ rpc[r] = "record" /\ verdict[r] = "VERIFIED"
  /\ End(r)
  /\ UNCHANGED <<storeVars, exports, scratch, misread>>

--------------------------------------------------------------------------------
(* Service.Scan: QuickVerify of every row read at the start; only failures *)
(* are written.                                                            *)

BeginScan(r) ==
  /\ rpc[r] = "idle" /\ Rows # {}
  /\ rpc' = [rpc EXCEPT ![r] = "scan"] /\ items' = [items EXCEPT ![r] = Rows]
  /\ UNCHANGED <<storeVars, rjob, verdict, exports, scratch, misread>>

ScanItem(r, j) ==
  /\ rpc[r] = "scan" /\ j \in items[r]
  /\ items' = [items EXCEPT ![r] = @ \ {j}]
  /\ \E failed \in BOOLEAN :
       /\ ~failed => Verified(j)
       /\ rpc' = [rpc EXCEPT ![r] = IF failed THEN "mark" ELSE "scan"]
       /\ rjob' = [rjob EXCEPT ![r] = IF failed THEN j ELSE NoJob]
       /\ misread' = IF failed /\ Verified(j) THEN misread \cup {j} ELSE misread
  /\ UNCHANGED <<storeVars, verdict, exports, scratch>>

ScanMarks(r) ==
  /\ rpc[r] = "mark"
  /\ row' = [row EXCEPT ![rjob[r]].verification = "FAILED"]
  /\ rpc' = [rpc EXCEPT ![r] = "scan"] /\ rjob' = [rjob EXCEPT ![r] = NoJob]
  /\ UNCHANGED <<jobStatus, partial, cache, store, pc, localVars, loc, auxVars,
                 verdict, items, exports, scratch, misread>>

ScanEnds(r) ==
  /\ rpc[r] = "scan" /\ items[r] = {}
  /\ End(r)
  /\ UNCHANGED <<storeVars, exports, scratch, misread>>

--------------------------------------------------------------------------------
(* Service.Export: QuickVerify, then ExportData. *)

BeginExport(r, j) == HasRow(j) /\ Verified(j) /\ Begin(r, j, "lstat")

(* Lstat of the destination: it must not exist. *)
ExportLstat(r) ==
  /\ rpc[r] = "lstat"
  /\ IF exports[rjob[r]] = "ABSENT"
     THEN /\ rpc' = [rpc EXCEPT ![r] = "mkdir"]
          /\ UNCHANGED <<rjob, verdict, items>>
     ELSE End(r)
  /\ UNCHANGED <<storeVars, exports, scratch, misread>>

(* Mutant: MkdirAll, which accepts a directory that exists. *)
ExportMkdirAll(r) ==
  /\ rpc[r] = "mkdir"
  /\ exports' = [exports EXCEPT ![rjob[r]] = "OPEN"]
  /\ rpc' = [rpc EXCEPT ![r] = "extract"]
  /\ UNCHANGED <<storeVars, rjob, verdict, items, scratch, misread>>

(* Mutant: the removal is deferred before Mkdir. *)
ExportMkdirCleans(r) ==
  /\ rpc[r] = "mkdir"
  /\ IF exports[rjob[r]] = "ABSENT"
     THEN /\ exports' = [exports EXCEPT ![rjob[r]] = "OPEN"]
          /\ rpc' = [rpc EXCEPT ![r] = "extract"]
          /\ UNCHANGED <<rjob, verdict, items>>
     ELSE End(r) /\ exports' = [exports EXCEPT ![rjob[r]] = "ABSENT"]
  /\ UNCHANGED <<storeVars, scratch, misread>>

(* Mkdir fails on a directory made since; only after it has succeeded is   *)
(* the removal deferred.                                                   *)
ExportMkdir(r) ==
  /\ rpc[r] = "mkdir"
  /\ IF exports[rjob[r]] = "ABSENT"
     THEN /\ exports' = [exports EXCEPT ![rjob[r]] = "OPEN"]
          /\ rpc' = [rpc EXCEPT ![r] = "extract"]
          /\ UNCHANGED <<rjob, verdict, items>>
     ELSE End(r) /\ UNCHANGED exports
  /\ UNCHANGED <<storeVars, scratch, misread>>

ExportDone(r) ==
  /\ rpc[r] = "extract" /\ store[row[rjob[r]].dir].zip = row[rjob[r]].digest
  /\ exports' = [exports EXCEPT ![rjob[r]] = "DONE"]
  /\ End(r)
  /\ UNCHANGED <<storeVars, scratch, misread>>

(* Mutant: a failed export is not removed. *)
ExportFailsKeeps(r) ==
  /\ rpc[r] = "extract"
  /\ End(r)
  /\ UNCHANGED <<storeVars, exports, scratch, misread>>

(* An error while extracting: the deferred removal of the destination. *)
ExportFails(r) ==
  /\ rpc[r] = "extract"
  /\ exports' = [exports EXCEPT ![rjob[r]] = "ABSENT"]
  /\ End(r)
  /\ UNCHANGED <<storeVars, scratch, misread>>

(* The removal fails too: an incomplete destination stays. *)
ExportStays(r) ==
  /\ rpc[r] = "extract" /\ mishaps < MaxMishaps
  /\ mishaps' = mishaps + 1
  /\ End(r)
  /\ UNCHANGED <<dbVars, partial, cache, store, pc, localVars, loc, execs, used,
                 touched, cut, touches, exports, scratch, misread>>

--------------------------------------------------------------------------------
(* The process dies: requests end where they are. *)
CrashAll ==
  /\ Crash
  /\ rpc' = [r \in Requests |-> "idle"] /\ rjob' = [r \in Requests |-> NoJob]
  /\ verdict' = [r \in Requests |-> "NONE"]
  /\ items' = [r \in Requests |-> {}]
  /\ UNCHANGED <<exports, scratch, misread>>

RequestStep(r) ==
  \/ \E j \in Jobs : BeginVerify(r, j) \/ ScanItem(r, j) \/ BeginExport(r, j)
  \/ CheckQuick(r) \/ FullVerifyFails(r) \/ OpenScratch(r) \/ ReadEntries(r)
  \/ CheckError(r) \/ SetSnapshotVerification(r) \/ ClientGone(r)
  \/ BeginScan(r) \/ ScanMarks(r) \/ ScanEnds(r)
  \/ ExportLstat(r) \/ ExportMkdir(r) \/ ExportDone(r) \/ ExportFails(r)
  \/ ExportStays(r)

Next ==
  \/ /\ QueueStep \/ EngineStep \/ \E d \in Dirs : UserTouches(d)
     /\ UNCHANGED libraryVars
  \/ CrashAll
  \/ \E r \in Requests : RequestStep(r)

Spec == LibraryInit /\ [][Next]_vars

--------------------------------------------------------------------------------
TypeOK ==
  /\ StoreTypeOK
  /\ rpc \in [Requests -> {"idle", "quick", "full", "entries", "record", "scan",
                           "mark", "lstat", "mkdir", "extract"}]
  /\ rjob \in [Requests -> Jobs \cup {NoJob}]
  /\ verdict \in [Requests -> {"NONE", "VERIFIED", "FAILED"}]
  /\ items \in [Requests -> SUBSET Jobs]
  /\ exports \in [Jobs -> {"ABSENT", "OPEN", "DONE"}]
  /\ scratch \in Nat /\ misread \in SUBSET Jobs

(***************************************************************************)
(* A snapshot marked FAILED was changed by the user, or a check of it met  *)
(* an error of the drive: however requests, executions and crashes         *)
(* interleave, the server never writes FAILED on a snapshot it spoiled     *)
(* itself or whose files it had not yet put in place.                      *)
(***************************************************************************)
AlarmsJustified ==
  \A j \in Jobs : row[j].verification = "FAILED" =>
    row[j].dir \in touched \/ j \in misread

(***************************************************************************)
(* Two exports of one snapshot share its destination.  One of them makes   *)
(* the directory and only that one fills or removes it.                    *)
(***************************************************************************)
ExportExclusive ==
  \A r \in Requests : rpc[r] = "extract" =>
    /\ exports[rjob[r]] = "OPEN"
    /\ \A q \in Requests \ {r} : rpc[q] = "extract" => rjob[q] # rjob[r]

(* A finished export is never removed or reopened by the server. *)
ExportsKept ==
  [][\A j \in Jobs : exports[j] = "DONE" => exports'[j] = "DONE"]_vars

(* The files named snapshot.zip that exports in a state hold. *)
Nested(state) == {n \in NestedArchives : exports[n.job] = state}

(***************************************************************************)
(* Service.Summary and Store.Usage.  Usage looks for files of this name in *)
(* every directory but _partial and _trash: it counts final directories    *)
(* and also what exports took out of archives, as far as they have         *)
(* written it.                                                             *)
(***************************************************************************)
Summary(written) ==
  [snapshots |-> Cardinality(Rows),
   missing |-> Cardinality({j \in Rows : ~store[row[j].dir].there}),
   archives |-> Cardinality({d \in Dirs : store[d].zip # NoFile})
                  + Cardinality(Nested("DONE") \cup written),
   partials |-> Cardinality({j \in Jobs : partial[j].there}) + scratch]

(***************************************************************************)
(* The storage page at rest: without crashes, failed removals and changes  *)
(* by the user it shows none missing and no temporary directory, and as    *)
(* archives those of the snapshots and, beside them, the files of the same *)
(* name that finished exports hold; no export is left half done, however   *)
(* many executions and requests have failed.                               *)
(***************************************************************************)
QuietSummary ==
  mishaps = 0 /\ touches = 0 /\ pc = "idle" /\ rpc = [r \in Requests |-> "idle"]
  => /\ \A written \in SUBSET Nested("OPEN") :
          Summary(written) =
            [snapshots |-> Cardinality(Rows), missing |-> 0,
             archives |-> Cardinality(Rows) + Cardinality(Nested("DONE")),
             partials |-> 0]
     /\ \A j \in Jobs : exports[j] # "OPEN"
================================================================================
