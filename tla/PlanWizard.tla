------------------------------- MODULE PlanWizard -------------------------------
(***************************************************************************)
(* The dialog that creates or edits a backup plan: four steps, the search  *)
(* for target instances, one scope picker per target, and the save, which  *)
(* is two requests (the plan, then the notification setting) and the       *)
(* refresh of run().                                                       *)
(*                                                                         *)
(* Left out: the wording, the expanded state of the trees, the revision    *)
(* numbers (the server assigns them) and the schedule's fields, of which   *)
(* only whether the form may be saved is kept.                             *)
(***************************************************************************)
EXTENDS ScopeTree, Sequences, SequencesExt

CONSTANTS
  Apps,          \* application instances
  Listing,       \* sequence of the paths of an instance, in path order
  Queries,       \* texts of a scope search, "" among them
  Matches,       \* the paths that a text matches
  PageSize,      \* entries per answer of the scope endpoint
  StoredScopes,  \* scopes that plans may have when the dialog opens
  None,          \* no plan, scope, instance or catalog
  MaxChanges,    \* bound on what the user enters or picks, and on changes of
                 \* what is known about instances
  MaxSaves,      \* bound on saves
  MaxFlight      \* bound on scope requests in flight at once

(* The user's last word on a file of a target. *)
Words == {"in", "out", "unsure"}

(* normalizeScope stores no paths with a FULL scope. *)
ASSUME WizardAssumption ==
  /\ Listing \in Seq(Paths) /\ "" \in Queries
  /\ Matches \in [Queries -> SUBSET Paths] /\ Matches[""] = Paths
  /\ StoredScopes \subseteq Scope
  /\ \A s \in StoredScopes : s.mode = "FULL" => s = FullScope
  /\ None \notin Scope /\ None \notin [Files -> Words]
  /\ {PageSize, MaxChanges, MaxSaves, MaxFlight} \subseteq Nat

VARIABLES
  initial,       \* the scopes of the plan that is edited, or None
  fixed,         \* fixedDeployId, or None
  open,          \* the dialog is mounted
  step, mode, selected, targetScopes, catalogs, queries,
  ready,         \* the plan has a name and its schedule is well formed
  notify,        \* the notification toggle differs from the settings
  flight,        \* scope requests in flight
  listing,       \* the applications page behind the dialog
  page,          \* candidatePage: backupable when it was read
  resolved,      \* instances looked up by their deployId
  backupable,    \* server: instances that may be backed up now
  save,          \* the save in progress
  created,       \* server: plans that this dialog has created
  word,          \* auxiliary: what the user has said of each file
  failed,        \* auxiliary: saves that the user was told have failed
  changes

wizard == <<initial, fixed, open, step, mode, selected, ready, notify>>
scopes == <<targetScopes, catalogs, queries, flight, word>>
known == <<listing, page, resolved, backupable>>
server == <<save, created, failed>>
vars == <<wizard, scopes, known, server, changes>>

Cursor == [q: Queries, after: Nat]
Catalog == [items: SUBSET Paths, next: Cursor \union {None}]
Request == [app: Apps, q: Queries, cursor: Cursor \union {None}]
NoSave == [phase |-> "none"]

(* A plan's scope as the tree shows it when the dialog opens, and the last  *)
(* word on a file of a target.                                               *)
AllFiles(w) == [f \in Files |-> w]
Reading(s) == [f \in Files |-> IF s.mode = "CORE" THEN "unsure"
                               ELSE IF f \in ApplyScope(s) THEN "in" ELSE "out"]
WordOn(a, f) ==
  IF word[a] # None THEN word[a][f] ELSE IF mode = "CUSTOM" THEN "out" ELSE "in"

----------------------------------------------------------------------------
(* Opening: from an instance (fixed), from a selection of instances, empty, *)
(* or with a plan.                                                           *)
OpenNew ==
  /\ initial = None /\ mode = "FULL"
  /\ \/ fixed = None /\ selected \in SUBSET Apps
     \/ fixed \in Apps /\ selected = {fixed}
  /\ targetScopes = [a \in Apps |-> None]
  /\ word = [a \in Apps |-> None]
  /\ ready = FALSE

OpenPlan ==
  /\ initial \in {i \in [Apps -> StoredScopes \union {None}] :
                    \E a \in Apps : i[a] # None}
  /\ fixed = None
  /\ selected = {a \in Apps : initial[a] # None}
  /\ mode = IF \E a \in selected : initial[a].mode = "CUSTOM"
            THEN "CUSTOM" ELSE "FULL"
  /\ targetScopes = initial
  /\ word = [a \in Apps |-> IF initial[a] = None THEN None
                            ELSE Reading(initial[a])]
  /\ ready = TRUE

Init ==
  /\ OpenNew \/ OpenPlan
  /\ open = TRUE /\ step = 1 /\ notify = FALSE
  /\ catalogs = [a \in Apps |-> None]
  /\ queries = [a \in Apps |-> ""]
  /\ flight = {} /\ changes = 0
  /\ backupable = Apps
  /\ listing \in [Apps -> {"absent", "ok"}]
  /\ page = {} /\ resolved = {}
  /\ save = NoSave /\ created = 0
  /\ failed = 0

----------------------------------------------------------------------------
(* Targets. *)

(* Later sources win: what was looked up is not corrected by the list. *)
eligible ==
  {a \in Apps : /\ a \in page \union resolved \/ listing[a] = "ok"
                /\ fixed \in {None, a}}
selectedApps == selected \intersect eligible

scopeFor(a) ==
  IF targetScopes[a] # None THEN targetScopes[a]
  ELSE [EmptyCustom EXCEPT !.mode = mode]

(* The plan may be saved. *)
Complete ==
  /\ ready
  /\ selectedApps # {} /\ selectedApps = selected
  /\ \A a \in selectedApps : ~IsEmpty(scopeFor(a))

Changes == changes < MaxChanges /\ changes' = changes + 1

chooseMode ==
  /\ open /\ step = 1 /\ Changes
  /\ mode' = IF mode = "FULL" THEN "CUSTOM" ELSE "FULL"
  /\ UNCHANGED <<initial, fixed, open, step, selected, ready, notify,
                 scopes, known, server>>

(* The list of step 2; an instance the dialog was opened for is fixed. *)
Offered(a) == open /\ step = 2 /\ fixed = None /\ a \in eligible

toggleTarget(a) ==
  /\ Offered(a) /\ Changes
  /\ selected' = IF a \in selected THEN selected \ {a} ELSE selected \union {a}
  /\ UNCHANGED <<initial, fixed, open, step, mode, ready, notify, scopes, known,
                 server>>

fillForm ==
  /\ open /\ step = 4 /\ Changes
  /\ \/ ready' = ~ready /\ notify' = notify
     \/ notify' = ~notify /\ ready' = ready
  /\ UNCHANGED <<initial, fixed, open, step, mode, selected, scopes, known,
                 server>>

Back ==
  /\ open /\ step > 1
  /\ step' = step - 1
  /\ UNCHANGED <<initial, fixed, open, mode, selected, ready, notify, scopes,
                 known, server, changes>>

Advance ==
  /\ open /\ step < 4
  /\ step = 2 => selectedApps # {}
  /\ step' = step + 1
  /\ UNCHANGED <<initial, fixed, open, mode, selected, ready, notify, scopes,
                 known, server, changes>>

(* The component and its state are gone; answers find nothing to change. *)
Unmount ==
  /\ open' = FALSE /\ step' = 1 /\ mode' = "FULL" /\ selected' = {}
  /\ ready' = FALSE /\ notify' = FALSE
  /\ targetScopes' = [a \in Apps |-> None]
  /\ catalogs' = [a \in Apps |-> None] /\ queries' = [a \in Apps |-> ""]
  /\ flight' = {} /\ word' = [a \in Apps |-> None]
  /\ page' = {} /\ resolved' = {}
  /\ UNCHANGED <<initial, fixed, changes, listing, backupable>>

(* Cancel, the close button and the backdrop, also while a save is running. *)
Close ==
  /\ open /\ Unmount
  /\ UNCHANGED server

(* The answer to the search for candidates, or to its next page: it replaces *)
(* the page before.                                                           *)
CandidatesAnswer ==
  /\ open /\ Changes
  /\ page' \in SUBSET backupable
  /\ UNCHANGED <<wizard, scopes, server, listing, resolved, backupable>>

(* The look-up of a selected instance that no source knows; its first match  *)
(* need not be that instance.                                                 *)
ResolveAnswer(a) ==
  /\ open /\ Changes
  /\ a \in selected /\ listing[a] = "absent" /\ a \notin page \union resolved
  /\ \E b \in backupable : resolved' = resolved \union {b}
  /\ UNCHANGED <<wizard, scopes, server, listing, page, backupable>>

(* The list behind the dialog is refreshed. *)
ListingAnswer ==
  /\ open /\ Changes
  /\ \E shown \in SUBSET Apps :
       listing' = [a \in Apps |-> IF a \notin shown THEN "absent"
                                  ELSE IF a \in backupable THEN "ok" ELSE "bad"]
  /\ UNCHANGED <<wizard, scopes, server, page, resolved, backupable>>

(* A probe finds an instance no longer, or again, fit for backups. *)
Probe(a) ==
  /\ open /\ Changes
  /\ backupable' = IF a \in backupable THEN backupable \ {a}
                   ELSE backupable \union {a}
  /\ UNCHANGED <<wizard, scopes, server, listing, page, resolved>>

----------------------------------------------------------------------------
(* Scopes. *)

Shown(a) == open /\ step = 3 /\ a \in selectedApps

(* loadCatalog up to its await. *)
loadCatalog(a, c) ==
  /\ Cardinality(flight) < MaxFlight
  /\ flight' = flight \union {[app |-> a, q |-> queries[a], cursor |-> c]}

(* The effect of step 3, which runs after every render. *)
AutoLoad(a) ==
  /\ Shown(a) /\ scopeFor(a).mode = "CUSTOM" /\ catalogs[a] = None
  /\ loadCatalog(a, None)
  /\ UNCHANGED <<wizard, known, server, targetScopes, catalogs, queries, word, changes>>

(* The paths of a CORE scope, if it has any, become boxes that are ticked. *)
setScopeMode(a, m) ==
  /\ Shown(a) /\ Changes /\ scopeFor(a).mode # m
  /\ LET old == IF targetScopes[a] = None THEN EmptyCustom ELSE targetScopes[a]
         kept == [old EXCEPT !.mode = m]
     IN /\ targetScopes' = [targetScopes EXCEPT ![a] =
                              IF m = "CUSTOM" THEN kept ELSE FullScope]
        /\ word' = [word EXCEPT ![a] =
                      IF m = "FULL" THEN AllFiles("in")
                      ELSE IF old.mode = "CORE" THEN Reading(kept)
                      ELSE AllFiles("out")]
  /\ IF m = "CUSTOM" /\ catalogs[a] = None THEN loadCatalog(a, None)
     ELSE flight' = flight
  /\ UNCHANGED <<wizard, known, server, catalogs, queries>>

editQuery(a, q) ==
  /\ Shown(a) /\ Changes /\ scopeFor(a).mode = "CUSTOM" /\ queries[a] # q
  /\ queries' = [queries EXCEPT ![a] = q]
  /\ UNCHANGED <<wizard, known, server, targetScopes, catalogs, flight, word>>

Search(a) ==
  /\ Shown(a) /\ Changes /\ scopeFor(a).mode = "CUSTOM"
  /\ loadCatalog(a, None)
  /\ UNCHANGED <<wizard, known, server, targetScopes, catalogs, queries, word>>

NextPage(a) ==
  /\ Shown(a) /\ Changes /\ scopeFor(a).mode = "CUSTOM"
  /\ catalogs[a] # None /\ catalogs[a].next # None
  /\ loadCatalog(a, catalogs[a].next)
  /\ UNCHANGED <<wizard, known, server, targetScopes, catalogs, queries, word>>

(* The server's page of entries after the cursor, which it takes only with  *)
(* the text it was issued for.                                               *)
ScopeCatalog(r) ==
  LET found == SelectSeq(Listing, LAMBDA p : p \in Matches[r.q])
      first == IF r.cursor = None THEN 1 ELSE r.cursor.after + 1
      last == IF first + PageSize - 1 < Len(found)
              THEN first + PageSize - 1 ELSE Len(found)
  IN [items |-> ToSet(SubSeq(found, first, last)),
      next |-> IF last < Len(found) THEN [q |-> r.q, after |-> last] ELSE None]

CatalogAnswer(r) ==
  /\ r \in flight
  /\ r.cursor # None => r.cursor.q = r.q
  /\ flight' = flight \ {r}
  /\ LET result == ScopeCatalog(r)
         before == IF r.cursor # None /\ catalogs[r.app] # None
                   THEN catalogs[r.app].items ELSE {}
     IN catalogs' = [catalogs EXCEPT ![r.app] =
                       [result EXCEPT !.items = @ \union before]]
  /\ UNCHANGED <<wizard, known, server, targetScopes, queries, word, changes>>

CatalogFails(r) ==
  /\ r \in flight
  /\ flight' = flight \ {r}
  /\ UNCHANGED <<wizard, known, server, targetScopes, catalogs, queries, word, changes>>

(* What ticking or clearing the box of p says of the files at and below it.  *)
(* Clearing a directory says nothing of what hangs on entries not loaded.     *)
Said(s, items, p, f) ==
  IF f # p /\ ~Under(f, p) THEN "same"
  ELSE IF ~ticked(s, p) THEN "in"
  ELSE IF \A q \in Paths : (q = f \/ Under(f, q)) /\ Under(q, p) => q \in items
       THEN "out" ELSE "unsure"

Toggle(a, p) ==
  /\ Shown(a) /\ Changes /\ scopeFor(a).mode = "CUSTOM" /\ catalogs[a] # None
  /\ p \in Tickable(scopeFor(a), catalogs[a].items)
  /\ targetScopes' = [targetScopes EXCEPT ![a] =
                        toggleEntry(scopeFor(a), catalogs[a].items, p)]
  /\ word' = [word EXCEPT ![a] = [f \in Files |->
       LET said == Said(scopeFor(a), catalogs[a].items, p, f)
       IN IF said = "same" THEN WordOn(a, f) ELSE said]]
  /\ UNCHANGED <<wizard, known, server, catalogs, queries, flight>>

----------------------------------------------------------------------------
(* Saving. *)

(* What a save sends. *)
Targets == {a \in selected : fixed \in {None, a}}
Sent(a) == IF scopeFor(a).mode = "CUSTOM" THEN scopeFor(a) ELSE FullScope

(* Mutant of SaveEnabled: the button stays enabled while a save runs. *)
SaveAnyTime == open /\ step = 4 /\ Complete

SaveEnabled == open /\ step = 4 /\ Complete /\ save.phase = "none"

Save ==
  /\ SaveEnabled
  /\ created + failed < MaxSaves
  /\ save' = [phase |-> "plan", targets |-> Targets, notify |-> notify,
               accepted |-> \A a \in Targets : ScopeAccepted(Sent(a))]
  /\ UNCHANGED <<wizard, scopes, known, changes, created, failed>>

Ends == save' = NoSave

(* The plan is stored, if its scopes are valid and its targets may still be  *)
(* backed up.  The answer may be lost on its way.                             *)
PlanSaved(lost) ==
  /\ save.phase = "plan" /\ save.accepted
  /\ save.targets # {} /\ save.targets \subseteq backupable
  /\ created' = IF initial = None THEN created + 1 ELSE created
  /\ IF lost THEN Ends /\ failed' = failed + 1
     ELSE /\ save' = [save EXCEPT !.phase = IF save.notify THEN "settings"
                                            ELSE "refresh"]
          /\ failed' = failed
  /\ UNCHANGED <<wizard, scopes, known, changes>>

PlanRefused ==
  /\ save.phase = "plan" /\ Ends /\ failed' = failed + 1
  /\ UNCHANGED <<wizard, scopes, known, changes, created>>

SettingsSaved ==
  /\ save.phase = "settings"
  /\ save' = [save EXCEPT !.phase = "refresh"]
  /\ UNCHANGED <<wizard, scopes, known, changes, created, failed>>

(* The plan stays, but run() reports a failure and the dialog stays open. *)
SettingsFail ==
  /\ save.phase = "settings" /\ Ends /\ failed' = failed + 1
  /\ UNCHANGED <<wizard, scopes, known, changes, created>>

(* refresh() does not fail; run() returns true and the dialog closes. *)
Saved ==
  /\ save.phase = "refresh" /\ Ends
  /\ Unmount
  /\ UNCHANGED <<created, failed>>

Next ==
  \/ chooseMode \/ fillForm \/ Back \/ Advance \/ Close
  \/ CandidatesAnswer \/ ListingAnswer
  \/ \E a \in Apps : \/ toggleTarget(a) \/ ResolveAnswer(a) \/ Probe(a)
                     \/ AutoLoad(a) \/ Search(a) \/ NextPage(a)
                     \/ setScopeMode(a, "FULL") \/ setScopeMode(a, "CUSTOM")
                     \/ \E q \in Queries : editQuery(a, q)
                     \/ \E p \in Paths : Toggle(a, p)
  \/ \E r \in flight : CatalogAnswer(r) \/ CatalogFails(r)
  \/ Save \/ PlanSaved(FALSE) \/ PlanSaved(TRUE) \/ PlanRefused
  \/ SettingsSaved \/ SettingsFail \/ Saved

Spec == Init /\ [][Next]_vars

----------------------------------------------------------------------------
TypeOK ==
  /\ initial = None \/ initial \in [Apps -> Scope \union {None}]
  /\ fixed \in Apps \union {None}
  /\ step \in 1..4 /\ mode \in {"FULL", "CUSTOM"} /\ selected \subseteq Apps
  /\ targetScopes \in [Apps -> Scope \union {None}]
  /\ catalogs \in [Apps -> Catalog \union {None}]
  /\ queries \in [Apps -> Queries] /\ flight \subseteq Request
  /\ listing \in [Apps -> {"absent", "ok", "bad"}]
  /\ page \subseteq Apps /\ resolved \subseteq Apps /\ backupable \subseteq Apps
  /\ {open, ready, notify} \subseteq BOOLEAN
  /\ save = NoSave \/ save \in [phase: {"plan", "settings", "refresh"},
                                targets: SUBSET Apps, notify: BOOLEAN,
                                accepted: BOOLEAN]
  /\ word \in [Apps -> [Files -> Words] \union {None}]
  /\ {created, failed, changes} \subseteq Nat

(* Properties. *)

(* The files that a saved target would archive are the ones its tree shows   *)
(* ticked: what the user ticked, itself or through a directory, is archived   *)
(* and what was cleared is not, in whatever order boxes were toggled, pages   *)
(* loaded, modes switched and requests answered (toggleEntry keeps a          *)
(* directory and the entries below it side by side, and normalizeScope        *)
(* removes the latter again).  Entries below a cleared directory that were    *)
(* not loaded, and targets with the historic CORE scope, are excepted.        *)
SavedAsChosen ==
  \A a \in Targets, x \in Files :
    LET said == WordOn(a, x)
        archived == ApplyScope(normalizeScope(Sent(a)))
    IN /\ said = "in" => x \in archived
       /\ said = "out" => x \notin archived

(* One dialog creates a second plan only after it has reported a failure:    *)
(* the answer of createPlan was lost, or updateSettings failed after it.      *)
OnePlan == created <= 1 + failed

================================================================================
