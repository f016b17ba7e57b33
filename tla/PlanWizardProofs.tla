--------------------------- MODULE PlanWizardProofs ---------------------------
(***************************************************************************)
(* Proofs about PlanWizard and the ScopeTree it extends: the server may    *)
(* reduce a scope, for any tree of paths and any scope, one dialog makes   *)
(* one plan, and the files a save archives are those the user chose.       *)
(***************************************************************************)
EXTENDS PlanWizard, WellFoundedInduction, TLAPS

----------------------------------------------------------------------------
(* Scopes. *)

(* The directories of a scope above a path, by their length. *)
Above(p, dirs) == {d \in dirs : Under(p, d)}
Lengths(ds) == {Depth[d] : d \in ds}
Shorter == {ss \in Nat \X Nat : ss[1] < ss[2]}

(* Lengths of paths have no infinite descent. *)
LEMMA ShorterWellFounded == IsWellFoundedOn(Shorter, Nat)
BY NatLessThanWellFounded DEF OpToRel, Shorter

(* Among the directories above a path there is a shortest one. *)
LEMMA ShortestAbove ==
  ASSUME NEW p \in Paths, NEW dirs \in SUBSET Dirs, Above(p, dirs) # {}
  PROVE  \E d \in Above(p, dirs) : \A e \in Above(p, dirs) : ~(Depth[e] < Depth[d])
<1> DEFINE T == Lengths(Above(p, dirs))
<1>1. Above(p, dirs) \subseteq Dirs
  BY DEF Above
<1>2. \A d \in Above(p, dirs) : Depth[d] \in Nat
  BY <1>1, TreeAssumption DEF Paths
<1>3. T \subseteq Nat /\ T # {}
  BY <1>2 DEF Lengths
<1>4. PICK n \in T : \A m \in T : ~(<<m, n>> \in Shorter)
  BY <1>3, WFMin, ShorterWellFounded
<1>5. PICK d \in Above(p, dirs) : Depth[d] = n
  BY <1>4 DEF Lengths
<1>6. ASSUME NEW e \in Above(p, dirs) PROVE ~(Depth[e] < Depth[d])
  <2>1. Depth[e] \in T /\ Depth[e] \in Nat /\ n \in Nat
    BY <1>2, <1>3 DEF Lengths
  <2>2. ~(<<Depth[e], n>> \in Shorter)
    BY <1>4, <2>1
  <2>3. ~(Depth[e] < n)
    BY <2>1, <2>2 DEF Shorter
  <2> QED  BY <1>5, <2>3
<1> QED  BY <1>5, <1>6

(* A path below some directory of a scope is below one that is kept. *)
LEMMA CoverKept ==
  ASSUME NEW p \in Paths, NEW dirs \in SUBSET Dirs
  PROVE  (\E d \in dirs : Under(p, d))
           <=> \E d \in removeCoveredDirectories(dirs) : Under(p, d)
<1>1. removeCoveredDirectories(dirs) \subseteq dirs
  BY DEF removeCoveredDirectories
<1>2. ASSUME NEW c \in dirs, Under(p, c)
      PROVE  \E d \in removeCoveredDirectories(dirs) : Under(p, d)
  <2>1. Above(p, dirs) # {}
    BY <1>2 DEF Above
  <2>2. PICK d \in Above(p, dirs) :
               \A e \in Above(p, dirs) : ~(Depth[e] < Depth[d])
    BY <2>1, ShortestAbove
  <2>3. d \in dirs /\ Under(p, d)
    BY <2>2 DEF Above
  <2>4. ASSUME NEW e \in dirs, Under(d, e) PROVE FALSE
    <3>1. Under(p, e) /\ Depth[e] < Depth[d]
      BY <2>3, <2>4, TreeAssumption DEF Under, Paths
    <3> QED  BY <2>2, <3>1 DEF Above
  <2>5. d \in removeCoveredDirectories(dirs)
    BY <2>3, <2>4 DEF removeCoveredDirectories
  <2> QED  BY <2>3, <2>5
<1> QED  BY <1>1, <1>2

(* Normalising a scope never changes the files it archives: removing covered *)
(* directories and files (normalizeScope of plans/service.go) loses nothing   *)
(* that ApplyScope of probe.go would have selected, and adds nothing.          *)
THEOREM NormalizeKeepsFiles ==
  ASSUME NEW s \in Scope
  PROVE  ApplyScope(normalizeScope(s)) = ApplyScope(s)
<1> DEFINE dirs == removeCoveredDirectories(s.directories)
           n == normalizeScope(s)
<1>1. CASE s.mode = "FULL"
  BY <1>1 DEF normalizeScope, ApplyScope, FullScope
<1>2. CASE s.mode # "FULL"
  <2>1. /\ n.mode = s.mode /\ n.directories = dirs
        /\ n.files = removeFilesCoveredByDirectories(s.files, dirs)
    BY <1>2 DEF normalizeScope
  <2>2. CASE s.mode = "CORE"
    BY <1>2, <2>1, <2>2 DEF ApplyScope
  <2>3. CASE s.mode # "CORE"
    <3>1. ASSUME NEW f \in Files
          PROVE  f \in ApplyScope(n) <=> f \in ApplyScope(s)
      <4>1. (\E d \in s.directories : Under(f, d)) <=> \E d \in dirs : Under(f, d)
        BY CoverKept DEF Scope, Paths
      <4>2. f \in n.files <=> f \in s.files /\ ~\E d \in dirs : Under(f, d)
        BY <2>1 DEF removeFilesCoveredByDirectories
      <4>3. f \in ApplyScope(n) <=> (\E d \in dirs : Under(f, d)) \/ f \in n.files
        BY <1>2, <2>1, <2>3 DEF ApplyScope
      <4>4. f \in ApplyScope(s)
              <=> (\E d \in s.directories : Under(f, d)) \/ f \in s.files
        BY <1>2, <2>3 DEF ApplyScope
      <4> QED  BY <4>1, <4>2, <4>3, <4>4
    <3>2. ApplyScope(n) \subseteq Files /\ ApplyScope(s) \subseteq Files
      BY <1>2, <2>1, <2>3 DEF ApplyScope
    <3> QED  BY <3>1, <3>2
  <2> QED  BY <2>2, <2>3
<1> QED  BY <1>1, <1>2

(* Nor does normalising twice differ from normalising once: what is stored   *)
(* in a plan is sent back by the editor and normalised again.                  *)
THEOREM NormalizeIdempotent ==
  ASSUME NEW s \in Scope
  PROVE  normalizeScope(normalizeScope(s)) = normalizeScope(s)
<1> DEFINE dirs == removeCoveredDirectories(s.directories)
           files == removeFilesCoveredByDirectories(s.files, dirs)
<1>1. removeCoveredDirectories(dirs) = dirs
  BY DEF removeCoveredDirectories
<1>2. removeFilesCoveredByDirectories(files, dirs) = files
  BY DEF removeFilesCoveredByDirectories
<1>3. CASE s.mode = "FULL"
  BY <1>3 DEF normalizeScope, FullScope
<1>4. CASE s.mode # "FULL"
  BY <1>1, <1>2, <1>4 DEF normalizeScope
<1> QED  BY <1>3, <1>4

----------------------------------------------------------------------------
(* The plans a dialog makes. *)

(* A save in progress has not been counted yet: until its plan is stored,    *)
(* and again once the dialog waits for the user, every plan created has a     *)
(* failure of its own.                                                         *)
SaveInv ==
  /\ created \in Nat /\ failed \in Nat
  /\ "phase" \in DOMAIN save
  /\ save.phase \in {"none", "plan", "settings", "refresh"}
  /\ save.phase = "plan" \/ (save.phase = "none" /\ open) => created <= failed
  /\ created <= 1 + failed

----------------------------------------------------------------------------
(* Steps that leave the save and the server's plans alone, the closing of    *)
(* the dialog among them.                                                      *)
LEMMA OtherKeepsSave ==
  ASSUME SaveInv, UNCHANGED server, open' => open
  PROVE  SaveInv'
BY DEF SaveInv, server

(* What the user enters, and what the client learns. *)
LEMMA InputKeepsSave ==
  ASSUME SaveInv,
         \/ chooseMode \/ fillForm \/ Back \/ Advance \/ Close
         \/ CandidatesAnswer \/ ListingAnswer
         \/ \E a \in Apps : toggleTarget(a) \/ ResolveAnswer(a) \/ Probe(a)
  PROVE  SaveInv'
<1>1. CASE chooseMode
  BY <1>1, OtherKeepsSave DEF chooseMode
<1>2. CASE fillForm
  BY <1>2, OtherKeepsSave DEF fillForm
<1>3. CASE Back
  BY <1>3, OtherKeepsSave DEF Back
<1>4. CASE Advance
  BY <1>4, OtherKeepsSave DEF Advance
<1>5. CASE Close
  BY <1>5, OtherKeepsSave DEF Close
<1>6. CASE CandidatesAnswer
  BY <1>6, OtherKeepsSave DEF CandidatesAnswer, wizard
<1>7. CASE ListingAnswer
  BY <1>7, OtherKeepsSave DEF ListingAnswer, wizard
<1>8. ASSUME NEW a \in Apps, toggleTarget(a) PROVE SaveInv'
  BY <1>8, OtherKeepsSave DEF toggleTarget
<1>9. ASSUME NEW a \in Apps, ResolveAnswer(a) PROVE SaveInv'
  BY <1>9, OtherKeepsSave DEF ResolveAnswer, wizard
<1>10. ASSUME NEW a \in Apps, Probe(a) PROVE SaveInv'
  BY <1>10, OtherKeepsSave DEF Probe, wizard
<1> QED
  BY <1>1, <1>2, <1>3, <1>4, <1>5, <1>6, <1>7, <1>8, <1>9, <1>10

(* The scope picker. *)
LEMMA PickerKeepsSave ==
  ASSUME SaveInv,
         \/ \E a \in Apps : \/ AutoLoad(a) \/ Search(a) \/ NextPage(a)
                            \/ setScopeMode(a, "FULL") \/ setScopeMode(a, "CUSTOM")
                            \/ \E q \in Queries : editQuery(a, q)
                            \/ \E p \in Paths : Toggle(a, p)
         \/ \E r \in flight : CatalogAnswer(r) \/ CatalogFails(r)
  PROVE  SaveInv'
<1>1. UNCHANGED <<wizard, server>>
  BY DEF AutoLoad, Search, NextPage, setScopeMode, editQuery, Toggle,
         CatalogAnswer, CatalogFails
<1> QED  BY <1>1, OtherKeepsSave DEF wizard

(* The save: it starts only when none is in progress, stores at most one     *)
(* plan, and ends with a failure or with the dialog.                           *)
LEMMA SaveKeeps ==
  ASSUME SaveInv,
         \/ Save \/ PlanSaved(FALSE) \/ PlanSaved(TRUE) \/ PlanRefused
         \/ SettingsSaved \/ SettingsFail \/ Saved
  PROVE  SaveInv'
<1>1. CASE Save
  <2>1. /\ open /\ save.phase = "none"
        /\ save' = [phase |-> "plan", targets |-> Targets, notify |-> notify,
                    accepted |-> \A a \in Targets : ScopeAccepted(Sent(a))]
        /\ UNCHANGED <<created, failed>>
    BY <1>1 DEF Save, SaveEnabled
  <2>2. "phase" \in DOMAIN save' /\ save'.phase = "plan"
    BY <2>1
  <2> QED  BY <2>1, <2>2 DEF SaveInv
<1>2. CASE PlanSaved(FALSE)
  <2>1. /\ save.phase = "plan" /\ UNCHANGED failed
        /\ created' = IF initial = None THEN created + 1 ELSE created
        /\ save' = [save EXCEPT !.phase = IF save.notify THEN "settings"
                                          ELSE "refresh"]
    BY <1>2 DEF PlanSaved
  <2>2. "phase" \in DOMAIN save' /\ save'.phase \in {"settings", "refresh"}
    BY <2>1 DEF SaveInv
  <2> QED  BY <2>1, <2>2 DEF SaveInv
<1>3. CASE PlanSaved(TRUE)
  BY <1>3 DEF PlanSaved, Ends, NoSave, SaveInv
<1>4. CASE PlanRefused
  BY <1>4 DEF PlanRefused, Ends, NoSave, SaveInv
<1>5. CASE SettingsSaved
  <2>1. /\ save.phase = "settings" /\ UNCHANGED <<created, failed>>
        /\ save' = [save EXCEPT !.phase = "refresh"]
    BY <1>5 DEF SettingsSaved
  <2>2. "phase" \in DOMAIN save' /\ save'.phase = "refresh"
    BY <2>1 DEF SaveInv
  <2> QED  BY <2>1, <2>2 DEF SaveInv
<1>6. CASE SettingsFail
  BY <1>6 DEF SettingsFail, Ends, NoSave, SaveInv
<1>7. CASE Saved
  BY <1>7 DEF Saved, Unmount, Ends, NoSave, SaveInv
<1> QED  BY <1>1, <1>2, <1>3, <1>4, <1>5, <1>6, <1>7

(* However often the user saves, closes and changes things, and whatever the *)
(* requests of save() and run() come back with, the dialog creates a second   *)
(* plan only after it has reported a failure.                                  *)
THEOREM OnePlanHolds == Spec => []OnePlan
<1>1. Init => SaveInv
  <2> SUFFICES ASSUME Init PROVE SaveInv
    OBVIOUS
  <2>1. save = NoSave /\ created = 0 /\ failed = 0
    BY DEF Init
  <2> QED  BY <2>1 DEF SaveInv, NoSave
<1>2. SaveInv /\ [Next]_vars => SaveInv'
  <2> SUFFICES ASSUME SaveInv, [Next]_vars PROVE SaveInv'
    OBVIOUS
  <2>1. CASE Next
    BY <2>1, InputKeepsSave, PickerKeepsSave, SaveKeeps DEF Next
  <2>2. CASE UNCHANGED vars
    BY <2>2, OtherKeepsSave DEF vars, wizard
  <2> QED  BY <2>1, <2>2
<1>3. SaveInv => OnePlan
  BY DEF SaveInv, OnePlan
<1> QED  BY <1>1, <1>2, <1>3, PTL DEF Spec

----------------------------------------------------------------------------
(* The files a save archives. *)

(* What a save makes of a target's scope, and whether the user's words are  *)
(* true of it.                                                               *)
Effective(s) == IF s.mode = "CUSTOM" THEN s ELSE FullScope
Fits(s, w) ==
  \A f \in Files : /\ w[f] = "in" => f \in ApplyScope(Effective(s))
                   /\ w[f] = "out" => f \notin ApplyScope(Effective(s))

(* The words after the box of p was ticked or cleared. *)
After(s, items, p, w) ==
  [f \in Files |-> LET said == Said(s, items, p, f)
                   IN IF said = "same" THEN w[f] ELSE said]

(* What a CUSTOM scope archives. *)
LEMMA CustomFiles ==
  ASSUME NEW s \in Scope, s.mode = "CUSTOM", NEW f \in Files
  PROVE  f \in ApplyScope(Effective(s))
           <=> f \in s.files \/ \E root \in s.directories : Under(f, root)
  BY DEF ApplyScope, Effective

(* Ticking or clearing a file. *)
LEMMA FileToggleFits ==
  ASSUME NEW s \in Scope, s.mode = "CUSTOM", NEW items, NEW p \in Files,
         ~inherited(s, p), NEW w \in [Files -> Words], Fits(s, w)
  PROVE  /\ toggleEntry(s, items, p) \in Scope
         /\ toggleEntry(s, items, p).mode = "CUSTOM"
         /\ Fits(toggleEntry(s, items, p), After(s, items, p, w))
<1>1. PICK t : t = toggleEntry(s, items, p)
  OBVIOUS
<1>2. t = [s EXCEPT !.mode = "CUSTOM",
                    !.files = IF p \in @ THEN @ \ {p} ELSE @ \union {p}]
  BY <1>1 DEF toggleEntry
<1>3. /\ t.mode = "CUSTOM" /\ t.directories = s.directories
      /\ t.files = IF p \in s.files THEN s.files \ {p} ELSE s.files \union {p}
  BY <1>2 DEF Scope
<1>4. t \in Scope
  BY <1>2 DEF Scope
<1>5. p \notin Dirs
  BY TreeAssumption
<1>6. \A q \in Paths : ~Under(q, p)
  BY <1>5, TreeAssumption DEF Under
<1>7. ticked(s, p) <=> p \in s.files
  BY <1>5 DEF ticked
<1>8. ASSUME NEW f \in Files
      PROVE  /\ After(s, items, p, w)[f] = "in" => f \in ApplyScope(Effective(t))
             /\ After(s, items, p, w)[f] = "out" => f \notin ApplyScope(Effective(t))
  <2>1. /\ f \in ApplyScope(Effective(t))
             <=> f \in t.files \/ \E root \in t.directories : Under(f, root)
        /\ f \in ApplyScope(Effective(s))
             <=> f \in s.files \/ \E root \in s.directories : Under(f, root)
    BY <1>3, <1>4, CustomFiles
  <2>2. CASE f = p
    <3>1. Said(s, items, p, p) = IF p \in s.files THEN "out" ELSE "in"
      BY <1>6, <1>7 DEF Said
    <3>2. After(s, items, p, w)[f] = IF p \in s.files THEN "out" ELSE "in"
      BY <2>2, <3>1 DEF After
    <3>3. ~\E root \in s.directories : Under(p, root)
      BY DEF inherited
    <3> QED
      BY <1>3, <2>1, <2>2, <3>2, <3>3
  <2>3. CASE f # p
    <3>1. Said(s, items, p, f) = "same"
      BY <1>6, <2>3 DEF Said, Paths
    <3>2. After(s, items, p, w)[f] = w[f]
      BY <3>1 DEF After
    <3>3. f \in ApplyScope(Effective(t)) <=> f \in ApplyScope(Effective(s))
      BY <1>3, <2>1, <2>3
    <3> QED
      BY <3>2, <3>3 DEF Fits
  <2> QED
    BY <2>2, <2>3
<1> QED
  BY <1>1, <1>3, <1>4, <1>8 DEF Fits

(* Ticking or clearing a directory, which takes the entries loaded below it *)
(* along.                                                                    *)
LEMMA DirToggleFits ==
  ASSUME NEW s \in Scope, s.mode = "CUSTOM", NEW items, NEW p \in Dirs,
         p \in items, ~inherited(s, p), NEW w \in [Files -> Words], Fits(s, w)
  PROVE  /\ toggleEntry(s, items, p) \in Scope
         /\ toggleEntry(s, items, p).mode = "CUSTOM"
         /\ Fits(toggleEntry(s, items, p), After(s, items, p, w))
<1> DEFINE below == {q \in items : q = p \/ Under(q, p)}
           dirs == (below \intersect Dirs) \union {p}
           files == below \intersect Files
<1>0. p \notin Files /\ s.directories \subseteq Dirs /\ s.files \subseteq Files
  BY TreeAssumption DEF Scope
<1>1. PICK t : t = toggleEntry(s, items, p)
  OBVIOUS
<1>2. ticked(s, p) <=> p \in s.directories
  BY DEF ticked
<1>3. \A d \in dirs : d \in Dirs /\ (d = p \/ Under(d, p))
  OBVIOUS
<1>4. \A f \in files : f \in Files /\ Under(f, p)
  BY <1>0
<1>5. CASE p \in s.directories
  <2>1. t = [s EXCEPT !.mode = "CUSTOM", !.directories = @ \ dirs,
                      !.files = @ \ files]
    BY <1>0, <1>1, <1>5 DEF toggleEntry
  <2>2. /\ t.mode = "CUSTOM" /\ t.directories = s.directories \ dirs
        /\ t.files = s.files \ files /\ t \in Scope
    BY <2>1 DEF Scope
  <2>3. ASSUME NEW f \in Files
        PROVE  /\ After(s, items, p, w)[f] = "in"
                    => f \in ApplyScope(Effective(t))
               /\ After(s, items, p, w)[f] = "out"
                    => f \notin ApplyScope(Effective(t))
    <3>1. /\ f \in ApplyScope(Effective(t))
               <=> f \in t.files \/ \E root \in t.directories : Under(f, root)
          /\ f \in ApplyScope(Effective(s))
               <=> f \in s.files \/ \E root \in s.directories : Under(f, root)
      BY <2>2, CustomFiles
    <3>2. f # p /\ f \in Paths
      BY <1>0 DEF Paths
    <3>3. CASE ~Under(f, p)
      <4>1. Said(s, items, p, f) = "same"
        BY <3>2, <3>3 DEF Said
      <4>2. After(s, items, p, w)[f] = w[f]
        BY <4>1 DEF After
      <4>3. \A d \in dirs : ~Under(f, d)
        BY <1>3, <3>2, <3>3, TreeAssumption DEF Under
      <4>4. f \notin files
        BY <1>4, <3>3
      <4>5. f \in ApplyScope(Effective(t)) <=> f \in ApplyScope(Effective(s))
        BY <2>2, <3>1, <4>3, <4>4
      <4> QED
        BY <4>2, <4>5 DEF Fits
    <3>4. CASE Under(f, p)
      <4>1. PICK said : said = Said(s, items, p, f)
        OBVIOUS
      <4>2. /\ said \in {"out", "unsure"}
            /\ said = "out" => \A q \in Paths :
                 (q = f \/ Under(f, q)) /\ Under(q, p) => q \in items
        BY <1>2, <1>5, <3>4, <4>1 DEF Said
      <4>3. After(s, items, p, w)[f] = said
        BY <4>1, <4>2 DEF After
      <4>4. ASSUME said = "out", NEW root \in t.directories, Under(f, root)
            PROVE  FALSE
        <5>1. root \in s.directories /\ root \in Dirs /\ root \notin dirs
          BY <1>0, <2>2, <4>4
        <5>2. root = p \/ Under(root, p) \/ Under(p, root)
          BY <3>2, <3>4, <4>4, <5>1, TreeAssumption DEF Under
        <5>3. ~Under(p, root)
          BY <5>1 DEF inherited
        <5>4. Under(root, p)
          BY <5>1, <5>2, <5>3
        <5>5. root \in items
          BY <4>2, <4>4, <5>1, <5>4 DEF Paths
        <5> QED
          BY <5>1, <5>4, <5>5
      <4>5. said = "out" => f \in files
        BY <3>2, <3>4, <4>2
      <4> QED
        BY <2>2, <3>1, <4>2, <4>3, <4>4, <4>5
    <3> QED
      BY <3>3, <3>4
  <2> QED
    BY <1>1, <2>2, <2>3 DEF Fits
<1>6. CASE p \notin s.directories
  <2>1. t = [s EXCEPT !.mode = "CUSTOM", !.directories = @ \union dirs,
                      !.files = @ \union files]
    BY <1>0, <1>1, <1>6 DEF toggleEntry
  <2>2. /\ t.mode = "CUSTOM" /\ t.directories = s.directories \union dirs
        /\ t.files = s.files \union files /\ t \in Scope
    BY <2>1, <1>3, <1>4 DEF Scope
  <2>3. ASSUME NEW f \in Files
        PROVE  /\ After(s, items, p, w)[f] = "in"
                    => f \in ApplyScope(Effective(t))
               /\ After(s, items, p, w)[f] = "out"
                    => f \notin ApplyScope(Effective(t))
    <3>1. /\ f \in ApplyScope(Effective(t))
               <=> f \in t.files \/ \E root \in t.directories : Under(f, root)
          /\ f \in ApplyScope(Effective(s))
               <=> f \in s.files \/ \E root \in s.directories : Under(f, root)
      BY <2>2, CustomFiles
    <3>2. f # p /\ f \in Paths
      BY <1>0 DEF Paths
    <3>3. CASE ~Under(f, p)
      <4>1. Said(s, items, p, f) = "same"
        BY <3>2, <3>3 DEF Said
      <4>2. After(s, items, p, w)[f] = w[f]
        BY <4>1 DEF After
      <4>3. \A d \in dirs : ~Under(f, d)
        BY <1>3, <3>2, <3>3, TreeAssumption DEF Under
      <4>4. f \notin files
        BY <1>4, <3>3
      <4>5. f \in ApplyScope(Effective(t)) <=> f \in ApplyScope(Effective(s))
        BY <2>2, <3>1, <4>3, <4>4
      <4> QED
        BY <4>2, <4>5 DEF Fits
    <3>4. CASE Under(f, p)
      <4>1. Said(s, items, p, f) = "in"
        BY <1>2, <1>6, <3>4 DEF Said
      <4>2. After(s, items, p, w)[f] = "in"
        BY <4>1 DEF After
      <4>3. f \in ApplyScope(Effective(t))
        BY <2>2, <3>1, <3>4
      <4> QED
        BY <4>2, <4>3
    <3> QED
      BY <3>3, <3>4
  <2> QED
    BY <1>1, <2>2, <2>3 DEF Fits
<1> QED
  BY <1>5, <1>6

(* The words keep their type. *)
LEMMA AfterTyped ==
  ASSUME NEW s, NEW items, NEW p, NEW w \in [Files -> Words]
  PROVE  After(s, items, p, w) \in [Files -> Words]
<1>1. ASSUME NEW f \in Files
      PROVE  Said(s, items, p, f) \in Words \union {"same"}
  BY DEF Said, Words
<1> QED
  BY <1>1 DEF After

----------------------------------------------------------------------------
(* The words of the user, target by target: they exist together with a      *)
(* scope of the target's own, they are true of it, and a FULL scope has no   *)
(* paths that a change to CUSTOM would bring back.                            *)
ChoiceTypes ==
  /\ selected \subseteq Apps /\ mode \in {"FULL", "CUSTOM"}
  /\ targetScopes \in [Apps -> Scope \union {None}]
  /\ word \in [Apps -> [Files -> Words] \union {None}]

ChoiceFits(a) ==
  /\ targetScopes[a] = None <=> word[a] = None
  /\ targetScopes[a] # None =>
       /\ Fits(targetScopes[a], word[a])
       /\ targetScopes[a].mode = "FULL" => targetScopes[a] = FullScope

ChoiceInv == ChoiceTypes /\ \A a \in Apps : ChoiceFits(a)

(* The scope and the words that the picker works with, the defaults of a    *)
(* target without a scope of its own included.                               *)
LEMMA CurrentFits ==
  ASSUME ChoiceInv, NEW a \in Apps
  PROVE  /\ scopeFor(a) \in Scope
         /\ [f \in Files |-> WordOn(a, f)] \in [Files -> Words]
         /\ Fits(scopeFor(a), [f \in Files |-> WordOn(a, f)])
         /\ scopeFor(a).mode = "FULL" => scopeFor(a) = FullScope
<1>0. ChoiceTypes /\ ChoiceFits(a)
  BY DEF ChoiceInv
<1>1. CASE targetScopes[a] # None
  <2>1. /\ scopeFor(a) = targetScopes[a] /\ targetScopes[a] \in Scope
        /\ word[a] # None /\ word[a] \in [Files -> Words]
    BY <1>0, <1>1 DEF scopeFor, ChoiceTypes, ChoiceFits
  <2>2. [f \in Files |-> WordOn(a, f)] = word[a]
    BY <2>1 DEF WordOn
  <2> QED
    BY <1>0, <1>1, <2>1, <2>2 DEF ChoiceFits
<1>2. CASE targetScopes[a] = None
  <2>1. /\ scopeFor(a) = [mode |-> mode, directories |-> {}, files |-> {}]
        /\ mode \in {"FULL", "CUSTOM"} /\ word[a] = None
    BY <1>0, <1>2 DEF scopeFor, EmptyCustom, ChoiceTypes, ChoiceFits
  <2>2. \A f \in Files : WordOn(a, f) = IF mode = "CUSTOM" THEN "out" ELSE "in"
    BY <2>1 DEF WordOn
  <2>3. scopeFor(a) \in Scope /\ scopeFor(a).mode = mode
    BY <2>1 DEF Scope
  <2>4. ApplyScope(Effective(scopeFor(a))) = IF mode = "CUSTOM" THEN {} ELSE Files
    BY <2>1 DEF ApplyScope, Effective, FullScope
  <2>5. Fits(scopeFor(a), [f \in Files |-> WordOn(a, f)])
    BY <2>2, <2>4 DEF Fits
  <2>6. mode = "FULL" => scopeFor(a) = FullScope
    BY <2>1 DEF FullScope
  <2> QED
    BY <2>2, <2>3, <2>5, <2>6 DEF Words
<1> QED
  BY <1>1, <1>2

(* Reading a scope into words is true of it. *)
LEMMA ReadingFits ==
  ASSUME NEW s \in Scope
  PROVE  Reading(s) \in [Files -> Words] /\ Fits(s, Reading(s))
<1>1. Reading(s) \in [Files -> Words]
  BY DEF Reading, Words
<1>2. s.mode # "CORE" => ApplyScope(Effective(s)) = ApplyScope(s)
  BY DEF Scope, Effective, ApplyScope, FullScope
<1>3. ASSUME NEW f \in Files
      PROVE  Reading(s)[f] = IF s.mode = "CORE" THEN "unsure"
                             ELSE IF f \in ApplyScope(s) THEN "in" ELSE "out"
  BY DEF Reading
<1> QED
  BY <1>1, <1>2, <1>3 DEF Fits

(* A new scope for one target, with words that are true of it. *)
LEMMA NewChoice ==
  ASSUME ChoiceInv, NEW a \in Apps, NEW s \in Scope, NEW w \in [Files -> Words],
         Fits(s, w), s.mode = "FULL" => s = FullScope,
         targetScopes' = [targetScopes EXCEPT ![a] = s],
         word' = [word EXCEPT ![a] = w], UNCHANGED <<selected, mode>>
  PROVE  ChoiceInv'
<1>0. ChoiceTypes /\ \A b \in Apps : ChoiceFits(b)
  BY DEF ChoiceInv
<1>1. ChoiceTypes'
  BY <1>0 DEF ChoiceTypes
<1>2. s # None /\ w # None
  BY WizardAssumption
<1>3. targetScopes'[a] = s /\ word'[a] = w
  BY <1>0 DEF ChoiceTypes
<1>4. \A b \in Apps \ {a} : targetScopes'[b] = targetScopes[b] /\ word'[b] = word[b]
  BY <1>0 DEF ChoiceTypes
<1>5. ASSUME NEW b \in Apps PROVE ChoiceFits(b)'
  <2>1. CASE b = a
    BY <1>2, <1>3, <2>1 DEF ChoiceFits
  <2>2. CASE b # a
    BY <1>0, <1>4, <2>2 DEF ChoiceFits
  <2> QED
    BY <2>1, <2>2
<1> QED
  BY <1>1, <1>5 DEF ChoiceInv

(* toggleEntry keeps the user's words true. *)
LEMMA ToggleKeeps ==
  ASSUME ChoiceInv, NEW a \in Apps, NEW p \in Paths, Toggle(a, p)
  PROVE  ChoiceInv'
<1>1. PICK s, items, w : /\ s = scopeFor(a) /\ items = catalogs[a].items
                         /\ w = [f \in Files |-> WordOn(a, f)]
  OBVIOUS
<1>2. s \in Scope /\ w \in [Files -> Words] /\ Fits(s, w)
  BY <1>1, CurrentFits
<1>3. /\ s.mode = "CUSTOM" /\ p \in items /\ ~inherited(s, p)
  BY <1>1 DEF Toggle, Tickable
<1>4. /\ targetScopes' = [targetScopes EXCEPT ![a] = toggleEntry(s, items, p)]
      /\ UNCHANGED <<selected, mode>>
  BY <1>1 DEF Toggle, wizard
<1>5. word' = [word EXCEPT ![a] = After(s, items, p, w)]
  <2>1. \A f \in Files : w[f] = WordOn(a, f)
    BY <1>1
  <2>2. After(s, items, p, w) =
          [f \in Files |-> LET said == Said(s, items, p, f)
                           IN IF said = "same" THEN WordOn(a, f) ELSE said]
    BY <2>1 DEF After
  <2> QED
    BY <1>1, <2>2 DEF Toggle
<1>6. /\ toggleEntry(s, items, p) \in Scope
      /\ toggleEntry(s, items, p).mode = "CUSTOM"
      /\ Fits(toggleEntry(s, items, p), After(s, items, p, w))
  BY <1>2, <1>3, FileToggleFits, DirToggleFits DEF Paths
<1>7. After(s, items, p, w) \in [Files -> Words]
  BY <1>2, AfterTyped
<1> QED
  BY <1>4, <1>5, <1>6, <1>7, NewChoice

(* setScopeMode keeps them true: a FULL scope has no paths to bring back,   *)
(* and those of a CORE scope are shown ticked.                               *)
LEMMA ModeKeeps ==
  ASSUME ChoiceInv, NEW a \in Apps, NEW m \in {"FULL", "CUSTOM"},
         setScopeMode(a, m)
  PROVE  ChoiceInv'
<1> DEFINE old == IF targetScopes[a] = None THEN EmptyCustom ELSE targetScopes[a]
           kept == [old EXCEPT !.mode = m]
<1>0. ChoiceTypes /\ ChoiceFits(a)
  BY DEF ChoiceInv
<1>1. /\ targetScopes' = [targetScopes EXCEPT ![a] =
                            IF m = "CUSTOM" THEN kept ELSE FullScope]
      /\ word' = [word EXCEPT ![a] = IF m = "FULL" THEN AllFiles("in")
                                     ELSE IF old.mode = "CORE" THEN Reading(kept)
                                     ELSE AllFiles("out")]
      /\ UNCHANGED <<selected, mode>> /\ scopeFor(a).mode # m
  BY DEF setScopeMode, wizard
<1>2. old \in Scope
  BY <1>0 DEF ChoiceTypes, EmptyCustom, Scope
<1>3. kept \in Scope /\ kept.mode = m
  BY <1>2 DEF Scope
<1>4. FullScope \in Scope /\ FullScope.mode = "FULL"
  BY DEF FullScope, Scope
<1>5. /\ AllFiles("in") \in [Files -> Words] /\ AllFiles("out") \in [Files -> Words]
      /\ Fits(FullScope, AllFiles("in"))
  BY DEF AllFiles, Words, Fits, Effective, ApplyScope, FullScope
<1>6. CASE m = "FULL"
  BY <1>1, <1>4, <1>5, <1>6, NewChoice
<1>7. CASE m = "CUSTOM"
  <2>1. CASE old.mode = "CORE"
    <3>1. Reading(kept) \in [Files -> Words] /\ Fits(kept, Reading(kept))
      BY <1>3, ReadingFits
    <3>2. /\ targetScopes' = [targetScopes EXCEPT ![a] = kept]
          /\ word' = [word EXCEPT ![a] = Reading(kept)]
      BY <1>1, <1>7, <2>1
    <3> HIDE DEF kept
    <3> QED
      BY <1>1, <1>3, <1>7, <3>1, <3>2, NewChoice
  <2>2. CASE old.mode # "CORE"
    <3>1. old.directories = {} /\ old.files = {}
      <4>1. CASE targetScopes[a] = None
        BY <4>1 DEF EmptyCustom
      <4>2. CASE targetScopes[a] # None
        <5>1. targetScopes[a].mode = "FULL"
          BY <1>0, <1>1, <1>7, <2>2, <4>2 DEF scopeFor, ChoiceTypes, Scope
        <5> QED
          BY <1>0, <4>2, <5>1 DEF ChoiceFits, FullScope
      <4> QED
        BY <4>1, <4>2
    <3>2. kept.directories = {} /\ kept.files = {}
      BY <1>2, <3>1 DEF Scope
    <3>3. ApplyScope(Effective(kept)) = {}
      BY <1>3, <1>7, <3>2 DEF ApplyScope, Effective
    <3>4. Fits(kept, AllFiles("out"))
      BY <3>3 DEF Fits, AllFiles
    <3>5. /\ targetScopes' = [targetScopes EXCEPT ![a] = kept]
          /\ word' = [word EXCEPT ![a] = AllFiles("out")]
      BY <1>1, <1>7, <2>2
    <3> HIDE DEF kept
    <3> QED
      BY <1>1, <1>3, <1>5, <1>7, <3>4, <3>5, NewChoice
  <2> QED
    BY <2>1, <2>2
<1> QED
  BY <1>6, <1>7

(* Steps that leave scopes and words alone. *)
LEMMA OtherKeepsChoice ==
  ASSUME ChoiceInv, UNCHANGED <<targetScopes, word>>,
         selected' \subseteq Apps, mode' \in {"FULL", "CUSTOM"}
  PROVE  ChoiceInv'
<1>1. ChoiceTypes'
  BY DEF ChoiceInv, ChoiceTypes
<1>2. \A a \in Apps : ChoiceFits(a)'
  BY DEF ChoiceInv, ChoiceFits
<1> QED
  BY <1>1, <1>2 DEF ChoiceInv

(* Closing the dialog forgets both. *)
LEMMA UnmountKeepsChoice ==
  ASSUME ChoiceInv, Unmount
  PROVE  ChoiceInv'
  BY DEF Unmount, ChoiceInv, ChoiceTypes, ChoiceFits

(* Every step keeps the user's words true. *)
LEMMA ChoiceStep ==
  ASSUME ChoiceInv, [Next]_vars
  PROVE  ChoiceInv'
<1>0. selected \subseteq Apps /\ mode \in {"FULL", "CUSTOM"}
  BY DEF ChoiceInv, ChoiceTypes
<1>1. ASSUME UNCHANGED <<targetScopes, word, selected, mode>> PROVE ChoiceInv'
  BY <1>0, <1>1, OtherKeepsChoice
<1>2. CASE chooseMode
  BY <1>0, <1>2, OtherKeepsChoice DEF chooseMode, scopes
<1>3. ASSUME NEW a \in Apps, toggleTarget(a) PROVE ChoiceInv'
  BY <1>0, <1>3, OtherKeepsChoice DEF toggleTarget, scopes
<1>4. CASE fillForm \/ Back \/ Advance
  BY <1>1, <1>4 DEF fillForm, Back, Advance, scopes
<1>5. CASE Close \/ Saved
  BY <1>5, UnmountKeepsChoice DEF Close, Saved
<1>6. CASE CandidatesAnswer \/ ListingAnswer
  BY <1>1, <1>6 DEF CandidatesAnswer, ListingAnswer, wizard, scopes
<1>7. ASSUME NEW a \in Apps, ResolveAnswer(a) \/ Probe(a) PROVE ChoiceInv'
  BY <1>1, <1>7 DEF ResolveAnswer, Probe, wizard, scopes
<1>8. ASSUME NEW a \in Apps,
             AutoLoad(a) \/ Search(a) \/ NextPage(a)
             \/ \E q \in Queries : editQuery(a, q)
      PROVE  ChoiceInv'
  BY <1>1, <1>8 DEF AutoLoad, Search, NextPage, editQuery, wizard
<1>9. ASSUME NEW r \in flight, CatalogAnswer(r) \/ CatalogFails(r)
      PROVE  ChoiceInv'
  BY <1>1, <1>9 DEF CatalogAnswer, CatalogFails, wizard
<1>10. CASE Save \/ PlanSaved(FALSE) \/ PlanSaved(TRUE) \/ PlanRefused
            \/ SettingsSaved \/ SettingsFail
  BY <1>1, <1>10 DEF Save, PlanSaved, PlanRefused, SettingsSaved, SettingsFail,
                     wizard, scopes
<1>11. CASE UNCHANGED vars
  BY <1>1, <1>11 DEF vars, wizard, scopes
<1> QED
  BY <1>2, <1>3, <1>4, <1>5, <1>6, <1>7, <1>8, <1>9, <1>10, <1>11, ModeKeeps,
     ToggleKeeps DEF Next

(* The dialog opens with words that are true of the plan it edits. *)
LEMMA ChoiceStart == Init => ChoiceInv
<1>1. ASSUME OpenNew PROVE ChoiceInv
  BY <1>1 DEF OpenNew, ChoiceInv, ChoiceTypes, ChoiceFits
<1>2. ASSUME OpenPlan PROVE ChoiceInv
  <2>1. initial \in [Apps -> StoredScopes \union {None}]
    BY <1>2 DEF OpenPlan
  <2>2. /\ targetScopes = initial /\ selected \subseteq Apps
        /\ mode \in {"FULL", "CUSTOM"}
        /\ word = [a \in Apps |-> IF initial[a] = None THEN None
                                  ELSE Reading(initial[a])]
    BY <1>2 DEF OpenPlan
  <2>3. ASSUME NEW a \in Apps
        PROVE  /\ initial[a] \in Scope \union {None}
               /\ word[a] \in [Files -> Words] \union {None}
               /\ ChoiceFits(a)
    <3>1. CASE initial[a] = None
      BY <2>2, <3>1 DEF ChoiceFits
    <3>2. CASE initial[a] # None
      <4>1. PICK s \in StoredScopes : s = initial[a]
        BY <2>1, <3>2
      <4>2. s \in Scope /\ (s.mode = "FULL" => s = FullScope)
        BY WizardAssumption
      <4>3. Reading(s) \in [Files -> Words] /\ Fits(s, Reading(s))
        BY <4>2, ReadingFits
      <4>4. targetScopes[a] = s /\ word[a] = Reading(s)
        BY <2>2, <3>2, <4>1
      <4>5. s # None /\ Reading(s) # None
        BY <4>2, <4>3, WizardAssumption
      <4> QED
        BY <4>1, <4>2, <4>3, <4>4, <4>5 DEF ChoiceFits
    <3> QED
      BY <3>1, <3>2
  <2>4. ChoiceTypes
    BY <2>1, <2>2, <2>3 DEF ChoiceTypes
  <2> QED
    BY <2>3, <2>4 DEF ChoiceInv
<1> QED
  BY <1>1, <1>2 DEF Init

(* The files that a saved target would archive are the ones its tree shows   *)
(* ticked, in whatever order boxes were toggled, pages loaded, modes switched *)
(* and requests answered (toggleEntry, setScopeMode, normalizeScope).          *)
THEOREM SavedAsChosenHolds == Spec => []SavedAsChosen
<1>1. ASSUME ChoiceInv PROVE SavedAsChosen
  <2>1. SUFFICES ASSUME NEW a \in Targets, NEW x \in Files
                 PROVE  /\ WordOn(a, x) = "in"
                             => x \in ApplyScope(normalizeScope(Sent(a)))
                        /\ WordOn(a, x) = "out"
                             => x \notin ApplyScope(normalizeScope(Sent(a)))
    BY DEF SavedAsChosen
  <2>2. a \in Apps
    BY <1>1 DEF Targets, ChoiceInv, ChoiceTypes
  <2>3. /\ scopeFor(a) \in Scope
        /\ Fits(scopeFor(a), [f \in Files |-> WordOn(a, f)])
    BY <1>1, <2>2, CurrentFits
  <2>4. Sent(a) = Effective(scopeFor(a)) /\ Sent(a) \in Scope
    BY <2>3 DEF Sent, Effective, FullScope, Scope
  <2>5. ApplyScope(normalizeScope(Sent(a))) = ApplyScope(Effective(scopeFor(a)))
    BY <2>4, NormalizeKeepsFiles
  <2> QED
    BY <2>3, <2>5 DEF Fits
<1>2. ChoiceInv /\ [Next]_vars => ChoiceInv'
  BY ChoiceStep
<1> QED
  BY <1>1, <1>2, ChoiceStart, PTL DEF Spec

================================================================================
