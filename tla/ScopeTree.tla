------------------------------- MODULE ScopeTree -------------------------------
(***************************************************************************)
(* The backup scope of one application instance: the tree of check boxes   *)
(* the web client edits it with, the form the server stores it in, and the *)
(* files an archive of it holds.                                           *)
(*                                                                         *)
(* A path is a model value; Below says which paths start with which        *)
(* directory followed by "/", and Depth is the length of a path.           *)
(***************************************************************************)
EXTENDS Naturals, FiniteSets

CONSTANTS Dirs, Files,
          Databases, \* the files that are standard SQLite databases
          Below,    \* pairs <<path, directory above it>>
          Depth,    \* length of every path
          MaxPaths  \* most directories, and most files, a scope may name

Paths == Dirs \union Files

ASSUME TreeAssumption ==
  /\ Dirs \intersect Files = {} /\ Databases \subseteq Files
  /\ Below \subseteq Paths \X Dirs
  /\ \A p \in Paths, d, e \in Dirs :
       /\ <<p, d>> \in Below /\ <<d, e>> \in Below => <<p, e>> \in Below
       /\ <<p, d>> \in Below /\ <<p, e>> \in Below =>
            d = e \/ <<d, e>> \in Below \/ <<e, d>> \in Below
  /\ Depth \in [Paths -> Nat]
  /\ \A p \in Paths, d \in Dirs : <<p, d>> \in Below => Depth[d] < Depth[p]
  /\ MaxPaths \in Nat

(* path.startsWith(`${root}/`) *)
Under(p, root) == <<p, root>> \in Below

Scope == [mode: {"FULL", "CORE", "CUSTOM"},
          directories: SUBSET Dirs, files: SUBSET Files]
FullScope == [mode |-> "FULL", directories |-> {}, files |-> {}]
EmptyCustom == [mode |-> "CUSTOM", directories |-> {}, files |-> {}]
IsEmpty(s) == s.mode = "CUSTOM" /\ s.directories = {} /\ s.files = {}

----------------------------------------------------------------------------
(* The tree of the picker. *)

(* A directory on the way to an entry is a node of the tree, too. *)
buildScopeTree(items) ==
  items \union {d \in Dirs : \E p \in items : Under(p, d)}

inherited(s, p) == \E root \in s.directories : Under(p, root)

(* The check box of a node is ticked. *)
ticked(s, p) ==
  inherited(s, p) \/ p \in (IF p \in Dirs THEN s.directories ELSE s.files)

(* The check boxes that are enabled: the server's entries, all of which are *)
(* selectable, unless a directory above them is ticked.                      *)
Tickable(s, items) == {p \in buildScopeTree(items) \intersect items :
                         ~inherited(s, p)}

(* Mutant of toggleEntry: clearing a directory forgets the entries that were *)
(* ticked together with it.                                                   *)
toggleEntryShallow(s, items, p) ==
  LET below == {q \in items : q = p \/ Under(q, p)} IN
  IF p \in Files
  THEN [s EXCEPT !.mode = "CUSTOM",
                 !.files = IF p \in @ THEN @ \ {p} ELSE @ \union {p}]
  ELSE IF p \in s.directories
       THEN [s EXCEPT !.mode = "CUSTOM", !.directories = @ \ {p}]
       ELSE [s EXCEPT !.mode = "CUSTOM",
                      !.directories = @ \union (below \intersect Dirs) \union {p},
                      !.files = @ \union (below \intersect Files)]

(* A directory takes the entries loaded below it along, whether it is ticked *)
(* or cleared.                                                                *)
toggleEntry(s, items, p) ==
  LET below == {q \in items : q = p \/ Under(q, p)}
      dirs == (below \intersect Dirs) \union {p}
      files == below \intersect Files
  IN IF p \in Files
     THEN [s EXCEPT !.mode = "CUSTOM",
                    !.files = IF p \in @ THEN @ \ {p} ELSE @ \union {p}]
     ELSE IF p \in s.directories \union s.files
          THEN [s EXCEPT !.mode = "CUSTOM", !.directories = @ \ dirs,
                         !.files = @ \ files]
          ELSE [s EXCEPT !.mode = "CUSTOM", !.directories = @ \union dirs,
                         !.files = @ \union files]

----------------------------------------------------------------------------
(* The server. *)

(* The scan goes by the length of the path, so a directory is kept when no  *)
(* directory above it is there.                                              *)
removeCoveredDirectories(dirs) ==
  {d \in dirs : ~\E e \in dirs : Under(d, e)}

removeFilesCoveredByDirectories(files, dirs) ==
  {f \in files : ~\E d \in dirs : Under(f, d)}

(* Paths are counted before the covered ones are removed. *)
ScopeAccepted(s) ==
  s.mode # "FULL" =>
    /\ Cardinality(s.directories) <= MaxPaths
    /\ Cardinality(s.files) <= MaxPaths
    /\ ~IsEmpty(s)

normalizeScope(s) ==
  LET dirs == removeCoveredDirectories(s.directories) IN
  IF s.mode = "FULL" THEN FullScope
  ELSE [mode |-> s.mode, directories |-> dirs,
        files |-> removeFilesCoveredByDirectories(s.files, dirs)]

(* The files that enter the archive.  A path that has vanished, or a scope  *)
(* that holds no file, fails the backup: TaskOutcome of BackupQueue.         *)
ApplyScope(s) ==
  IF s.mode = "FULL" THEN Files
  ELSE IF s.mode = "CORE" THEN Databases
  ELSE {f \in Files : \/ \E root \in s.directories : Under(f, root)
                      \/ f \in s.files}

================================================================================
