------------------------------ MODULE CasStore ------------------------------
(***************************************************************************)
(* One content-addressed package of the learner's registry                 *)
(* (gpu/gpu_runtime/learner_release_store.py): a directory named by the    *)
(* hash of its files, written by any number of processes at once, read by  *)
(* anybody, and exposed to process death and power loss at every step.     *)
(*                                                                         *)
(* All writers of a pin bring the same files.  A package is published by   *)
(* renaming a staged directory or, where the mount cannot rename without   *)
(* replacing, by linking the staged files into a directory made for it,    *)
(* between a layout marker and a commit marker.                            *)
(*                                                                         *)
(* A directory is the names one sees in it and those that are durable; a   *)
(* power loss keeps the durable ones and any of the others.  Files are     *)
(* synced when they are written.  A staging directory is private to its    *)
(* writer and never looked at again, so only its durable names matter.     *)
(***************************************************************************)
EXTENDS FiniteSets

CONSTANTS
    Writers,
    Files,              \* payload names of this kind of package
    Layout, Commit,     \* .PORTABLE.json and .COMMITTED.json
    None

ASSUME CasAssumption ==
    /\ Files # {} /\ Layout # Commit
    /\ {Layout, Commit} \cap Files = {}
    /\ None \notin Writers

VARIABLES
    renames,    \* the mount supports renaming without replacing
    present,    \* the package directory exists
    entered,    \* its entry in the registry is durable
    names,      \* what is in it
    durable,    \* what of it is durable
    at,         \* where each writer stands in _commit
    staged,     \* durable names of each writer's staging directory
    owner,      \* the live writer that made the package directory
    checked,    \* history: its contents were compared with the files
    acked       \* history: a writer has returned from publishing it

package == <<present, entered, names, durable>>
vars    == <<renames, package, at, staged, owner, checked, acked>>

Running == {"stage", "publish", "mkdir", "layout", "syncLayout", "link", "syncFiles",
            "commit", "syncCommit", "syncRoot"}
Places  == Running \cup {"idle", "found", "published", "failed"}

Init ==
    /\ renames \in BOOLEAN
    /\ present = FALSE /\ entered = FALSE /\ names = {} /\ durable = {}
    /\ at = [w \in Writers |-> "idle"] /\ staged = [w \in Writers |-> {}]
    /\ owner = None /\ checked = FALSE /\ acked = FALSE

\* _read_package: the files alone, or with both markers.
Readable(seen) == seen = Files \/ seen = Files \cup {Layout, Commit}

Goes(w, place) == at' = [at EXCEPT ![w] = place]

-----------------------------------------------------------------------------
(* _commit                                                                 *)

\* A call of _commit, after an earlier one ended one way or another.
Begin(w) ==
    /\ at[w] \notin Running
    /\ \/ ~present /\ Goes(w, "stage")
       \/ present /\ Readable(names) /\ Goes(w, "found")
       \/ present /\ ~Readable(names) /\ Goes(w, "failed")
    /\ staged' = [staged EXCEPT ![w] = {}]
    /\ UNCHANGED <<renames, package, owner, checked, acked>>

StageUnsynced(w) ==
    /\ at[w] = "stage" /\ Goes(w, "publish")
    /\ UNCHANGED <<renames, package, staged, owner, checked, acked>>

\* The files are written, synced and compared in a directory of the writer's own.
Stage(w) ==
    /\ at[w] = "stage" /\ Goes(w, "publish")
    /\ staged' = [staged EXCEPT ![w] = Files]
    /\ UNCHANGED <<renames, package, owner, checked, acked>>

\* _publish_noreplace, where the mount supports it.
Rename(w) ==
    /\ at[w] = "publish" /\ renames /\ ~present
    /\ present' = TRUE /\ names' = Files /\ durable' = staged[w]
    /\ owner' = w /\ checked' = TRUE
    /\ Goes(w, "syncRoot")
    /\ UNCHANGED <<renames, entered, staged, acked>>

\* Only an unsupported operation falls back.
FallBack(w) ==
    /\ at[w] = "publish" /\ ~renames
    /\ Goes(w, "mkdir")
    /\ UNCHANGED <<renames, package, staged, owner, checked, acked>>

-----------------------------------------------------------------------------
(* _commit_portable                                                        *)

MakeTargetOrJoin(w) ==
    /\ at[w] = "mkdir"
    /\ present' = TRUE /\ owner' = w
    /\ Goes(w, "layout")
    /\ UNCHANGED <<renames, entered, names, durable, staged, checked, acked>>

\* An exclusive mkdir: an existing directory, even an empty one, wins.
MakeTarget(w) ==
    /\ at[w] = "mkdir" /\ ~present
    /\ present' = TRUE /\ owner' = w
    /\ Goes(w, "layout")
    /\ UNCHANGED <<renames, entered, names, durable, staged, checked, acked>>

Puts(w, from, name, to) ==
    /\ at[w] = from
    /\ names' = names \cup {name}
    /\ Goes(w, to)
    /\ UNCHANGED <<renames, present, entered, durable, staged, owner, checked, acked>>

WriteLayout(w) == Puts(w, "layout", Layout, "syncLayout")

Proceeds(w, from, to) ==
    /\ at[w] = from
    /\ Goes(w, to)
    /\ UNCHANGED <<renames, package, staged, owner, checked, acked>>

Syncs(w, from, to) ==
    /\ at[w] = from
    /\ durable' = names
    /\ Goes(w, to)
    /\ UNCHANGED <<renames, present, entered, names, staged, owner, checked, acked>>

SyncLayoutSkipped(w) == Proceeds(w, "syncLayout", "link")
SyncLayout(w) == Syncs(w, "syncLayout", "link")

Link(w) == \E f \in Files \ names : Puts(w, "link", f, "link")
AllLinked(w) ==
    /\ Files \subseteq names
    /\ Proceeds(w, "link", "syncFiles")

\* The files are synced, then read back and compared.
SyncFiles(w) ==
    /\ at[w] = "syncFiles"
    /\ durable' = names /\ checked' = TRUE
    /\ Goes(w, "commit")
    /\ UNCHANGED <<renames, present, entered, names, staged, owner, acked>>

LinkCommit(w) == Puts(w, "commit", Commit, "syncCommit")

SyncCommit(w) == Syncs(w, "syncCommit", "syncRoot")

-----------------------------------------------------------------------------
(* The end of both, and everything that cuts them short                    *)

SyncRoot(w) ==
    /\ at[w] = "syncRoot" /\ Goes(w, "published")
    /\ entered' = TRUE
    /\ owner' = None /\ acked' = TRUE
    /\ UNCHANGED <<renames, present, names, durable, staged, checked>>

\* A call raises, because the package exists by now or for any other reason, or
\* its process dies.  Nothing is cleaned up.
Fail(w) ==
    /\ at[w] \in Running /\ Goes(w, "failed")
    /\ owner' = IF owner = w THEN None ELSE owner
    /\ UNCHANGED <<renames, package, staged, checked, acked>>

\* A power loss ends every writer.
PowerLoss ==
    /\ present' \in IF entered THEN {TRUE} ELSE {FALSE, present}
    /\ \E kept \in SUBSET (names \ durable) :
          names' = IF present' THEN durable \cup kept ELSE {}
    /\ entered' = present' /\ durable' = names'
    /\ at' = [w \in Writers |-> IF at[w] = "published" THEN "published" ELSE "failed"]
    /\ staged' = [w \in Writers |-> {}]
    /\ owner' = None
    /\ checked' = (checked /\ present')
    /\ UNCHANGED <<renames, acked>>

Next ==
    \/ \E w \in Writers :
          \/ Begin(w) \/ Stage(w) \/ Rename(w) \/ FallBack(w)
          \/ MakeTarget(w) \/ WriteLayout(w) \/ SyncLayout(w) \/ Link(w) \/ AllLinked(w)
          \/ SyncFiles(w) \/ LinkCommit(w) \/ SyncCommit(w) \/ SyncRoot(w) \/ Fail(w)
    \/ PowerLoss

Spec == Init /\ [][Next]_vars

-----------------------------------------------------------------------------
(* Properties                                                              *)

\* Every variable has its type.
TypeOK ==
    /\ renames \in BOOLEAN /\ present \in BOOLEAN /\ entered \in BOOLEAN
    /\ checked \in BOOLEAN /\ acked \in BOOLEAN
    /\ names \subseteq Files \cup {Layout, Commit} /\ durable \subseteq names
    /\ at \in [Writers -> Places] /\ staged \in [Writers -> SUBSET Files]
    /\ owner \in Writers \cup {None}

\* A package that can be read was compared whole with its files: no half-linked
\* package, no crash between two links and no lost marker makes one that reads as
\* an older package without markers (learner_release_store.py:173-180).
ReadableIsChecked == present /\ Readable(names) => checked

\* A published package can be read for ever, across power losses
\* (learner_release_store.py:217-229).
PublishedSurvives == acked => present /\ entered /\ Readable(durable)

\* A package whose writer has stopped half way never becomes readable: nobody
\* completes, replaces or removes it, and no power loss does it by accident
\* (learner_release_store.py:203, 178).
NeverRepaired ==
    [][present /\ present' /\ owner = None /\ ~Readable(names) => ~Readable(names')]_vars
=============================================================================
