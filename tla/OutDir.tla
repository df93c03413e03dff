-------------------------------- MODULE OutDir --------------------------------
(***************************************************************************)
(* The hygiene of one `--out` directory (src/src/out_dir.rs).  A command   *)
(* looks at the directory, refuses it or cleans it entry by entry, claims  *)
(* it with an in-progress manifest, writes its outputs, and finalizes the  *)
(* manifest with the list of the files it finds.  The manifest itself is   *)
(* replaced through a temporary file in the same directory                 *)
(* (write_string_atomic in src/src/lib.rs).                                *)
(*                                                                         *)
(* Nothing locks the directory: the model lets several runs be in it at    *)
(* once, lets a run stop at any point (crash, kill, error), and lets a     *)
(* user drop files in at any time.  Nested directories are flattened: a    *)
(* file stands for its path, and a directory is gone with its files.       *)
(***************************************************************************)
EXTENDS FiniteSets

CONSTANTS
    Procs,      \* the runs, one process each
    Commands,   \* the commands they may be: run, report, release, verify, publication
    Outputs,    \* the files a command may write
    UserNames,  \* the names a user drops
    NoManifest  \* allie-run-manifest.json does not exist

VARIABLES
    files,      \* the files in the directory, manifest excluded
    manifest,   \* the content of allie-run-manifest.json
    at,         \* where each run is
    cmd,        \* the command of each run
    todo,       \* the entries a cleaning run has still to remove
    listing,    \* the names a finalizing run has collected
    overlap,    \* history: two runs have been live at the same time
    foreign     \* history: the files of a directory that is no run's

vars == <<files, manifest, at, cmd, todo, listing, overlap, foreign>>

----------------------------------------------------------------------------
(* A file knows who wrote it: a run, a run before the model began, or the  *)
(* user.  The temporary file of an atomic write carries its process id.    *)
User == "user"
Earlier == "earlier"
Temp == "temp"

Names  == Outputs \cup UserNames \cup {Temp}
Origin == Procs \cup {User, Earlier}
File   == [name : Names, by : Origin]

TempOf(p) == [name |-> Temp, by |-> p]

(* RunManifest.  `sound` is what validate_manifest asks of schema and      *)
(* entries; `by` is the run that wrote it.                                 *)
Manifest == [command : Commands, phase : {"in_progress", "complete"},
             files : SUBSET Names, sound : BOOLEAN, by : Origin]

(* What clean_dir_contents meets: the manifest is one entry among others.  *)
ManifestEntry == [name |-> "allie-run-manifest.json", by |-> User]

Entries == File \cup {ManifestEntry}

(* Names and origins are what they seem.                                   *)
ASSUME NamesAssumption ==
    /\ NoManifest \notin Manifest
    /\ User \notin Procs /\ Earlier \notin Procs
    /\ Temp \notin Outputs \cup UserNames
    /\ ManifestEntry.name \notin Outputs \cup UserNames

Present == files \cup (IF manifest = NoManifest THEN {} ELSE {ManifestEntry})

Points == {"idle", "look", "clean", "claim", "claim_rename", "write",
           "finalize", "finalize_rename", "done", "refused", "stopped"}

TypeOK ==
    /\ files \subseteq File
    /\ manifest \in Manifest \cup {NoManifest}
    /\ at \in [Procs -> Points]
    /\ cmd \in [Procs -> Commands]
    /\ todo \in [Procs -> SUBSET Entries]
    /\ listing \in [Procs -> SUBSET Names]
    /\ overlap \in BOOLEAN
    /\ foreign \subseteq File

(* The directory as the first run may find it: empty, a user's own,        *)
(* managed by some command, or with a manifest that does not validate.     *)
Init ==
    /\ \/ files = {} /\ manifest = NoManifest
       \/ /\ files \in {[name : ns, by : {User}] : ns \in (SUBSET UserNames) \ {{}}}
          /\ manifest = NoManifest
       \/ /\ files = [name : Outputs, by : {Earlier}]
          /\ manifest \in [command : Commands, phase : {"complete"},
                           files : {Outputs}, sound : BOOLEAN, by : {Earlier}]
    /\ at = [p \in Procs |-> "idle"]
    /\ cmd \in [Procs -> Commands]
    /\ todo = [p \in Procs |-> {}]
    /\ listing = [p \in Procs |-> {}]
    /\ overlap = FALSE
    /\ foreign = IF /\ manifest # NoManifest /\ manifest.sound
                    /\ \E p \in Procs : cmd[p] = manifest.command
                 THEN {} ELSE files

Live(p) == at[p] \notin {"idle", "done", "refused", "stopped"}

Goto(p, point) == at' = [at EXCEPT ![p] = point]

----------------------------------------------------------------------------
(* prepare_out_dir *)

MayClaim(p) == manifest = NoManifest /\ files = {}

(* A slip: any sound manifest will do.                                     *)
MayCleanAnyCommand(p) == manifest # NoManifest /\ manifest.sound

MayClean(p) ==
    /\ manifest # NoManifest
    /\ manifest.sound
    /\ manifest.command = cmd[p]

(* What cleaning removes: everything read_dir lists.  The slip trusts the  *)
(* manifest's list, and misses what a stopped run left.                    *)
ListedLeftovers == {e \in Present : e.name \in manifest.files} \cup {ManifestEntry}

Leftovers == Present

Begin(p) ==
    /\ at[p] = "idle"
    /\ Goto(p, "look")
    /\ overlap' = (overlap \/ \E q \in Procs : Live(q))
    /\ UNCHANGED <<files, manifest, cmd, todo, listing, foreign>>

Look(p) ==
    /\ at[p] = "look"
    /\ \/ MayClean(p) /\ Goto(p, "clean") /\ todo' = [todo EXCEPT ![p] = Leftovers]
       \/ MayClaim(p) /\ Goto(p, "claim") /\ UNCHANGED todo
       \/ ~MayClean(p) /\ ~MayClaim(p) /\ Goto(p, "refused") /\ UNCHANGED todo
    /\ UNCHANGED <<files, manifest, cmd, listing, overlap, foreign>>

(* clean_dir_contents removes what read_dir listed, in any order.  An      *)
(* entry that is gone by then is an error: the run stops.                  *)
RemoveEntry(p) ==
    /\ at[p] = "clean"
    /\ \E e \in todo[p] :
          IF e \in Present
          THEN /\ files' = files \ {e}
               /\ manifest' = IF e = ManifestEntry THEN NoManifest ELSE manifest
               /\ todo' = [todo EXCEPT ![p] = @ \ {e}]
               /\ UNCHANGED at
          ELSE /\ Goto(p, "stopped")
               /\ todo' = [todo EXCEPT ![p] = {}]
               /\ UNCHANGED <<files, manifest>>
    /\ UNCHANGED <<cmd, listing, overlap, foreign>>

Cleaned(p) == at[p] = "clean" /\ todo[p] = {}

(* write_manifest: the temporary file ...                                  *)
MakeTemp(p) ==
    /\ \/ (Cleaned(p) \/ at[p] = "claim") /\ Goto(p, "claim_rename")
       \/ at[p] = "finalize" /\ Goto(p, "finalize_rename")
    /\ files' = files \cup {TempOf(p)}
    /\ todo' = [todo EXCEPT ![p] = {}]
    /\ UNCHANGED <<manifest, cmd, listing, overlap, foreign>>

(* ... and its rename.  Another run's cleaning may have removed it.        *)
Replace(p, from, to, content) ==
    /\ at[p] = from
    /\ IF TempOf(p) \in files
       THEN manifest' = content /\ files' = files \ {TempOf(p)} /\ Goto(p, to)
       ELSE Goto(p, "stopped") /\ UNCHANGED <<files, manifest>>
    /\ UNCHANGED <<cmd, todo, overlap, foreign>>

(* A slip: the claim is written as if the run were over.                   *)
ClaimAsComplete(p) ==
    /\ Replace(p, "claim_rename", "write",
               [command |-> cmd[p], phase |-> "complete", files |-> {},
                sound |-> TRUE, by |-> p])
    /\ UNCHANGED listing

Claim(p) ==
    /\ Replace(p, "claim_rename", "write",
               [command |-> cmd[p], phase |-> "in_progress", files |-> {},
                sound |-> TRUE, by |-> p])
    /\ UNCHANGED listing

----------------------------------------------------------------------------
(* The run's outputs, and finalize_out_dir_manifest *)

(* fs::write truncates and replaces what had the name.                     *)
WriteOutput(p) ==
    /\ at[p] = "write"
    /\ \E n \in Outputs :
          files' = {f \in files : f.name # n} \cup {[name |-> n, by |-> p]}
    /\ UNCHANGED <<manifest, at, cmd, todo, listing, overlap, foreign>>

(* A slip: the manifest lists itself.                                      *)
CollectAll(p) ==
    /\ at[p] = "write"
    /\ listing' = [listing EXCEPT ![p] = {f.name : f \in Present}]
    /\ Goto(p, "finalize")
    /\ UNCHANGED <<files, manifest, cmd, todo, overlap, foreign>>

CollectFiles(p) ==
    /\ at[p] = "write"
    /\ listing' = [listing EXCEPT ![p] = {f.name : f \in files}]
    /\ Goto(p, "finalize")
    /\ UNCHANGED <<files, manifest, cmd, todo, overlap, foreign>>

Finalize(p) ==
    /\ Replace(p, "finalize_rename", "done",
               [command |-> cmd[p], phase |-> "complete", files |-> listing[p],
                sound |-> TRUE, by |-> p])
    /\ listing' = [listing EXCEPT ![p] = {}]

----------------------------------------------------------------------------
(* A crash, a kill, or an error of the run between prepare and finalize.   *)
Stop(p) ==
    /\ Live(p)
    /\ Goto(p, "stopped")
    /\ todo' = [todo EXCEPT ![p] = {}]
    /\ listing' = [listing EXCEPT ![p] = {}]
    /\ UNCHANGED <<files, manifest, cmd, overlap, foreign>>

UserDrops ==
    /\ \E n \in UserNames : files' = files \cup {[name |-> n, by |-> User]}
    /\ UNCHANGED <<manifest, at, cmd, todo, listing, overlap, foreign>>

Advance(p) ==
    \/ Look(p)
    \/ RemoveEntry(p)
    \/ MakeTemp(p)
    \/ Claim(p)
    \/ WriteOutput(p)
    \/ CollectFiles(p)
    \/ Finalize(p)

Next ==
    \/ \E p \in Procs : Begin(p)
    \/ \E p \in Procs : Advance(p)
    \/ \E p \in Procs : Stop(p)
    \/ UserDrops

Spec == Init /\ [][Next]_vars

----------------------------------------------------------------------------
(* Properties *)

(* A directory that belongs to none of the runs (files without a manifest, *)
(* with one that does not validate, or with that of a command that none of *)
(* them is) keeps every file it had, however many runs are pointed at it,  *)
(* crash in it or overlap, at whatever time.                               *)
ForeignIsUntouched == foreign \subseteq files

(* While one run at a time uses the directory, a run writes only under its *)
(* own in-progress manifest: wherever it stops after its first output, the *)
(* directory says so and the next run of the command may clean it.         *)
WritesUnderOwnClaim ==
    ~overlap => \A p \in Procs :
        at[p] \in {"write", "finalize", "finalize_rename"} =>
            /\ manifest # NoManifest
            /\ manifest.by = p
            /\ manifest.phase = "in_progress"
            /\ manifest.sound
            /\ manifest.command = cmd[p]

(* While one run at a time uses the directory, a complete manifest         *)
(* describes exactly one run: what the directory holds was written by that *)
(* run and is listed, or was dropped in by a user.  Nothing of a run that  *)
(* stopped, or of an earlier one, survives under it.                       *)
CompleteIsOneRun ==
    ~overlap /\ manifest # NoManifest /\ manifest.phase = "complete" =>
        /\ \A f \in files :
              f.by # User => f.by = manifest.by /\ f.name \in manifest.files
        /\ Temp \notin manifest.files

(* What the head of out_dir.rs promises: a crashed run never wedges the    *)
(* directory.  Once a run has had the directory and no run is in it, the   *)
(* next one is not refused because of what runs left behind.               *)
NeverWedged ==
    (\A p \in Procs : ~Live(p)) /\ (\E f \in files : f.name \in Outputs)
        => manifest # NoManifest
=============================================================================
