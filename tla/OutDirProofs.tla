----------------------------- MODULE OutDirProofs -----------------------------
(***************************************************************************)
(* Theorems about one output directory, for any number of runs, commands   *)
(* and outputs: the types, that a directory which is no run's keeps its    *)
(* files, and, for runs that do not overlap, that a run writes under its   *)
(* own claim and that a complete manifest describes one run.               *)
(***************************************************************************)
EXTENDS OutDir, TLAPS

USE DEF Goto

----------------------------------------------------------------------------
(* Types *)

LEMMA TempIsFile == \A p \in Procs : TempOf(p) \in File
BY DEF TempOf, File, Names, Origin

LEMMA PresentType == ASSUME TypeOK PROVE Present \subseteq Entries
BY DEF TypeOK, Present, Entries

(* The two manifests that a run writes are manifests.                      *)
LEMMA ManifestType ==
    ASSUME NEW command \in Commands, NEW phase \in {"in_progress", "complete"},
           NEW listed \in SUBSET Names, NEW p \in Procs
    PROVE  [command |-> command, phase |-> phase, files |-> listed,
            sound |-> TRUE, by |-> p] \in Manifest
BY DEF Manifest, Origin

(* The files of the directory that the first run finds.                    *)
LEMMA FirstFiles ==
    Init => files \subseteq [name : Outputs \cup UserNames, by : {User, Earlier}]
<1> SUFFICES ASSUME Init
             PROVE  files \subseteq [name : Outputs \cup UserNames, by : {User, Earlier}]
  OBVIOUS
<1>1. CASE files \in {[name : ns, by : {User}] : ns \in (SUBSET UserNames) \ {{}}}
  <2>1. PICK ns \in (SUBSET UserNames) \ {{}} : files = [name : ns, by : {User}]
    BY <1>1
  <2> QED  BY <2>1
<1>2. CASE files = {}
  BY <1>2
<1>3. CASE files = [name : Outputs, by : {Earlier}]
  BY <1>3
<1> QED  BY <1>1, <1>2, <1>3, Zenon DEF Init

LEMMA InitType == Init => TypeOK
<1> SUFFICES ASSUME Init PROVE TypeOK
  OBVIOUS
<1>1. files \subseteq File
  BY FirstFiles DEF File, Names, Origin
<1>2. manifest \in Manifest \cup {NoManifest}
  <2>1. [command : Commands, phase : {"complete"}, files : {Outputs},
         sound : BOOLEAN, by : {Earlier}] \subseteq Manifest
    BY DEF Manifest, Names, Origin
  <2>2. \/ manifest = NoManifest
        \/ manifest \in [command : Commands, phase : {"complete"}, files : {Outputs},
                         sound : BOOLEAN, by : {Earlier}]
    BY DEF Init
  <2> HIDE DEF Init
  <2> QED  BY <2>1, <2>2
<1>3. foreign \subseteq File
  BY <1>1 DEF Init
<1> QED  BY <1>1, <1>2, <1>3 DEF Init, TypeOK, Points

LEMMA NextType == TypeOK /\ [Next]_vars => TypeOK'
<1> SUFFICES ASSUME TypeOK, [Next]_vars PROVE TypeOK'
  OBVIOUS
<1>1. ASSUME NEW p \in Procs, Begin(p) PROVE TypeOK'
  BY <1>1 DEF Begin, TypeOK, Points
<1>2. ASSUME NEW p \in Procs, Look(p) PROVE TypeOK'
  BY <1>2, PresentType DEF Look, Leftovers, TypeOK, Points
<1>3. ASSUME NEW p \in Procs, RemoveEntry(p) PROVE TypeOK'
  BY <1>3 DEF RemoveEntry, TypeOK, Points
<1>4. ASSUME NEW p \in Procs, MakeTemp(p) PROVE TypeOK'
  BY <1>4, TempIsFile DEF MakeTemp, TypeOK, Points
<1>5. ASSUME NEW p \in Procs, Claim(p) PROVE TypeOK'
  <2>1. [command |-> cmd[p], phase |-> "in_progress", files |-> {},
         sound |-> TRUE, by |-> p] \in Manifest
    BY ManifestType DEF TypeOK
  <2> QED  BY <1>5, <2>1 DEF Claim, Replace, TypeOK, Points
<1>6. ASSUME NEW p \in Procs, WriteOutput(p) PROVE TypeOK'
  <2>1. PICK n \in Outputs :
           files' = {f \in files : f.name # n} \cup {[name |-> n, by |-> p]}
    BY <1>6 DEF WriteOutput
  <2>2. [name |-> n, by |-> p] \in File
    BY DEF File, Names, Origin
  <2> QED  BY <1>6, <2>1, <2>2 DEF WriteOutput, TypeOK
<1>7. ASSUME NEW p \in Procs, CollectFiles(p) PROVE TypeOK'
  <2>1. {f.name : f \in files} \subseteq Names
    BY DEF TypeOK, File
  <2> QED  BY <1>7, <2>1 DEF CollectFiles, TypeOK, Points
<1>8. ASSUME NEW p \in Procs, Finalize(p) PROVE TypeOK'
  <2>1. [command |-> cmd[p], phase |-> "complete", files |-> listing[p],
         sound |-> TRUE, by |-> p] \in Manifest
    BY ManifestType DEF TypeOK
  <2> QED  BY <1>8, <2>1 DEF Finalize, Replace, TypeOK, Points
<1>9. ASSUME NEW p \in Procs, Stop(p) PROVE TypeOK'
  BY <1>9 DEF Stop, TypeOK, Points
<1>10. CASE UserDrops
  BY <1>10 DEF UserDrops, TypeOK, File, Names, Origin
<1>11. CASE UNCHANGED vars
  BY <1>11 DEF vars, TypeOK
<1> QED  BY <1>1, <1>2, <1>3, <1>4, <1>5, <1>6, <1>7, <1>8, <1>9, <1>10, <1>11
         DEF Next, Advance

(* The variables keep their types.                                         *)
THEOREM TypeCorrect == Spec => []TypeOK
BY InitType, NextType, PTL DEF Spec

----------------------------------------------------------------------------
(* A directory that is no run's *)

(* Files that are no run's stay because no run gets past its look at the   *)
(* directory: its manifest is none that any of them may clean, and it is   *)
(* not empty.                                                              *)
Kept ==
    foreign # {} =>
        /\ foreign \subseteq files
        /\ manifest # NoManifest /\ manifest.sound =>
               \A p \in Procs : cmd[p] # manifest.command
        /\ \A p \in Procs : at[p] \in {"idle", "look", "refused", "stopped"}

LEMMA KeptAtFirst == Init => Kept
BY DEF Init, Kept

LEMMA KeptByNext == TypeOK /\ Kept /\ [Next]_vars => Kept'
<1> SUFFICES ASSUME TypeOK, Kept, [Next]_vars, foreign' # {} PROVE Kept'
  BY DEF Kept
<1>1. foreign' = foreign
  BY DEF Next, Begin, Advance, Look, RemoveEntry, MakeTemp, Claim, WriteOutput,
         CollectFiles, Finalize, Replace, Stop, UserDrops, vars
<1>2. /\ foreign \subseteq files
      /\ manifest # NoManifest /\ manifest.sound =>
             \A p \in Procs : cmd[p] # manifest.command
      /\ \A p \in Procs : at[p] \in {"idle", "look", "refused", "stopped"}
  BY <1>1 DEF Kept
<1>3. ASSUME NEW p \in Procs, Begin(p) PROVE Kept'
  BY <1>1, <1>2, <1>3 DEF Begin, Kept, TypeOK
<1>4. ASSUME NEW p \in Procs, Look(p) PROVE Kept'
  <2>1. ~MayClean(p) /\ ~MayClaim(p)
    BY <1>1, <1>2 DEF MayClean, MayClaim
  <2> QED  BY <1>1, <1>2, <1>4, <2>1 DEF Look, Kept, TypeOK
<1>5. ASSUME NEW p \in Procs, Advance(p), ~Look(p) PROVE FALSE
  BY <1>2, <1>5 DEF Advance, RemoveEntry, MakeTemp, Cleaned, Claim, WriteOutput,
                    CollectFiles, Finalize, Replace
<1>6. ASSUME NEW p \in Procs, Stop(p) PROVE Kept'
  BY <1>1, <1>2, <1>6 DEF Stop, Kept, TypeOK
<1>7. CASE UserDrops
  BY <1>1, <1>2, <1>7 DEF UserDrops, Kept
<1>8. CASE UNCHANGED vars
  BY <1>2, <1>8 DEF vars, Kept
<1> QED  BY <1>3, <1>4, <1>5, <1>6, <1>7, <1>8 DEF Next

(* However many runs are pointed at a directory that belongs to none of    *)
(* them, stop in it or overlap, it keeps every file it had.                *)
THEOREM ForeignSurvives == Spec => []ForeignIsUntouched
<1>1. Kept => ForeignIsUntouched
  BY DEF Kept, ForeignIsUntouched
<1> QED  BY <1>1, TypeCorrect, KeptAtFirst, KeptByNext, PTL DEF Spec

----------------------------------------------------------------------------
(* One run at a time *)

(* Runs that have not overlapped are not live together.                    *)
Alone == ~overlap => \A p, q \in Procs : Live(p) /\ Live(q) => p = q

(* A temporary file is a run's.                                            *)
TempsAreRuns == \A f \in files : f.name = Temp => f.by \in Procs

(* What a run on its own has around it, by where it is: while it cleans,   *)
(* what others have left is still on its list; from the claim on there is  *)
(* only what a user dropped and what it wrote itself.                      *)
Surroundings(p) ==
    /\ at[p] = "clean" =>
          /\ \A f \in files : f.by = User \/ f \in todo[p]
          /\ manifest = NoManifest \/ ManifestEntry \in todo[p]
    /\ at[p] = "claim" => manifest = NoManifest /\ \A f \in files : f.by = User
    /\ at[p] = "claim_rename" =>
          manifest = NoManifest /\ \A f \in files : f.by = User \/ f = TempOf(p)
    /\ at[p] = "write" =>
          \A f \in files : f.by = User \/ (f.by = p /\ f.name \in Outputs)
    /\ at[p] = "finalize" =>
          /\ Temp \notin listing[p]
          /\ \A f \in files : f.by = User \/ (f.by = p /\ f.name \in listing[p])
    /\ at[p] = "finalize_rename" =>
          /\ Temp \notin listing[p]
          /\ \A f \in files : \/ f.by = User \/ f = TempOf(p)
                              \/ (f.by = p /\ f.name \in listing[p])

Surrounded == ~overlap => \A p \in Procs : Surroundings(p)

IInv == Alone /\ TempsAreRuns /\ Surrounded /\ WritesUnderOwnClaim /\ CompleteIsOneRun

LEMMA AloneByNext == TypeOK /\ Alone /\ [Next]_vars => Alone'
<1> SUFFICES ASSUME TypeOK, Alone, [Next]_vars PROVE Alone'
  OBVIOUS
<1>1. ASSUME NEW p \in Procs, Begin(p) PROVE Alone'
  BY <1>1 DEF Begin, Alone, Live, TypeOK
<1>2. ASSUME NEW p \in Procs, Advance(p) PROVE Alone'
  <2>1. Live(p) /\ overlap' = overlap /\ (at' = at \/ \E to : at' = [at EXCEPT ![p] = to])
    BY <1>2 DEF Advance, Look, RemoveEntry, MakeTemp, Cleaned, Claim, WriteOutput,
                CollectFiles, Finalize, Replace, Live
  <2> QED  BY <2>1 DEF Alone, Live, TypeOK
<1>3. ASSUME NEW p \in Procs, Stop(p) PROVE Alone'
  BY <1>3 DEF Stop, Alone, Live, TypeOK
<1>4. CASE UserDrops \/ UNCHANGED vars
  BY <1>4 DEF UserDrops, vars, Alone, Live
<1> QED  BY <1>1, <1>2, <1>3, <1>4 DEF Next

LEMMA TempsByNext == TypeOK /\ TempsAreRuns /\ [Next]_vars => TempsAreRuns'
<1> SUFFICES ASSUME TypeOK, TempsAreRuns, [Next]_vars PROVE TempsAreRuns'
  OBVIOUS
<1>1. ASSUME NEW p \in Procs, MakeTemp(p) PROVE TempsAreRuns'
  BY <1>1 DEF MakeTemp, TempsAreRuns, TempOf
<1>2. ASSUME NEW p \in Procs, WriteOutput(p) PROVE TempsAreRuns'
  BY <1>2 DEF WriteOutput, TempsAreRuns
<1>3. CASE UserDrops
  BY <1>3, NamesAssumption DEF UserDrops, TempsAreRuns
<1>4. CASE files' \subseteq files
  BY <1>4 DEF TempsAreRuns
<1> QED  BY <1>1, <1>2, <1>3, <1>4 DEF Next, Begin, Advance, Look, RemoveEntry, Claim,
            CollectFiles, Finalize, Replace, Stop, vars

(* What the manifest's own entry is not: a file.                           *)
LEMMA EntryIsNoFile == ManifestEntry \notin File
BY NamesAssumption DEF ManifestEntry, File, Names, Temp

LEMMA InitHolds == Init => IInv
<1> SUFFICES ASSUME Init PROVE IInv
  OBVIOUS
<1>1. Alone /\ Surrounded /\ WritesUnderOwnClaim
  BY DEF Init, Alone, Live, Surrounded, Surroundings, WritesUnderOwnClaim
<1>2. TempsAreRuns
  <2>1. \A f \in files : f.name \in Outputs \cup UserNames
    BY FirstFiles
  <2> QED  BY <2>1, NamesAssumption DEF TempsAreRuns
<1>3. CompleteIsOneRun
  <2> SUFFICES ASSUME manifest # NoManifest
               PROVE  /\ \A f \in files :
                            f.by # User => f.by = manifest.by /\ f.name \in manifest.files
                      /\ Temp \notin manifest.files
    BY DEF CompleteIsOneRun
  <2>1. /\ files = [name : Outputs, by : {Earlier}]
        /\ manifest.files = Outputs /\ manifest.by = Earlier
    BY DEF Init
  <2> QED  BY <2>1, NamesAssumption
<1> QED  BY <1>1, <1>2, <1>3 DEF IInv

(* The step of a live run that is alone: the other runs are not live.      *)
LEMMA AdvanceHolds ==
    ASSUME TypeOK, IInv, ~overlap, NEW p \in Procs, Advance(p)
    PROVE  Surrounded' /\ WritesUnderOwnClaim' /\ CompleteIsOneRun'
<1> USE DEF IInv
<1>1. /\ Surroundings(p) /\ WritesUnderOwnClaim /\ ~overlap'
      /\ \A q \in Procs \ {p} : at[q] \in {"idle", "done", "refused", "stopped"}
  <2>1. Live(p)
    BY DEF Advance, Look, RemoveEntry, MakeTemp, Cleaned, Claim, WriteOutput,
           CollectFiles, Finalize, Replace, Live
  <2>2. overlap' = overlap
    BY DEF Advance, Look, RemoveEntry, MakeTemp, Claim, WriteOutput,
           CollectFiles, Finalize, Replace
  <2> QED  BY <2>1, <2>2 DEF Surrounded, Alone, Live
(* So what holds of every run holds if it does of p.                       *)
<1>2. ASSUME \A q \in Procs \ {p} : at'[q] = at[q],
             Surroundings(p)',
             at'[p] \in {"write", "finalize", "finalize_rename"} =>
                /\ manifest' # NoManifest /\ manifest'.by = p
                /\ manifest'.phase = "in_progress" /\ manifest'.sound
                /\ manifest'.command = cmd[p],
             cmd' = cmd
      PROVE  Surrounded' /\ WritesUnderOwnClaim'
  <2>1. \A q \in Procs \ {p} : at'[q] \in {"idle", "done", "refused", "stopped"}
    BY <1>1, <1>2
  <2>2. \A q \in Procs \ {p} : Surroundings(q)'
    BY <2>1 DEF Surroundings
  <2>3. Surrounded'
    BY <1>2, <2>2 DEF Surrounded
  <2>4. WritesUnderOwnClaim'
    BY <1>2, <2>1 DEF WritesUnderOwnClaim
  <2> QED  BY <2>3, <2>4
<1>3. CASE Look(p)
  <2>1. CompleteIsOneRun'
    BY <1>3 DEF Look, CompleteIsOneRun
  <2>2. at' = [at EXCEPT ![p] = at'[p]] /\ at'[p] \in {"clean", "claim", "refused"}
    BY <1>3 DEF Look, TypeOK
  <2>3. Surroundings(p)'
    BY <1>3, <2>2 DEF Look, MayClean, MayClaim, Leftovers, Present, Surroundings, TypeOK
  <2>4. cmd' = cmd /\ \A q \in Procs \ {p} : at'[q] = at[q]
    BY <1>3, <2>2 DEF Look, TypeOK
  <2> QED  BY <1>2, <2>1, <2>2, <2>3, <2>4
<1>4. CASE RemoveEntry(p)
  <2>1. PICK e \in todo[p] :
           \/ /\ e \in Present /\ files' = files \ {e}
              /\ manifest' = IF e = ManifestEntry THEN NoManifest ELSE manifest
              /\ todo' = [todo EXCEPT ![p] = @ \ {e}] /\ UNCHANGED at
           \/ /\ at' = [at EXCEPT ![p] = "stopped"] /\ UNCHANGED <<files, manifest>>
    BY <1>4 DEF RemoveEntry
  <2>2. at[p] = "clean" /\ UNCHANGED <<cmd, listing, overlap>>
    BY <1>4 DEF RemoveEntry
  <2>3. CompleteIsOneRun'
    BY <2>1, <2>2 DEF CompleteIsOneRun
  <2>4. Surroundings(p)'
    BY <1>1, <2>1, <2>2 DEF Surroundings, TypeOK
  <2> QED  BY <1>2, <2>1, <2>2, <2>3, <2>4 DEF TypeOK
<1>5. CASE MakeTemp(p)
  <2>1. /\ files' = files \cup {TempOf(p)}
        /\ UNCHANGED <<manifest, cmd, listing, overlap>>
    BY <1>5 DEF MakeTemp
  <2>2. CASE at[p] \in {"clean", "claim"}
    <3>1. manifest = NoManifest /\ \A f \in files : f.by = User
      BY <1>1, <1>5, <2>2 DEF MakeTemp, Cleaned, Surroundings
    <3>2. at' = [at EXCEPT ![p] = "claim_rename"]
      BY <1>5, <2>2 DEF MakeTemp
    <3>3. Surroundings(p)' /\ CompleteIsOneRun'
      BY <2>1, <3>1, <3>2 DEF Surroundings, CompleteIsOneRun, TypeOK
    <3> QED  BY <1>2, <2>1, <3>2, <3>3 DEF TypeOK
  <2>3. CASE at[p] = "finalize"
    <3>1. at' = [at EXCEPT ![p] = "finalize_rename"]
      BY <1>5, <2>3 DEF MakeTemp, Cleaned
    <3>2. /\ manifest # NoManifest /\ manifest.by = p
          /\ manifest.phase = "in_progress" /\ manifest.sound
          /\ manifest.command = cmd[p]
      BY <1>1, <2>3 DEF WritesUnderOwnClaim
    <3>3. Surroundings(p)'
      BY <1>1, <2>1, <2>3, <3>1 DEF Surroundings, TypeOK
    <3>4. CompleteIsOneRun'
      BY <2>1, <3>2 DEF CompleteIsOneRun
    <3> QED  BY <1>2, <2>1, <3>1, <3>2, <3>3, <3>4 DEF TypeOK
  <2> QED  BY <1>5, <2>2, <2>3 DEF MakeTemp, Cleaned
<1>6. CASE Claim(p)
  <2> DEFINE claim == [command |-> cmd[p], phase |-> "in_progress", files |-> {},
                       sound |-> TRUE, by |-> p]
  <2>1. claim \in Manifest /\ claim # NoManifest
    <3>1. cmd[p] \in Commands
      BY DEF TypeOK
    <3> QED  BY <3>1, ManifestType, NamesAssumption
  <2>2. at[p] = "claim_rename" /\ UNCHANGED <<cmd, todo, listing>>
    BY <1>6 DEF Claim, Replace
  <2>3. CASE TempOf(p) \in files
    <3>1. /\ manifest' = claim /\ files' = files \ {TempOf(p)}
          /\ at' = [at EXCEPT ![p] = "write"]
      BY <1>6, <2>3 DEF Claim, Replace
    <3>2. manifest'.by = p /\ manifest'.phase = "in_progress" /\ manifest'.sound
          /\ manifest'.command = cmd[p]
      BY <3>1
    <3>3. Surroundings(p)'
      BY <1>1, <2>2, <3>1 DEF Surroundings, TypeOK
    <3>4. CompleteIsOneRun'
      BY <3>2 DEF CompleteIsOneRun
    <3> QED  BY <1>2, <2>1, <2>2, <3>1, <3>2, <3>3, <3>4 DEF TypeOK
  <2>4. CASE TempOf(p) \notin files
    <3>1. UNCHANGED <<files, manifest>> /\ at' = [at EXCEPT ![p] = "stopped"]
      BY <1>6, <2>4 DEF Claim, Replace
    <3>2. Surroundings(p)' /\ CompleteIsOneRun'
      BY <3>1 DEF Surroundings, CompleteIsOneRun, TypeOK
    <3> QED  BY <1>2, <2>2, <3>1, <3>2 DEF TypeOK
  <2> QED  BY <2>3, <2>4
<1>7. CASE WriteOutput(p)
  <2>1. PICK n \in Outputs :
           files' = {f \in files : f.name # n} \cup {[name |-> n, by |-> p]}
    BY <1>7 DEF WriteOutput
  <2>2. at[p] = "write" /\ UNCHANGED <<manifest, at, cmd, todo, listing>>
    BY <1>7 DEF WriteOutput
  <2>3. manifest # NoManifest /\ manifest.by = p /\ manifest.phase = "in_progress"
        /\ manifest.sound /\ manifest.command = cmd[p]
    BY <1>1, <2>2 DEF WritesUnderOwnClaim
  <2>4. Surroundings(p)'
    BY <1>1, <2>1, <2>2 DEF Surroundings
  <2>5. CompleteIsOneRun'
    BY <2>2, <2>3 DEF CompleteIsOneRun
  <2> QED  BY <1>2, <2>2, <2>3, <2>4, <2>5
<1>8. CASE CollectFiles(p)
  <2>1. /\ at[p] = "write" /\ at' = [at EXCEPT ![p] = "finalize"]
        /\ listing' = [listing EXCEPT ![p] = {f.name : f \in files}]
        /\ UNCHANGED <<files, manifest, cmd, todo>>
    BY <1>8 DEF CollectFiles
  <2>2. manifest # NoManifest /\ manifest.by = p /\ manifest.phase = "in_progress"
        /\ manifest.sound /\ manifest.command = cmd[p]
    BY <1>1, <2>1 DEF WritesUnderOwnClaim
  <2>3. \A f \in files : f.by = User \/ (f.by = p /\ f.name \in Outputs)
    BY <1>1, <2>1 DEF Surroundings
  <2>4. Temp \notin {f.name : f \in files}
    BY <2>3, NamesAssumption DEF TempsAreRuns
  <2>5. Surroundings(p)'
    BY <2>1, <2>3, <2>4 DEF Surroundings, TypeOK
  <2>6. CompleteIsOneRun'
    BY <2>1, <2>2 DEF CompleteIsOneRun
  <2> QED  BY <1>2, <2>1, <2>2, <2>5, <2>6 DEF TypeOK
<1>9. CASE Finalize(p)
  <2>1. at[p] = "finalize_rename" /\ UNCHANGED <<cmd, todo>>
    BY <1>9 DEF Finalize, Replace
  <2>2. CASE TempOf(p) \in files
    <3>1. /\ manifest' = [command |-> cmd[p], phase |-> "complete",
                          files |-> listing[p], sound |-> TRUE, by |-> p]
          /\ files' = files \ {TempOf(p)}
          /\ at' = [at EXCEPT ![p] = "done"]
      BY <1>9, <2>2 DEF Finalize, Replace
    <3>2. manifest'.files = listing[p] /\ manifest'.by = p
      BY <3>1
    <3>3. CompleteIsOneRun'
      BY <1>1, <2>1, <3>1, <3>2 DEF CompleteIsOneRun, Surroundings
    <3>4. Surroundings(p)'
      BY <3>1 DEF Surroundings, TypeOK
    <3> QED  BY <1>2, <2>1, <3>1, <3>3, <3>4 DEF TypeOK
  <2>3. CASE TempOf(p) \notin files
    <3>1. UNCHANGED <<files, manifest>> /\ at' = [at EXCEPT ![p] = "stopped"]
      BY <1>9, <2>3 DEF Finalize, Replace
    <3>2. Surroundings(p)' /\ CompleteIsOneRun'
      BY <3>1 DEF Surroundings, CompleteIsOneRun, TypeOK
    <3> QED  BY <1>2, <2>1, <3>1, <3>2 DEF TypeOK
  <2> QED  BY <2>2, <2>3
<1> QED  BY <1>3, <1>4, <1>5, <1>6, <1>7, <1>8, <1>9 DEF Advance

LEMMA NextHolds == TypeOK /\ IInv /\ [Next]_vars => IInv'
<1> SUFFICES ASSUME TypeOK, IInv, [Next]_vars PROVE IInv'
  OBVIOUS
<1>1. Alone' /\ TempsAreRuns'
  BY AloneByNext, TempsByNext DEF IInv
<1>2. overlap => overlap'
  BY DEF Next, Begin, Advance, Look, RemoveEntry, MakeTemp, Claim, WriteOutput,
         CollectFiles, Finalize, Replace, Stop, UserDrops, vars, TypeOK
<1>3. SUFFICES ASSUME ~overlap, ~overlap'
      PROVE  Surrounded' /\ WritesUnderOwnClaim' /\ CompleteIsOneRun'
  BY <1>1, <1>2 DEF IInv, Surrounded, WritesUnderOwnClaim, CompleteIsOneRun
<1>4. Surrounded /\ WritesUnderOwnClaim /\ CompleteIsOneRun
  BY DEF IInv
<1>5. ASSUME NEW p \in Procs, Begin(p)
      PROVE  Surrounded' /\ WritesUnderOwnClaim' /\ CompleteIsOneRun'
  <2>1. /\ at' = [at EXCEPT ![p] = "look"]
        /\ UNCHANGED <<files, manifest, cmd, todo, listing>>
    BY <1>5 DEF Begin
  <2>2. \A q \in Procs : at'[q] = at[q] \/ at'[q] = "look"
    BY <2>1 DEF TypeOK
  <2>3. Surrounded'
    BY <1>3, <1>4, <2>1, <2>2 DEF Surrounded, Surroundings
  <2> QED  BY <1>3, <1>4, <2>1, <2>2, <2>3 DEF WritesUnderOwnClaim, CompleteIsOneRun
<1>6. ASSUME NEW p \in Procs, Advance(p)
      PROVE  Surrounded' /\ WritesUnderOwnClaim' /\ CompleteIsOneRun'
  BY <1>3, <1>6, AdvanceHolds
<1>7. ASSUME NEW p \in Procs, Stop(p)
      PROVE  Surrounded' /\ WritesUnderOwnClaim' /\ CompleteIsOneRun'
  <2>1. /\ \A q \in Procs \ {p} : /\ at'[q] = at[q] /\ todo'[q] = todo[q]
                                  /\ listing'[q] = listing[q]
        /\ at'[p] = "stopped" /\ UNCHANGED <<files, manifest, cmd>>
    BY <1>7 DEF Stop, TypeOK
  <2>2. Surrounded'
    BY <1>3, <1>4, <2>1 DEF Surrounded, Surroundings
  <2> QED  BY <1>3, <1>4, <2>1, <2>2 DEF WritesUnderOwnClaim, CompleteIsOneRun
<1>8. CASE UserDrops
  <2>1. PICK n \in UserNames : files' = files \cup {[name |-> n, by |-> User]}
    BY <1>8 DEF UserDrops
  <2>2. UNCHANGED <<manifest, at, cmd, todo, listing, overlap>>
    BY <1>8 DEF UserDrops
  <2>3. Surrounded'
    BY <1>3, <1>4, <2>1, <2>2 DEF Surrounded, Surroundings
  <2>4. WritesUnderOwnClaim'
    BY <1>4, <2>2 DEF WritesUnderOwnClaim
  <2>5. CompleteIsOneRun'
    BY <1>3, <1>4, <2>1, <2>2 DEF CompleteIsOneRun
  <2> QED  BY <2>3, <2>4, <2>5
<1>9. CASE UNCHANGED vars
  BY <1>4, <1>9 DEF vars, Surrounded, Surroundings, WritesUnderOwnClaim, CompleteIsOneRun
<1> QED  BY <1>5, <1>6, <1>7, <1>8, <1>9 DEF Next

LEMMA Inductive == Spec => []IInv
BY TypeCorrect, InitHolds, NextHolds, PTL DEF Spec

(* Runs that do not overlap write under their own in-progress manifest.    *)
THEOREM WritesAreClaimed == Spec => []WritesUnderOwnClaim
<1>1. IInv => WritesUnderOwnClaim
  BY DEF IInv
<1> QED  BY Inductive, <1>1, PTL

(* Under runs that do not overlap, wherever they stop, a complete manifest *)
(* describes one run, and nothing of another is in the directory but what a*)
(* user has dropped.                                                       *)
THEOREM CompleteMeansOneRun == Spec => []CompleteIsOneRun
<1>1. IInv => CompleteIsOneRun
  BY DEF IInv
<1> QED  BY Inductive, <1>1, PTL
=============================================================================
