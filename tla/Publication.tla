----------------------------- MODULE Publication -----------------------------
(***************************************************************************)
(* `allie verify` writing its reporters (src/src/consumer.rs), and `allie  *)
(* publication` projecting them to a public directory                      *)
(* (src/src/publication.rs).  One verification and one publication at a    *)
(* time, but the two interleaved write by write: a CI host publishes       *)
(* whatever the verification came to, and an operator may start either     *)
(* again, also over what a crash left.  Neither looks whether the other    *)
(* runs, and the publication does not read the manifest of the             *)
(* verification's directory.                                               *)
(*                                                                         *)
(* A file is written in place: it is torn until the write ends.  A         *)
(* manifest is replaced in one step (OutDir has the temporary file).       *)
(***************************************************************************)
EXTENDS Naturals, Sequences, Functions

CONSTANTS
    MaxRuns,  \* bound: the runs of each command
    Nothing,  \* no file, no outcome, no word
    Torn      \* a file whose writing has begun

(* The two directories, each named for the command that owns it.           *)
Dirs == {"verify", "publication"}

ASSUME RunsAssumption == MaxRuns \in [Dirs -> Nat]

ASSUME NoFileAssumption == Nothing # Torn

VARIABLES
    files,     \* the content of each file
    manifest,  \* the phase that allie-run-manifest.json tells
    at,        \* where each command is
    todo,      \* the entries a cleaning has still to remove
    left,      \* the files a command has still to write, in order
    outcome,   \* what the pipeline of the verification came to
    seen,      \* the report that the publication has read
    word,      \* how the last run of a command ended, Nothing when it died
    runs,      \* how many runs of each command there have been
    issued     \* history: the reports that were ever written in full

vars == <<files, manifest, at, todo, left, outcome, seen, word, runs, issued>>

----------------------------------------------------------------------------
(* The verification *)

(* The receipts of the pipeline.  The release blocks what did not pass.    *)
Outcomes == {o \in [run : {"success", "blocking", "infrastructure"},
                    release : {"approved", "needs_review", "blocked"}] :
                o.run # "success" => o.release = "blocked"}

ReleaseExit(o) == IF o.release = "blocked" THEN 1 ELSE 0

(* A slip: the release has the last word.                                  *)
ReleaseExitOnly(o) == ReleaseExit(o)

ExitOf(o) == IF o.run = "infrastructure" THEN 2 ELSE ReleaseExit(o)

StatusOf(o) == IF ExitOf(o) = 2 THEN "failed" ELSE o.release

Statuses == {"approved", "needs_review", "blocked", "failed"}

(* allie-report.json, as the publication reads it.  `by` is generated_at.  *)
Report == [by : 0..MaxRuns["verify"], status : Statuses, exit : 0..2,
           release : {"approved", "needs_review", "blocked"},
           run : {"pass", "fail", "error"}]

(* A slip: the exit class under its own name.                              *)
RawStatus(run) == run

PacketStatus(run) ==
    CASE run = "success" -> "pass" [] run = "blocking" -> "fail"
      [] run = "infrastructure" -> "error"

ReportOf(o, n) == [by |-> n, status |-> StatusOf(o), exit |-> ExitOf(o),
                   release |-> o.release, run |-> PacketStatus(o.run)]

(* What the other reporters say: the status, and its tone in their terms.  *)
Tones == {"pass", "review", "fail", "none", "failure", "error",
          "warning", "note"}

Banner(status) ==
    CASE status \in {"blocked", "failed"} -> "fail"
      [] status = "approved"              -> "pass"
      [] OTHER                            -> "review"

JUnit(exit) ==
    CASE exit = 0 -> "none" [] exit = 1 -> "failure" [] OTHER -> "error"

(* verify_sarif: no result at all for an approval.                         *)
Sarif(status, exit) ==
    CASE status = "approved"                               -> "none"
      [] status = "needs_review" /\ exit = 0               -> "warning"
      [] status \notin {"approved", "needs_review"} /\ exit = 0 -> "note"
      [] status # "approved" /\ exit # 0                   -> "error"

Told(n, r) ==
    [by |-> r.by, status |-> r.status, tone |->
        CASE n = "markdown" -> "note"
          [] n = "html"     -> Banner(r.status)
          [] n = "junit"    -> JUnit(r.exit)
          [] n = "sarif"    -> Sarif(r.status, r.exit)]

Reporters == <<"report", "compliance", "markdown", "html", "junit", "sarif">>

----------------------------------------------------------------------------
(* The publication *)

Publics == <<"summary", "summary_md", "receipt">>

Refusal == [status |-> "refused"]

(* The receipt has the digests of the two summaries as they are on disk.   *)
Receipt(fs) == [status |-> "ready", json |-> fs["summary"], md |-> fs["summary_md"]]

----------------------------------------------------------------------------
NamesOf(d) == Range(IF d = "verify" THEN Reporters ELSE Publics)

Names == NamesOf("verify") \cup NamesOf("publication")

Mark == "allie-run-manifest.json"

(* What a file holds once it is written.                                   *)
ContentOf(n) ==
    CASE n = "report"     -> ReportOf(outcome, runs["verify"])
      [] n = "compliance" -> runs["verify"]
      [] n \in {"markdown", "html", "junit", "sarif"} ->
            Told(n, ReportOf(outcome, runs["verify"]))
      [] n = "summary"    -> seen
      [] n = "summary_md" -> seen.status
      [] n = "receipt"    -> IF seen = Nothing THEN Refusal ELSE Receipt(files)

Whole(n) == files[n] \notin {Nothing, Torn}

Points == {"idle", "clean", "claim", "work", "write", "finalize"}

Words == {"ok", "refused", "no_source", "turned_away"}

TypeOfFile(n) ==
    CASE n \in {"report", "summary"} -> Report
      [] n = "compliance"           -> Nat
      [] n = "summary_md"           -> Statuses
      [] n = "receipt" -> [status : {"ready"}, json : Report, md : Statuses]
                          \cup {Refusal}
      [] OTHER -> [by : Nat, status : Statuses, tone : Tones]

ASSUME ContentAssumption ==
    /\ \A n \in Names : TypeOfFile(n) \cap {Nothing, Torn} = {}
    /\ Nothing \notin Report \cup Words

TypeOK ==
    /\ DOMAIN files = Names
    /\ \A n \in Names : Whole(n) => files[n] \in TypeOfFile(n)
    /\ manifest \in [Dirs -> {"none", "in_progress", "complete"}]
    /\ at \in [Dirs -> Points]
    /\ \A d \in Dirs : todo[d] \subseteq NamesOf(d) \cup {Mark}
    /\ \A d \in Dirs : Range(left[d]) \subseteq NamesOf(d)
    /\ outcome \in Outcomes \cup {Nothing}
    /\ seen \in Report \cup {Nothing}
    /\ word \in [Dirs -> Words \cup {Nothing}]
    /\ runs \in [Dirs -> Nat] /\ \A d \in Dirs : runs[d] <= MaxRuns[d]
    /\ issued \subseteq Report

Init ==
    /\ files = [n \in Names |-> Nothing]
    /\ manifest = [d \in Dirs |-> "none"]
    /\ at = [d \in Dirs |-> "idle"]
    /\ todo = [d \in Dirs |-> {}]
    /\ left = [d \in Dirs |-> <<>>]
    /\ outcome = Nothing /\ seen = Nothing
    /\ word = [d \in Dirs |-> Nothing]
    /\ runs = [d \in Dirs |-> 0]
    /\ issued = {}

----------------------------------------------------------------------------
(* prepare_out_dir, for either directory *)

Present(d) == {n \in NamesOf(d) : files[n] # Nothing}
              \cup (IF manifest[d] = "none" THEN {} ELSE {Mark})

(* A slip: a directory of one's own is used as it is.                      *)
KeepEntries(d) == {}

Leftovers(d) == Present(d)

(* A command starts: it is turned away, or cleans, or claims.              *)
Begin(d) ==
    /\ at[d] = "idle" /\ runs[d] < MaxRuns[d]
    /\ runs' = [runs EXCEPT ![d] = @ + 1]
    /\ \/ /\ manifest[d] = "none" /\ Present(d) # {}
          /\ word' = [word EXCEPT ![d] = "turned_away"]
          /\ UNCHANGED <<at, todo>>
       \/ /\ manifest[d] = "none" => Present(d) = {}
          /\ word' = [word EXCEPT ![d] = Nothing]
          /\ at' = [at EXCEPT ![d] = "clean"]
          /\ todo' = [todo EXCEPT ![d] = Leftovers(d)]
    /\ UNCHANGED <<files, manifest, left, outcome, seen, issued>>

RemoveEntry(d) ==
    /\ at[d] = "clean"
    /\ \E e \in todo[d] :
          /\ todo' = [todo EXCEPT ![d] = @ \ {e}]
          /\ IF e = Mark
             THEN manifest' = [manifest EXCEPT ![d] = "none"] /\ UNCHANGED files
             ELSE files' = [files EXCEPT ![e] = Nothing] /\ UNCHANGED manifest
    /\ UNCHANGED <<at, left, outcome, seen, word, runs, issued>>

Claim(d) ==
    /\ at[d] = "clean" /\ todo[d] = {}
    /\ manifest' = [manifest EXCEPT ![d] = "in_progress"]
    /\ at' = [at EXCEPT ![d] = "work"]
    /\ UNCHANGED <<files, todo, left, outcome, seen, word, runs, issued>>

----------------------------------------------------------------------------
(* What each command does once the directory is its own *)

(* run_verify_pipeline.  Of its outputs the reporters read the receipts.   *)
RunPipeline ==
    /\ at["verify"] = "work"
    /\ outcome' \in Outcomes
    /\ left' = [left EXCEPT !["verify"] = Reporters]
    /\ at' = [at EXCEPT !["verify"] = "write"]
    /\ UNCHANGED <<files, manifest, todo, seen, word, runs, issued>>

(* `--include`: nothing is read, and the receipt says no.                  *)
Refuse ==
    /\ at["publication"] = "work"
    /\ seen' = Nothing
    /\ left' = [left EXCEPT !["publication"] = <<"receipt">>]
    /\ at' = [at EXCEPT !["publication"] = "write"]
    /\ UNCHANGED <<files, manifest, todo, outcome, word, runs, issued>>

ReadableSource == Whole("report")

(* A slip: what a report does not say is taken at a default.               *)
ReadWithDefaults ==
    /\ at["publication"] = "work" /\ files["report"] # Nothing
    /\ seen' = IF ReadableSource THEN files["report"]
               ELSE [by |-> runs["verify"], status |-> "needs_review", exit |-> 0,
                     release |-> "needs_review", run |-> "pass"]
    /\ left' = [left EXCEPT !["publication"] = Publics]
    /\ at' = [at EXCEPT !["publication"] = "write"]
    /\ UNCHANGED <<files, manifest, todo, outcome, word, runs, issued>>

(* read_verify_summary *)
ReadSource ==
    /\ at["publication"] = "work" /\ ReadableSource
    /\ seen' = files["report"]
    /\ left' = [left EXCEPT !["publication"] = Publics]
    /\ at' = [at EXCEPT !["publication"] = "write"]
    /\ UNCHANGED <<files, manifest, todo, outcome, word, runs, issued>>

(* A missing or torn report is an error, after the cleaning: the directory *)
(* stays in progress, without a receipt.                                   *)
NoSource ==
    /\ at["publication"] = "work" /\ ~ReadableSource
    /\ word' = [word EXCEPT !["publication"] = "no_source"]
    /\ at' = [at EXCEPT !["publication"] = "idle"]
    /\ UNCHANGED <<files, manifest, todo, left, outcome, seen, runs, issued>>

----------------------------------------------------------------------------
(* write_string truncates the file ...                                     *)
StartWrite(d) ==
    /\ at[d] = "write" /\ left[d] # <<>>
    /\ files[Head(left[d])] # Torn
    /\ files' = [files EXCEPT ![Head(left[d])] = Torn]
    /\ UNCHANGED <<manifest, at, todo, left, outcome, seen, word, runs, issued>>

(* ... and fills it.                                                       *)
EndWrite(d) ==
    /\ at[d] = "write" /\ left[d] # <<>>
    /\ files[Head(left[d])] = Torn
    /\ files' = [files EXCEPT ![Head(left[d])] = ContentOf(Head(left[d]))]
    /\ left' = [left EXCEPT ![d] = Tail(@)]
    /\ issued' = IF Head(left[d]) = "report"
                 THEN issued \cup {ContentOf("report")} ELSE issued
    /\ UNCHANGED <<manifest, at, todo, outcome, seen, word, runs>>

(* finalize_out_dir_manifest, and the command's end.                       *)
Finalize(d) ==
    /\ at[d] = "write" /\ left[d] = <<>>
    /\ manifest' = [manifest EXCEPT ![d] = "complete"]
    /\ at' = [at EXCEPT ![d] = "idle"]
    /\ word' = [word EXCEPT ![d] =
            IF d = "publication" /\ seen = Nothing THEN "refused" ELSE "ok"]
    /\ UNCHANGED <<files, todo, left, outcome, seen, runs, issued>>

(* A kill, or an error of the file system or of the pipeline, at any point *)
(* after the directory was found usable.                                   *)
Die(d) ==
    /\ at[d] # "idle"
    /\ at' = [at EXCEPT ![d] = "idle"]
    /\ todo' = [todo EXCEPT ![d] = {}]
    /\ left' = [left EXCEPT ![d] = <<>>]
    /\ UNCHANGED <<files, manifest, outcome, seen, word, runs, issued>>

Next ==
    \/ \E d \in Dirs : Begin(d)
    \/ \E d \in Dirs : RemoveEntry(d)
    \/ \E d \in Dirs : Claim(d)
    \/ RunPipeline \/ Refuse \/ ReadSource \/ NoSource
    \/ \E d \in Dirs : StartWrite(d)
    \/ \E d \in Dirs : EndWrite(d)
    \/ \E d \in Dirs : Finalize(d)
    \/ \E d \in Dirs : Die(d)

Spec == Init /\ [][Next]_vars

----------------------------------------------------------------------------
(* Properties *)

(* A verification that ended has left all its reporters, whole and of its  *)
(* own, and every one of them tells the same of it: the exit code and the  *)
(* status of the report are those that docs/verification.md pairs, and a   *)
(* reader of the page, of the JUnit suite or of the SARIF log alone comes  *)
(* to the decision that the exit code told the host.  What a rerun that    *)
(* died cleaning has left of them is still of that one run.                *)
VerifyTellsOneExit ==
    /\ word["verify"] = "ok" =>
        /\ manifest["verify"] = "complete"
        /\ \A n \in NamesOf("verify") : Whole(n)
        /\ LET r == files["report"]
           IN /\ r.exit = 0 <=> r.status \in {"approved", "needs_review"}
              /\ r.exit = 1 <=> r.status = "blocked"
              /\ r.exit = 2 <=> r.run = "error"
              /\ r.exit = 0 <=> files["html"].tone # "fail"
              /\ r.exit = 0 <=> files["junit"].tone = "none"
              /\ r.exit = 0 <=> files["sarif"].tone # "error"
    /\ manifest["verify"] = "complete" =>
        /\ \A n \in NamesOf("verify") : files[n] # Torn
        /\ \A n, k \in {k \in NamesOf("verify") \ {"compliance"} : Whole(k)} :
              files[n].by = files[k].by /\ files[n].status = files[k].status

(* What a reader sees who takes the three files of the CI example and      *)
(* checks the two summaries against the receipt's digests.                 *)
Shown ==
    IF /\ \A n \in NamesOf("publication") : Whole(n)
       /\ files["receipt"] # Refusal
       /\ files["receipt"].json = files["summary"]
       /\ files["receipt"].md = files["summary_md"]
    THEN files["summary"] ELSE Nothing

(* The public directory implements PublicRecord: under any interleaving of *)
(* the two commands and their deaths it shows a report that a verification *)
(* has written in full or none, and never changes one for another without  *)
(* showing none between.                                                   *)
Record == INSTANCE PublicRecord
            WITH Reports <- Report, shown <- Shown, issued <- issued

IsPublicRecord == Record!Spec

(* A receipt vouches for what lies beside it, at every moment: whichever   *)
(* runs died in the directory, while they wrote or while they cleaned up   *)
(* after others, each summary there is the one whose digest the receipt    *)
(* has, and there is none beside a refusal.                                *)
ReceiptVouches ==
    LET receipt == files["receipt"]
    IN Whole("receipt") =>
        \/ /\ receipt # Refusal
           /\ files["summary"] \in {Nothing, receipt.json}
           /\ files["summary_md"] \in {Nothing, receipt.md}
        \/ /\ receipt = Refusal
           /\ files["summary"] = Nothing /\ files["summary_md"] = Nothing

(* What the publication's own word is worth to the host that uploads on    *)
(* it: after `ok` the directory is complete and shows a report; after a    *)
(* refusal or an unreadable source it shows none, not even an earlier one; *)
(* and a refusal leaves nothing but its receipt.  What a run that died has *)
(* left has no word, and still no receipt that does not vouch for it.      *)
WordMatchesDirectory ==
    /\ ReceiptVouches
    /\ at["publication"] = "idle" => LET told == word["publication"] IN
        /\ told = "ok" => manifest["publication"] = "complete" /\ Shown # Nothing
        /\ told \in {"refused", "no_source"} => Shown = Nothing
        /\ told = "refused" =>
              /\ manifest["publication"] = "complete"
              /\ Present("publication") = {"receipt", Mark}
        /\ told = "no_source" => Present("publication") = {Mark}
=============================================================================
