--------------------------- MODULE PublicationProofs ---------------------------
(* For any number of runs of either command: the types of Publication,     *)
(* that a verification's reporters tell one exit, that the publication's   *)
(* word is that of its directory, and that the public directory implements *)
(* PublicRecord.                                                           *)
EXTENDS Publication, TLAPS

----------------------------------------------------------------------------
(* The names of the files, and what a command may have left to write *)

LEMMA NamesAre ==
    /\ NamesOf("verify") = {"report", "compliance", "markdown", "html", "junit", "sarif"}
    /\ NamesOf("publication") = {"summary", "summary_md", "receipt"}
    /\ Names = NamesOf("verify") \cup NamesOf("publication")
    /\ Mark \notin Names
<1>1. DOMAIN Reporters = 1 .. 6 /\ DOMAIN Publics = 1 .. 3
  BY DEF Reporters, Publics
<1>2. NamesOf("publication") = {Publics[1], Publics[2], Publics[3]}
  BY <1>1 DEF NamesOf, Range
<1>3. NamesOf("verify") = {Reporters[1], Reporters[2], Reporters[3], Reporters[4],
                           Reporters[5], Reporters[6]}
  BY <1>1 DEF NamesOf, Range
<1>4. NamesOf("publication") = {"summary", "summary_md", "receipt"}
  BY <1>2 DEF Publics
<1>5. NamesOf("verify") = {"report", "compliance", "markdown", "html", "junit", "sarif"}
  BY <1>3 DEF Reporters
<1> QED  BY <1>4, <1>5 DEF Names, Mark

(* The tails of the two lists, and of a refusal's.                         *)
Rests ==
    [verify      |-> {Reporters,
                      <<"compliance", "markdown", "html", "junit", "sarif">>,
                      <<"markdown", "html", "junit", "sarif">>,
                      <<"html", "junit", "sarif">>,
                      <<"junit", "sarif">>, <<"sarif">>, <<>>},
     publication |-> {Publics, <<"summary_md", "receipt">>, <<"receipt">>, <<>>}]

LEMMA RangeOfRests ==
    /\ Range(<<>>) = {}
    /\ \A a : Range(<<a>>) = {a}
    /\ \A a, b : Range(<<a, b>>) = {a, b}
    /\ \A a, b, c : Range(<<a, b, c>>) = {a, b, c}
    /\ \A a, b, c, d : Range(<<a, b, c, d>>) = {a, b, c, d}
    /\ \A a, b, c, d, e : Range(<<a, b, c, d, e>>) = {a, b, c, d, e}
    /\ \A a, b, c, d, e, f : Range(<<a, b, c, d, e, f>>) = {a, b, c, d, e, f}
<1>1. Range(<<>>) = {}
  BY DEF Range
<1>2. \A a : Range(<<a>>) = {a}
  BY DEF Range
<1>3. \A a, b : Range(<<a, b>>) = {a, b}
  BY DEF Range
<1>4. \A a, b, c : Range(<<a, b, c>>) = {a, b, c}
  BY DEF Range
<1>5. \A a, b, c, d : Range(<<a, b, c, d>>) = {a, b, c, d}
  BY DEF Range
<1>6. \A a, b, c, d, e : Range(<<a, b, c, d, e>>) = {a, b, c, d, e}
  BY DEF Range
<1>7. \A a, b, c, d, e, f : Range(<<a, b, c, d, e, f>>) = {a, b, c, d, e, f}
  BY DEF Range
<1> QED  BY <1>1, <1>2, <1>3, <1>4, <1>5, <1>6, <1>7

LEMMA RestShrinks ==
    ASSUME NEW d \in Dirs, NEW rest \in Rests[d]
    PROVE  /\ Range(rest) \subseteq NamesOf(d)
           /\ rest # <<>> => /\ Tail(rest) \in Rests[d]
                             /\ Head(rest) \in Range(rest)
                             /\ Range(Tail(rest)) = Range(rest) \ {Head(rest)}
<1>1. CASE d = "verify"
  <2>1. CASE rest = Reporters
    BY <1>1, <2>1, RangeOfRests, NamesAre DEF Rests, Reporters
  <2>2. CASE rest = <<"compliance", "markdown", "html", "junit", "sarif">>
    BY <1>1, <2>2, RangeOfRests, NamesAre DEF Rests
  <2>3. CASE rest = <<"markdown", "html", "junit", "sarif">>
    BY <1>1, <2>3, RangeOfRests, NamesAre DEF Rests
  <2>4. CASE rest = <<"html", "junit", "sarif">>
    BY <1>1, <2>4, RangeOfRests, NamesAre DEF Rests
  <2>5. CASE rest = <<"junit", "sarif">>
    BY <1>1, <2>5, RangeOfRests, NamesAre DEF Rests
  <2>6. CASE rest = <<"sarif">>
    BY <1>1, <2>6, RangeOfRests, NamesAre DEF Rests
  <2>7. CASE rest = <<>>
    BY <1>1, <2>7, RangeOfRests, NamesAre DEF Rests
  <2> QED  BY <1>1, <2>1, <2>2, <2>3, <2>4, <2>5, <2>6, <2>7 DEF Rests
<1>2. CASE d = "publication"
  <2>1. CASE rest = Publics
    BY <1>2, <2>1, RangeOfRests, NamesAre DEF Rests, Publics
  <2>2. CASE rest = <<"summary_md", "receipt">>
    BY <1>2, <2>2, RangeOfRests, NamesAre DEF Rests
  <2>3. CASE rest = <<"receipt">>
    BY <1>2, <2>3, RangeOfRests, NamesAre DEF Rests
  <2>4. CASE rest = <<>>
    BY <1>2, <2>4, RangeOfRests, NamesAre DEF Rests
  <2> QED  BY <1>2, <2>1, <2>2, <2>3, <2>4 DEF Rests
<1> QED  BY <1>1, <1>2 DEF Dirs

----------------------------------------------------------------------------
(* What a verification tells *)

Said(n, r) ==
    CASE n = "report"     -> r
      [] n = "compliance" -> r.by
      [] n \in {"markdown", "html", "junit", "sarif"} -> Told(n, r)

(* The reports that a pipeline can come to.                                *)
Tellable == {ReportOf(o, k) : o \in Outcomes, k \in 0 .. MaxRuns["verify"]}

LEMMA OutcomesAre ==
    ASSUME NEW o \in Outcomes
    PROVE  /\ o.run \in {"success", "blocking", "infrastructure"}
           /\ o.release \in {"approved", "needs_review", "blocked"}
           /\ o.run # "success" => o.release = "blocked"
BY DEF Outcomes

(* The pairs of exit and status of docs/verification.md, and the tones.    *)
LEMMA TellableAgrees ==
    ASSUME NEW r \in Tellable
    PROVE  /\ r \in Report
           /\ r.exit = 0 <=> r.status \in {"approved", "needs_review"}
           /\ r.exit = 1 <=> r.status = "blocked"
           /\ r.exit = 2 <=> r.run = "error"
           /\ r.exit = 0 <=> Banner(r.status) # "fail"
           /\ r.exit = 0 <=> JUnit(r.exit) = "none"
           /\ r.exit = 0 <=> Sarif(r.status, r.exit) # "error"
           /\ Banner(r.status) \in Tones /\ JUnit(r.exit) \in Tones
           /\ Sarif(r.status, r.exit) \in Tones
<1>1. PICK o \in Outcomes, k \in 0 .. MaxRuns["verify"] : r = ReportOf(o, k)
  BY DEF Tellable
<1>2. /\ o.run \in {"success", "blocking", "infrastructure"}
      /\ o.release \in {"approved", "needs_review", "blocked"}
      /\ o.run # "success" => o.release = "blocked"
  BY OutcomesAre
<1>3. /\ r.by = k /\ r.status = StatusOf(o) /\ r.exit = ExitOf(o)
      /\ r.release = o.release /\ r.run = PacketStatus(o.run)
      /\ r = [by |-> k, status |-> StatusOf(o), exit |-> ExitOf(o),
              release |-> o.release, run |-> PacketStatus(o.run)]
  BY <1>1 DEF ReportOf
<1>4. \/ o.run = "infrastructure" /\ ExitOf(o) = 2 /\ StatusOf(o) = "failed"
      \/ o.run # "infrastructure" /\ o.release = "blocked" /\ ExitOf(o) = 1
            /\ StatusOf(o) = "blocked"
      \/ o.run = "success" /\ o.release \in {"approved", "needs_review"}
            /\ ExitOf(o) = 0 /\ StatusOf(o) = o.release
  BY <1>2 DEF ExitOf, StatusOf, ReleaseExit
<1>5. PacketStatus(o.run) \in {"pass", "fail", "error"}
      /\ (PacketStatus(o.run) = "error" <=> o.run = "infrastructure")
  BY <1>2 DEF PacketStatus
<1>6. r \in Report
  BY <1>2, <1>3, <1>4, <1>5 DEF Report, Statuses
<1>7. /\ r.exit = 0 <=> r.status \in {"approved", "needs_review"}
      /\ r.exit = 1 <=> r.status = "blocked"
      /\ r.exit = 2 <=> r.run = "error"
      /\ \/ r.exit = 0 /\ r.status \in {"approved", "needs_review"}
         \/ r.exit = 1 /\ r.status = "blocked"
         \/ r.exit = 2 /\ r.status = "failed"
  BY <1>3, <1>4, <1>5
<1>8. /\ r.exit = 0 <=> Banner(r.status) # "fail"
      /\ Banner(r.status) \in Tones
  BY <1>7 DEF Banner, Tones
<1>9. /\ r.exit = 0 <=> JUnit(r.exit) = "none"
      /\ JUnit(r.exit) \in Tones
  BY <1>7 DEF JUnit, Tones
<1>10. /\ r.exit = 0 <=> Sarif(r.status, r.exit) # "error"
       /\ Sarif(r.status, r.exit) \in Tones
  <2>1. CASE r.status = "approved"
    BY <1>7, <2>1 DEF Sarif, Tones
  <2>2. CASE r.status = "needs_review"
    BY <1>7, <2>2 DEF Sarif, Tones
  <2>3. CASE r.status \in {"blocked", "failed"}
    BY <1>7, <2>3 DEF Sarif, Tones
  <2> QED  BY <1>7, <2>1, <2>2, <2>3
<1> QED  BY <1>6, <1>7, <1>8, <1>9, <1>10

LEMMA SaidType ==
    ASSUME NEW r \in Tellable, NEW n \in NamesOf("verify")
    PROVE  /\ Said(n, r) \in TypeOfFile(n)
           /\ n # "compliance" => Said(n, r).by = r.by /\ Said(n, r).status = r.status
           /\ n = "html" => Said(n, r).tone = Banner(r.status)
           /\ n = "junit" => Said(n, r).tone = JUnit(r.exit)
           /\ n = "sarif" => Said(n, r).tone = Sarif(r.status, r.exit)
<1>1. r \in Report /\ r.by \in Nat /\ r.status \in Statuses
  BY TellableAgrees, RunsAssumption DEF Report, Dirs
<1>2. CASE n = "report"
  BY <1>1, <1>2 DEF Said, TypeOfFile
<1>3. CASE n = "compliance"
  BY <1>1, <1>3 DEF Said, TypeOfFile
<1>4. CASE n = "markdown"
  BY <1>1, <1>4 DEF Said, Told, TypeOfFile, Tones
<1>5. CASE n = "html"
  BY <1>1, <1>5, TellableAgrees DEF Said, Told, TypeOfFile
<1>6. CASE n = "junit"
  BY <1>1, <1>6, TellableAgrees DEF Said, Told, TypeOfFile
<1>7. CASE n = "sarif"
  BY <1>1, <1>7, TellableAgrees DEF Said, Told, TypeOfFile
<1> QED  BY <1>2, <1>3, <1>4, <1>5, <1>6, <1>7, NamesAre

LEMMA ContentIsSaid ==
    ASSUME NEW n \in NamesOf("verify")
    PROVE  ContentOf(n) = Said(n, ReportOf(outcome, runs["verify"]))
<1>1. ReportOf(outcome, runs["verify"]).by = runs["verify"]
  BY DEF ReportOf
<1> QED  BY <1>1, NamesAre DEF ContentOf, Said

----------------------------------------------------------------------------
(* The inductive invariant *)

Empty(d) == \A n \in NamesOf(d) : files[n] = Nothing

(* What the current run of a command writes.                               *)
Due(d) == IF d = "publication" /\ seen = Nothing THEN {"receipt"} ELSE NamesOf(d)

(* A file that is not due is not there, a written one holds what the run   *)
(* knows, and of those left only the next may be torn.                     *)
Written(d) ==
    /\ Range(left[d]) \subseteq Due(d)
    /\ \A n \in NamesOf(d) :
          /\ n \notin Due(d) => files[n] = Nothing
          /\ n \in Due(d) \ Range(left[d]) => files[n] = ContentOf(n)
          /\ n \in Range(left[d]) =>
                \/ files[n] = Nothing
                \/ files[n] = Torn /\ left[d] # <<>> /\ n = Head(left[d])

Place(d) ==
    /\ at[d] # "claim"
    /\ left[d] \in Rests[d]
    /\ at[d] # "write" => left[d] = <<>>
    /\ at[d] = "clean" => Present(d) \subseteq todo[d]
    /\ at[d] = "work" => Empty(d)
    /\ at[d] \in {"work", "write"} => manifest[d] = "in_progress"
    /\ at[d] = "write" => Written(d)

(* A complete directory is what one report says, or what a cleaning has    *)
(* left of it.                                                             *)
VerifyHolds ==
    /\ Place("verify")
    /\ at["verify"] = "write" => outcome \in Outcomes
    /\ manifest["verify"] = "complete" =>
          \E r \in Tellable : \A n \in NamesOf("verify") : files[n] \in {Nothing, Said(n, r)}
    /\ word["verify"] = "ok" => /\ at["verify"] = "idle" /\ manifest["verify"] = "complete"
                                /\ \A n \in NamesOf("verify") : Whole(n)
    /\ Whole("report") => files["report"] \in issued

PublicHolds ==
    /\ Place("publication")
    /\ at["publication"] = "write" /\ seen # Nothing => seen \in issued
    /\ word["publication"] = "ok" =>
          /\ at["publication"] = "idle" /\ manifest["publication"] = "complete"
          /\ \A n \in NamesOf("publication") : Whole(n)
          /\ files["receipt"] = Receipt(files)
    /\ word["publication"] = "refused" =>
          /\ at["publication"] = "idle" /\ manifest["publication"] = "complete"
          /\ files["receipt"] = Refusal
          /\ files["summary"] = Nothing /\ files["summary_md"] = Nothing
    /\ word["publication"] = "no_source" =>
          /\ at["publication"] = "idle" /\ manifest["publication"] = "in_progress"
          /\ Empty("publication")
    /\ Whole("summary") => files["summary"] \in issued
    /\ ReceiptVouches

Types == TypeOK /\ DOMAIN todo = Dirs /\ DOMAIN left = Dirs

IInv == Types /\ VerifyHolds /\ PublicHolds

(* The steps of either command.                                            *)
Works(d) ==
    \/ d = "verify" /\ RunPipeline
    \/ d = "publication" /\ (Refuse \/ ReadSource \/ NoSource)

Moves(d) ==
    \/ Begin(d) \/ RemoveEntry(d) \/ Claim(d) \/ Works(d)
    \/ StartWrite(d) \/ EndWrite(d) \/ Finalize(d) \/ Die(d)

LEMMA SomeoneMoves == Next => \E d \in Dirs : Moves(d)
BY DEF Next, Moves, Works, Dirs

(* A whole file is neither missing nor torn, and what is written is whole. *)
LEMMA WholeIsContent ==
    ASSUME NEW n \in Names, NEW c \in TypeOfFile(n)
    PROVE  c \notin {Nothing, Torn}
BY ContentAssumption

(* What a run that is writing will put into its next file.                 *)
LEMMA ContentType ==
    ASSUME IInv, NEW d \in Dirs, at[d] = "write", left[d] # <<>>
    PROVE  /\ Head(left[d]) \in NamesOf(d) /\ Head(left[d]) \in Range(left[d])
           /\ ContentOf(Head(left[d])) \in TypeOfFile(Head(left[d]))
           /\ Head(left[d]) = "report" => ContentOf("report") \in Report
<1> DEFINE n == Head(left[d])
<1>1. /\ left[d] \in Rests[d] /\ Written(d) /\ TypeOK
  BY DEF IInv, Types, VerifyHolds, PublicHolds, Place, Dirs
<1>2. n \in NamesOf(d) /\ n \in Range(left[d]) /\ n \in Due(d)
  BY <1>1, RestShrinks DEF Written
<1>3. CASE d = "verify"
  <2>1. ReportOf(outcome, runs["verify"]) \in Tellable
    <3>1. outcome \in Outcomes /\ runs["verify"] \in 0 .. MaxRuns["verify"]
      BY <1>1, <1>3, RunsAssumption DEF IInv, VerifyHolds, TypeOK, Dirs
    <3> QED  BY <3>1 DEF Tellable
  <2>2. ContentOf(n) \in TypeOfFile(n)
    BY <1>2, <1>3, <2>1, SaidType, ContentIsSaid
  <2> QED  BY <1>2, <2>2 DEF TypeOfFile
<1>4. CASE d = "publication"
  <2>1. seen \in Report \cup {Nothing} /\ n \in {"summary", "summary_md", "receipt"}
    BY <1>1, <1>2, <1>4, NamesAre DEF TypeOK
  <2>2. CASE n # "receipt"
    <3>1. seen \in Report /\ seen.status \in Statuses
      BY <1>2, <1>4, <2>1, <2>2 DEF Due, Report
    <3> QED  BY <1>2, <2>1, <2>2, <3>1 DEF ContentOf, TypeOfFile
  <2>3. CASE n = "receipt"
    <3>1. CASE seen = Nothing
      BY <1>2, <2>3, <3>1 DEF ContentOf, TypeOfFile
    <3>2. CASE seen # Nothing
      <4>1. left[d] = <<"receipt">>
        BY <1>1, <1>2, <1>4, <2>3 DEF Rests, Publics
      <4>2. files["summary"] = ContentOf("summary")
            /\ files["summary_md"] = ContentOf("summary_md")
        BY <1>1, <1>4, <3>2, <4>1, NamesAre, RangeOfRests DEF Written, Due
      <4>3. files["summary"] \in Report /\ files["summary_md"] \in Statuses
        BY <2>1, <3>2, <4>2 DEF ContentOf, Report
      <4>4. Receipt(files) \in TypeOfFile("receipt")
        BY <4>3 DEF Receipt, TypeOfFile
      <4> QED  BY <1>2, <2>3, <3>2, <4>4 DEF ContentOf
    <3> QED  BY <3>1, <3>2
  <2> QED  BY <1>2, <2>1, <2>2, <2>3
<1> QED  BY <1>3, <1>4 DEF Dirs

LEMMA TypesByNext ==
    ASSUME IInv, NEW d \in Dirs, Moves(d)
    PROVE  Types'
<1> USE DEF Types
<1>1. TypeOK /\ DOMAIN todo = Dirs /\ DOMAIN left = Dirs
  BY DEF IInv
<1>2. /\ \A n \in Names : Whole(n) => files[n] \in TypeOfFile(n)
      /\ NamesOf(d) \subseteq Names
  BY <1>1, NamesAre DEF TypeOK, Names, Dirs
<1>3. CASE Begin(d)
  <2>1. Leftovers(d) \subseteq NamesOf(d) \cup {Mark}
    BY DEF Leftovers, Present
  <2>2. runs' \in [Dirs -> Nat] /\ \A e \in Dirs : runs'[e] <= MaxRuns[e]
    <3>1. /\ runs' = [runs EXCEPT ![d] = runs[d] + 1] /\ runs[d] < MaxRuns[d]
          /\ runs \in [Dirs -> Nat] /\ MaxRuns \in [Dirs -> Nat]
          /\ \A e \in Dirs : runs[e] <= MaxRuns[e]
      BY <1>1, <1>3, RunsAssumption DEF Begin, TypeOK
    <3>2. \A e \in Dirs : runs[e] \in Nat /\ MaxRuns[e] \in Nat
      BY <3>1
    <3> QED  BY <3>1, <3>2
  <2>3. word' \in [Dirs -> Words \cup {Nothing}]
    BY <1>1, <1>3 DEF Begin, TypeOK, Words
  <2>4. at' \in [Dirs -> Points]
    BY <1>1, <1>3 DEF Begin, TypeOK, Points
  <2>5. DOMAIN todo' = Dirs /\ \A e \in Dirs : todo'[e] \subseteq NamesOf(e) \cup {Mark}
    BY <1>1, <1>3, <2>1 DEF Begin, TypeOK
  <2> QED  BY <1>1, <1>3, <2>2, <2>3, <2>4, <2>5 DEF Begin, TypeOK, Whole
<1>4. CASE RemoveEntry(d)
  <2>1. PICK e \in todo[d] :
           /\ todo' = [todo EXCEPT ![d] = @ \ {e}]
           /\ IF e = Mark
              THEN manifest' = [manifest EXCEPT ![d] = "none"] /\ UNCHANGED files
              ELSE files' = [files EXCEPT ![e] = Nothing] /\ UNCHANGED manifest
    BY <1>4 DEF RemoveEntry
  <2>2. DOMAIN todo' = Dirs /\ \A c \in Dirs : todo'[c] \subseteq NamesOf(c) \cup {Mark}
    BY <1>1, <2>1 DEF TypeOK
  <2>3. DOMAIN files' = Names /\ \A n \in Names : Whole(n)' => files'[n] \in TypeOfFile(n)
    BY <1>1, <2>1 DEF TypeOK, Whole
  <2>4. manifest' \in [Dirs -> {"none", "in_progress", "complete"}]
    BY <1>1, <2>1 DEF TypeOK
  <2> QED  BY <1>1, <1>4, <2>2, <2>3, <2>4 DEF RemoveEntry, TypeOK
<1>5. CASE Claim(d)
  BY <1>1, <1>5 DEF Claim, TypeOK, Points, Whole
<1>6. CASE d = "verify" /\ RunPipeline
  <2>1. DOMAIN left' = Dirs /\ \A e \in Dirs : Range(left'[e]) \subseteq NamesOf(e)
    BY <1>1, <1>6 DEF RunPipeline, TypeOK, NamesOf
  <2> QED  BY <1>1, <1>6, <2>1 DEF RunPipeline, TypeOK, Points, Whole
<1>7. CASE d = "publication" /\ (Refuse \/ ReadSource)
  <2>1. DOMAIN left' = Dirs /\ \A e \in Dirs : Range(left'[e]) \subseteq NamesOf(e)
    <3>1. \A e \in Dirs : left'[e] \in {left[e], <<"receipt">>, Publics}
                          /\ (e = "verify" => left'[e] = left[e])
      BY <1>1, <1>7 DEF Refuse, ReadSource
    <3>2. Range(<<"receipt">>) \subseteq NamesOf("publication")
          /\ Range(Publics) \subseteq NamesOf("publication")
      BY NamesAre, RangeOfRests DEF Publics
    <3>3. DOMAIN left' = Dirs
      BY <1>1, <1>7 DEF Refuse, ReadSource
    <3> QED  BY <1>1, <3>1, <3>2, <3>3 DEF TypeOK, Dirs
  <2>2. seen' \in Report \cup {Nothing}
    <3>1. Whole("report") => files["report"] \in Report
      BY <1>2, NamesAre DEF TypeOfFile
    <3> QED  BY <1>1, <1>7, <3>1 DEF Refuse, ReadSource, ReadableSource, TypeOK
  <2> QED  BY <1>1, <1>7, <2>1, <2>2 DEF Refuse, ReadSource, TypeOK, Points, Whole
<1>8. CASE d = "publication" /\ NoSource
  BY <1>1, <1>8 DEF NoSource, TypeOK, Points, Words, Whole
<1>9. CASE StartWrite(d)
  <2>1. DOMAIN files' = Names /\ \A n \in Names : Whole(n)' => files'[n] \in TypeOfFile(n)
    BY <1>1, <1>9 DEF StartWrite, TypeOK, Whole
  <2> QED  BY <1>1, <1>9, <2>1 DEF StartWrite, TypeOK
<1>10. CASE EndWrite(d)
  <2>1. /\ Head(left[d]) \in NamesOf(d)
        /\ ContentOf(Head(left[d])) \in TypeOfFile(Head(left[d]))
        /\ Head(left[d]) = "report" => ContentOf("report") \in Report
    BY <1>10, ContentType DEF EndWrite
  <2>2. DOMAIN files' = Names /\ \A n \in Names : Whole(n)' => files'[n] \in TypeOfFile(n)
    <3>1. files' = [files EXCEPT ![Head(left[d])] = ContentOf(Head(left[d]))]
      BY <1>10 DEF EndWrite
    <3> QED  BY <1>1, <2>1, <3>1 DEF TypeOK, Whole
  <2>3. issued' \subseteq Report
    BY <1>1, <1>10, <2>1 DEF EndWrite, TypeOK
  <2>4. DOMAIN left' = Dirs /\ \A e \in Dirs : Range(left'[e]) \subseteq NamesOf(e)
    <3>1. left' = [left EXCEPT ![d] = Tail(left[d])] /\ left[d] # <<>>
      BY <1>10 DEF EndWrite
    <3>2. left[d] \in Rests[d]
      BY DEF IInv, VerifyHolds, PublicHolds, Place, Dirs
    <3>3. Range(Tail(left[d])) \subseteq NamesOf(d)
      BY <3>1, <3>2, RestShrinks
    <3> QED  BY <1>1, <3>1, <3>3 DEF TypeOK
  <2> QED  BY <1>1, <1>10, <2>2, <2>3, <2>4 DEF EndWrite, TypeOK
<1>11. CASE Finalize(d)
  BY <1>1, <1>11 DEF Finalize, TypeOK, Points, Words, Whole
<1>12. CASE Die(d)
  BY <1>1, <1>12, RangeOfRests DEF Die, TypeOK, Points, Whole
<1> QED  BY <1>3, <1>4, <1>5, <1>6, <1>7, <1>8, <1>9, <1>10, <1>11, <1>12 DEF Moves, Works

(* A command leaves the other's directory, and what it knows, alone.       *)
LEMMA OthersStay ==
    ASSUME IInv, NEW d \in Dirs, NEW e \in Dirs, e # d, Moves(d)
    PROVE  /\ \A n \in NamesOf(e) : files'[n] = files[n]
           /\ manifest'[e] = manifest[e] /\ at'[e] = at[e] /\ todo'[e] = todo[e]
           /\ left'[e] = left[e] /\ word'[e] = word[e] /\ runs'[e] = runs[e]
           /\ e = "verify" => outcome' = outcome
           /\ e = "publication" => seen' = seen
           /\ issued \subseteq issued'
<1>1. /\ DOMAIN files = Names /\ DOMAIN todo = Dirs /\ DOMAIN left = Dirs
      /\ manifest \in [Dirs -> {"none", "in_progress", "complete"}]
      /\ at \in [Dirs -> Points] /\ word \in [Dirs -> Words \cup {Nothing}]
      /\ runs \in [Dirs -> Nat] /\ todo[d] \subseteq NamesOf(d) \cup {Mark}
  BY DEF IInv, Types, TypeOK
<1>2. /\ NamesOf(e) \cap (NamesOf(d) \cup {Mark}) = {} /\ NamesOf(e) \subseteq Names
  BY NamesAre DEF Dirs
<1>3. CASE Begin(d)
  BY <1>1, <1>3 DEF Begin
<1>4. CASE RemoveEntry(d)
  BY <1>1, <1>2, <1>4 DEF RemoveEntry
<1>5. CASE Claim(d)
  BY <1>1, <1>5 DEF Claim
<1>6. CASE d = "verify" /\ RunPipeline
  BY <1>1, <1>6 DEF RunPipeline
<1>7. CASE d = "publication" /\ (Refuse \/ ReadSource \/ NoSource)
  BY <1>1, <1>7 DEF Refuse, ReadSource, NoSource
<1>8. CASE StartWrite(d) \/ EndWrite(d)
  <2>1. Head(left[d]) \in NamesOf(d)
    BY <1>8, ContentType DEF StartWrite, EndWrite
  <2> QED  BY <1>1, <1>2, <1>8, <2>1 DEF StartWrite, EndWrite
<1>9. CASE Finalize(d) \/ Die(d)
  BY <1>1, <1>9 DEF Finalize, Die
<1> QED  BY <1>3, <1>4, <1>5, <1>6, <1>7, <1>8, <1>9 DEF Moves, Works

LEMMA PlaceStays ==
    ASSUME IInv, NEW d \in Dirs, NEW e \in Dirs, e # d, Moves(d)
    PROVE  Place(e)'
<1>1. Place(e)
  BY DEF IInv, VerifyHolds, PublicHolds, Dirs
<1>2. /\ \A n \in NamesOf(e) : files'[n] = files[n]
      /\ manifest'[e] = manifest[e] /\ at'[e] = at[e] /\ todo'[e] = todo[e]
      /\ left'[e] = left[e] /\ runs'[e] = runs[e]
      /\ e = "verify" => outcome' = outcome
      /\ e = "publication" => seen' = seen
  BY OthersStay
<1>3. Present(e)' = Present(e) /\ Empty(e)' = Empty(e) /\ Due(e)' = Due(e)
  BY <1>2 DEF Present, Empty, Due
<1>4. ASSUME NEW n \in NamesOf(e) PROVE ContentOf(n)' = ContentOf(n)
  <2>1. CASE e = "verify"
    BY <1>2, <2>1, NamesAre DEF ContentOf
  <2>2. CASE e = "publication"
    <3>1. files'["summary"] = files["summary"] /\ files'["summary_md"] = files["summary_md"]
      BY <1>2, <2>2, NamesAre
    <3>2. Receipt(files)' = Receipt(files)
      BY <3>1 DEF Receipt
    <3> QED  BY <1>2, <2>2, <3>2, NamesAre DEF ContentOf
  <2> QED  BY <2>1, <2>2 DEF Dirs
<1>5. Written(e) => Written(e)'
  BY <1>2, <1>3, <1>4 DEF Written
<1> QED  BY <1>1, <1>2, <1>3, <1>5 DEF Place

LEMMA PlaceByMove ==
    ASSUME IInv, NEW d \in Dirs, Moves(d)
    PROVE  Place(d)'
<1>1. /\ DOMAIN files = Names /\ DOMAIN todo = Dirs /\ DOMAIN left = Dirs
      /\ manifest \in [Dirs -> {"none", "in_progress", "complete"}]
      /\ at \in [Dirs -> Points] /\ todo[d] \subseteq NamesOf(d) \cup {Mark}
      /\ seen \in Report \cup {Nothing}
  BY DEF IInv, Types, TypeOK
<1>2. Place(d)
  BY DEF IInv, VerifyHolds, PublicHolds, Dirs
<1>3. NamesOf(d) \subseteq Names /\ Mark \notin NamesOf(d) /\ <<>> \in Rests[d]
  BY NamesAre DEF Dirs, Rests
<1>4. CASE Begin(d)
  <2>1. Present(d)' = Present(d)
    BY <1>4 DEF Begin, Present
  <2>2. CASE word'[d] = "turned_away" /\ UNCHANGED <<at, todo>>
    BY <1>2, <1>4, <2>1, <2>2 DEF Begin, Place
  <2>3. CASE at' = [at EXCEPT ![d] = "clean"] /\ todo' = [todo EXCEPT ![d] = Leftovers(d)]
    BY <1>1, <1>2, <1>4, <2>1, <2>3 DEF Begin, Place, Leftovers
  <2>4. word'[d] = "turned_away" \/ word'[d] = Nothing
    BY <1>4 DEF Begin, IInv, Types, TypeOK
  <2> QED  BY <1>1, <1>4, <2>2, <2>3 DEF Begin, IInv, Types, TypeOK
<1>5. CASE RemoveEntry(d)
  <2>1. PICK e \in todo[d] :
           /\ todo' = [todo EXCEPT ![d] = @ \ {e}]
           /\ IF e = Mark
              THEN manifest' = [manifest EXCEPT ![d] = "none"] /\ UNCHANGED files
              ELSE files' = [files EXCEPT ![e] = Nothing] /\ UNCHANGED manifest
    BY <1>5 DEF RemoveEntry
  <2>2. Present(d) \subseteq todo[d] /\ at[d] = "clean" /\ at' = at /\ left' = left
    BY <1>2, <1>5 DEF RemoveEntry, Place
  <2>3. Present(d)' \subseteq todo'[d]
    <3>1. CASE e = Mark
      BY <1>1, <1>3, <2>1, <2>2, <3>1 DEF Present
    <3>2. CASE e # Mark
      BY <1>1, <1>3, <2>1, <2>2, <3>2 DEF Present
    <3> QED  BY <3>1, <3>2
  <2> QED  BY <1>2, <2>2, <2>3 DEF Place
<1>6. CASE Claim(d)
  <2>1. Present(d) = {} /\ files' = files /\ left' = left
    BY <1>2, <1>6 DEF Claim, Place
  <2>2. Empty(d)'
    BY <2>1 DEF Present, Empty
  <2> QED  BY <1>1, <1>2, <1>6, <2>1, <2>2 DEF Claim, Place
<1>7. CASE Works(d)
  <2>1. at[d] = "work" /\ Empty(d) /\ files' = files /\ manifest' = manifest
        /\ manifest[d] = "in_progress"
    BY <1>2, <1>7 DEF Works, RunPipeline, Refuse, ReadSource, NoSource, Place
  <2>2. CASE d = "publication" /\ NoSource
    BY <1>1, <1>2, <2>1, <2>2 DEF NoSource, Place
  <2>3. CASE d = "verify" /\ RunPipeline
    <3>1. at'[d] = "write" /\ left'[d] = Reporters /\ Reporters \in Rests[d]
      BY <1>1, <2>3 DEF RunPipeline, Rests
    <3>2. Range(left'[d]) = NamesOf(d) /\ Due(d)' = NamesOf(d)
      BY <2>3, <3>1 DEF NamesOf, Due
    <3>3. Written(d)'
      BY <2>1, <3>2 DEF Written, Empty
    <3> QED  BY <2>1, <3>1, <3>3 DEF Place
  <2>4. CASE d = "publication" /\ Refuse
    <3>1. at'[d] = "write" /\ left'[d] = <<"receipt">> /\ left'[d] \in Rests[d]
      BY <1>1, <2>4 DEF Refuse, Rests
    <3>2. Range(left'[d]) = {"receipt"} /\ Due(d)' = {"receipt"}
      BY <2>4, <3>1, RangeOfRests DEF Refuse, Due
    <3>3. Written(d)'
      BY <2>1, <3>2 DEF Written, Empty
    <3> QED  BY <2>1, <3>1, <3>3 DEF Place
  <2>5. CASE d = "publication" /\ ReadSource
    <3>1. at'[d] = "write" /\ left'[d] = Publics /\ Publics \in Rests[d]
      BY <1>1, <2>5 DEF ReadSource, Rests
    <3>2. seen' # Nothing
      BY <2>5 DEF ReadSource, ReadableSource, Whole
    <3>3. Range(left'[d]) = NamesOf(d) /\ Due(d)' = NamesOf(d)
      BY <2>5, <3>1, <3>2 DEF NamesOf, Due
    <3>4. Written(d)'
      BY <2>1, <3>3 DEF Written, Empty
    <3> QED  BY <2>1, <3>1, <3>4 DEF Place
  <2> QED  BY <1>7, <2>2, <2>3, <2>4, <2>5 DEF Works
<1>8. CASE StartWrite(d) \/ EndWrite(d)
  <2>1. PICK h : h = Head(left[d])
    OBVIOUS
  <2>2. /\ at[d] = "write" /\ left[d] # <<>> /\ at' = at /\ manifest' = manifest
        /\ outcome' = outcome /\ seen' = seen /\ runs' = runs
    BY <1>8 DEF StartWrite, EndWrite
  <2>3. /\ h \in NamesOf(d) /\ h \in Range(left[d]) /\ h \in Names /\ Written(d)
        /\ left[d] \in Rests[d] /\ manifest[d] = "in_progress"
        /\ ContentOf(h) \in TypeOfFile(h)
    BY <1>2, <1>3, <1>8, <2>1, <2>2, ContentType DEF Place
  <2>4. /\ Tail(left[d]) \in Rests[d] /\ Range(Tail(left[d])) = Range(left[d]) \ {h}
    BY <2>1, <2>2, <2>3, RestShrinks
  <2>5. d = "publication" => "receipt" \in Range(left[d])
    BY <2>2, <2>3, RangeOfRests DEF Rests, Publics
  <2>6. \A n \in Names \ {h} : files'[n] = files[n]
    BY <1>1, <1>8, <2>1 DEF StartWrite, EndWrite
  <2>7. ASSUME NEW n \in NamesOf(d), n \notin Range(left[d]) PROVE ContentOf(n)' = ContentOf(n)
    BY <2>2, <2>5, <2>7, NamesAre DEF ContentOf, Dirs
  <2>8. Due(d)' = Due(d)
    BY <2>2 DEF Due
  <2>9. CASE StartWrite(d)
    <3>1. files'[h] = Torn /\ left' = left
      BY <1>1, <2>1, <2>3, <2>9 DEF StartWrite
    <3>2. Written(d)'
      BY <1>3, <2>1, <2>2, <2>3, <2>6, <2>7, <2>8, <3>1 DEF Written
    <3> QED  BY <2>2, <2>3, <3>1, <3>2 DEF Place
  <2>10. CASE EndWrite(d)
    <3>1. files'[h] = ContentOf(h) /\ left'[d] = Tail(left[d])
      BY <1>1, <2>1, <2>3, <2>10 DEF EndWrite
    <3>2. ContentOf(h)' = ContentOf(h)
      <4>1. CASE h # "receipt"
        BY <2>2, <2>3, <4>1, NamesAre DEF ContentOf, Dirs
      <4>2. CASE h = "receipt"
        <5>1. Receipt(files)' = Receipt(files)
          BY <2>6, <4>2, NamesAre DEF Receipt
        <5> QED  BY <2>2, <4>2, <5>1 DEF ContentOf
      <4> QED  BY <4>1, <4>2
    <3>3. Range(left'[d]) = Range(left[d]) \ {h}
      BY <2>4, <3>1
    <3>4. ASSUME NEW n \in NamesOf(d), n \in Range(left'[d]) PROVE files'[n] = Nothing
      BY <1>3, <2>1, <2>3, <2>6, <3>3, <3>4 DEF Written
    <3>5. ASSUME NEW n \in NamesOf(d), n \in Due(d), n \notin Range(left'[d])
          PROVE  files'[n] = ContentOf(n)'
      BY <1>3, <2>3, <2>6, <2>7, <3>1, <3>2, <3>3, <3>5 DEF Written
    <3>6. ASSUME NEW n \in NamesOf(d), n \notin Due(d) PROVE files'[n] = Nothing
      BY <1>3, <2>3, <2>6, <3>6 DEF Written
    <3>7. Written(d)'
      BY <2>3, <2>8, <3>3, <3>4, <3>5, <3>6 DEF Written
    <3> QED  BY <2>2, <2>3, <2>4, <3>1, <3>7 DEF Place
  <2> QED  BY <1>8, <2>9, <2>10
<1>9. CASE Finalize(d) \/ Die(d)
  BY <1>1, <1>2, <1>3, <1>9 DEF Finalize, Die, Place
<1> QED  BY <1>4, <1>5, <1>6, <1>7, <1>8, <1>9 DEF Moves

LEMMA VerifyByVerify ==
    ASSUME IInv, Moves("verify")
    PROVE  VerifyHolds'
<1> DEFINE v == "verify"
<1>1. /\ DOMAIN files = Names /\ at \in [Dirs -> Points]
      /\ manifest \in [Dirs -> {"none", "in_progress", "complete"}]
      /\ word \in [Dirs -> Words \cup {Nothing}] /\ v \in Dirs
      /\ todo[v] \subseteq NamesOf(v) \cup {Mark}
  BY DEF IInv, Types, TypeOK, Dirs
<1>2. /\ Place(v)' /\ VerifyHolds /\ Place(v)
      /\ NamesOf(v) \subseteq Names /\ Mark \notin Names /\ "report" \in NamesOf(v)
  BY <1>1, PlaceByMove, NamesAre DEF IInv, VerifyHolds
<1>3. word[v] = "ok" => at[v] = "idle"
  BY <1>2 DEF VerifyHolds
<1>4. CASE Begin(v)
  <2>1. word'[v] # "ok"
    BY <1>1, <1>4, ContentAssumption DEF Begin, Words
  <2>2. at'[v] # "write" \/ at'[v] = at[v]
    BY <1>1, <1>4 DEF Begin
  <2>3. files' = files /\ manifest' = manifest /\ outcome' = outcome /\ issued' = issued
    BY <1>4 DEF Begin
  <2> QED  BY <1>2, <2>1, <2>2, <2>3 DEF VerifyHolds, Whole
<1>5. CASE RemoveEntry(v)
  <2>1. /\ at[v] = "clean" /\ at' = at /\ word' = word /\ issued' = issued
        /\ \A n \in NamesOf(v) : files'[n] \in {files[n], Nothing}
        /\ manifest'[v] \in {manifest[v], "none"}
    BY <1>1, <1>2, <1>5 DEF RemoveEntry
  <2> QED  BY <1>2, <2>1 DEF VerifyHolds, Whole
<1>6. CASE Claim(v)
  <2>1. /\ at[v] = "clean" /\ at'[v] = "work" /\ word' = word /\ issued' = issued
        /\ files' = files /\ manifest'[v] = "in_progress"
    BY <1>1, <1>6 DEF Claim
  <2> QED  BY <1>2, <2>1 DEF VerifyHolds, Whole
<1>7. CASE RunPipeline
  <2>1. /\ at[v] = "work" /\ word' = word /\ issued' = issued /\ files' = files
        /\ manifest' = manifest /\ manifest[v] = "in_progress" /\ outcome' \in Outcomes
    BY <1>2, <1>7 DEF RunPipeline, Place
  <2> QED  BY <1>2, <2>1 DEF VerifyHolds, Whole
<1>8. CASE StartWrite(v) \/ EndWrite(v)
  <2>1. /\ at[v] = "write" /\ at' = at /\ word' = word /\ manifest' = manifest
        /\ outcome' = outcome /\ manifest[v] = "in_progress"
    BY <1>2, <1>8 DEF StartWrite, EndWrite, Place
  <2>2. Whole("report")' => files'["report"] \in issued'
    <3>1. CASE StartWrite(v)
      <4>1. files'["report"] \in {files["report"], Torn} /\ issued' = issued
        BY <1>1, <1>2, <3>1 DEF StartWrite
      <4> QED  BY <1>2, <4>1 DEF VerifyHolds, Whole
    <3>2. CASE EndWrite(v) /\ Head(left[v]) = "report"
      BY <1>1, <1>2, <3>2 DEF EndWrite
    <3>3. CASE EndWrite(v) /\ Head(left[v]) # "report"
      <4>1. files'["report"] = files["report"] /\ issued' = issued
        BY <1>1, <1>2, <3>3 DEF EndWrite
      <4> QED  BY <1>2, <4>1 DEF VerifyHolds, Whole
    <3> QED  BY <1>8, <3>1, <3>2, <3>3
  <2> QED  BY <1>2, <2>1, <2>2 DEF VerifyHolds
<1>9. CASE Finalize(v)
  <2>1. /\ at[v] = "write" /\ left[v] = <<>> /\ files' = files /\ issued' = issued
        /\ at'[v] = "idle" /\ manifest'[v] = "complete"
    BY <1>1, <1>9 DEF Finalize
  <2>2. Written(v) /\ outcome \in Outcomes /\ runs[v] \in 0 .. MaxRuns[v]
    BY <1>1, <1>2, <2>1, RunsAssumption DEF Place, VerifyHolds, IInv, Types, TypeOK
  <2>3. PICK r \in Tellable : r = ReportOf(outcome, runs[v])
    BY <2>2 DEF Tellable
  <2>4. \A n \in NamesOf(v) : files[n] = Said(n, r)
    BY <2>1, <2>2, <2>3, RangeOfRests, ContentIsSaid DEF Written, Due
  <2>5. \A n \in NamesOf(v) : Whole(n)
    BY <1>2, <2>4, SaidType, WholeIsContent DEF Whole
  <2> QED  BY <1>2, <2>1, <2>4, <2>5 DEF VerifyHolds, Whole
<1>10. CASE Die(v)
  <2>1. /\ at[v] # "idle" /\ at'[v] = "idle" /\ word' = word /\ issued' = issued
        /\ files' = files /\ manifest' = manifest
    BY <1>1, <1>10 DEF Die
  <2> QED  BY <1>2, <2>1 DEF VerifyHolds, Whole
<1> QED  BY <1>4, <1>5, <1>6, <1>7, <1>8, <1>9, <1>10 DEF Moves, Works

LEMMA PublicByPublic ==
    ASSUME IInv, Moves("publication")
    PROVE  PublicHolds'
<1> DEFINE p == "publication"
<1>1. /\ DOMAIN files = Names /\ at \in [Dirs -> Points]
      /\ manifest \in [Dirs -> {"none", "in_progress", "complete"}]
      /\ word \in [Dirs -> Words \cup {Nothing}] /\ p \in Dirs
      /\ todo[p] \subseteq NamesOf(p) \cup {Mark} /\ seen \in Report \cup {Nothing}
  BY DEF IInv, Types, TypeOK, Dirs
<1>2. /\ Place(p)' /\ PublicHolds /\ Place(p) /\ NamesOf(p) \subseteq Names
      /\ Mark \notin Names /\ NamesOf(p) = {"summary", "summary_md", "receipt"}
  BY <1>1, PlaceByMove, NamesAre DEF IInv, PublicHolds
<1>3. word[p] \in {"ok", "refused", "no_source"} => at[p] = "idle"
  BY <1>2 DEF PublicHolds
<1>4. Receipt(files)' = [status |-> "ready", json |-> files'["summary"],
                         md |-> files'["summary_md"]]
  BY DEF Receipt
<1>5. CASE Begin(p)
  <2>1. word'[p] \notin {"ok", "refused", "no_source"}
    BY <1>1, <1>5, ContentAssumption DEF Begin, Words
  <2>2. at'[p] # "write" \/ at'[p] = at[p]
    BY <1>1, <1>5 DEF Begin
  <2>3. files' = files /\ manifest' = manifest /\ seen' = seen /\ issued' = issued
    BY <1>5 DEF Begin
  <2> QED  BY <1>2, <2>1, <2>2, <2>3 DEF PublicHolds, ReceiptVouches, Whole
<1>6. CASE RemoveEntry(p)
  <2>1. /\ at[p] = "clean" /\ at' = at /\ word' = word /\ issued' = issued
        /\ \A n \in NamesOf(p) : files'[n] \in {files[n], Nothing}
    BY <1>1, <1>2, <1>6 DEF RemoveEntry
  <2> QED  BY <1>2, <1>3, <2>1 DEF PublicHolds, ReceiptVouches, Whole
<1>7. CASE Claim(p)
  <2>1. /\ at[p] = "clean" /\ at'[p] = "work" /\ word' = word /\ issued' = issued
        /\ files' = files
    BY <1>1, <1>7 DEF Claim
  <2> QED  BY <1>2, <1>3, <2>1 DEF PublicHolds, ReceiptVouches, Whole
<1>8. CASE Refuse
  <2>1. /\ at[p] = "work" /\ word' = word /\ issued' = issued /\ files' = files
        /\ seen' = Nothing
    BY <1>8 DEF Refuse
  <2> QED  BY <1>2, <1>3, <2>1 DEF PublicHolds, ReceiptVouches, Whole
<1>9. CASE ReadSource
  <2>1. /\ at[p] = "work" /\ word' = word /\ issued' = issued /\ files' = files
        /\ seen' = files["report"] /\ Whole("report")
    BY <1>9 DEF ReadSource, ReadableSource
  <2>2. seen' \in issued
    BY <2>1 DEF IInv, VerifyHolds
  <2> QED  BY <1>2, <1>3, <2>1, <2>2 DEF PublicHolds, ReceiptVouches, Whole
<1>10. CASE NoSource
  <2>1. /\ at[p] = "work" /\ at'[p] = "idle" /\ word'[p] = "no_source" /\ issued' = issued
        /\ files' = files /\ manifest' = manifest
    BY <1>1, <1>10 DEF NoSource
  <2>2. Empty(p)' /\ manifest[p] = "in_progress"
    BY <1>2, <2>1 DEF Place, Empty
  <2> QED  BY <1>2, <2>1, <2>2 DEF PublicHolds, ReceiptVouches, Whole
<1>11. CASE StartWrite(p) \/ EndWrite(p)
  <2>1. /\ at[p] = "write" /\ left[p] # <<>> /\ at' = at /\ word' = word /\ seen' = seen
    BY <1>11 DEF StartWrite, EndWrite
  <2>2. Head(left[p]) \in NamesOf(p) /\ Head(left[p]) \in Range(left[p]) /\ Written(p)
    BY <1>1, <1>2, <2>1, ContentType DEF Place
  <2>3. issued' = issued
    BY <1>2, <1>11, <2>2 DEF StartWrite, EndWrite
  <2>4. files'["summary"] \in {files["summary"], Torn, seen}
        /\ (files'["summary"] = seen /\ seen # Nothing => seen \in issued)
    BY <1>1, <1>2, <1>11, <2>1 DEF StartWrite, EndWrite, ContentOf, PublicHolds
  <2>5. Whole("summary")' => files'["summary"] \in issued'
    BY <1>2, <2>3, <2>4 DEF Whole, PublicHolds
  <2>6. ASSUME Head(left[p]) = "receipt" PROVE ReceiptVouches'
    <3>1. CASE StartWrite(p)
      BY <1>1, <1>2, <2>6, <3>1 DEF StartWrite, ReceiptVouches, Whole
    <3>2. CASE EndWrite(p)
      <4>1. /\ files'["receipt"] = IF seen = Nothing THEN Refusal ELSE Receipt(files)
            /\ files'["summary"] = files["summary"]
            /\ files'["summary_md"] = files["summary_md"]
        BY <1>1, <1>2, <2>6, <3>2 DEF EndWrite, ContentOf
      <4>2. seen = Nothing => files["summary"] = Nothing /\ files["summary_md"] = Nothing
        BY <1>2, <2>2 DEF Written, Due
      <4> QED  BY <4>1, <4>2 DEF ReceiptVouches, Receipt, Refusal
    <3> QED  BY <1>11, <3>1, <3>2
  <2>7. ASSUME Head(left[p]) # "receipt" PROVE ReceiptVouches'
    <3>1. "receipt" \in Range(left[p])
      BY <1>2, <2>1, <2>2, <2>7, RangeOfRests DEF Place, Rests, Publics
    <3>2. ~Whole("receipt") /\ files'["receipt"] = files["receipt"]
      BY <1>1, <1>2, <1>11, <2>2, <2>7, <3>1 DEF Written, Whole, StartWrite, EndWrite
    <3> QED  BY <3>2 DEF ReceiptVouches, Whole
  <2>8. ReceiptVouches'
    BY <2>6, <2>7
  <2> QED  BY <1>2, <1>3, <2>1, <2>3, <2>5, <2>8 DEF PublicHolds
<1>12. CASE Finalize(p)
  <2>1. /\ at[p] = "write" /\ left[p] = <<>> /\ files' = files /\ issued' = issued
        /\ at'[p] = "idle" /\ manifest'[p] = "complete"
        /\ word'[p] = IF seen = Nothing THEN "refused" ELSE "ok"
    BY <1>1, <1>12 DEF Finalize
  <2>2. Written(p) /\ Range(left[p]) = {}
    BY <1>2, <2>1, RangeOfRests DEF Place
  <2>3. CASE seen = Nothing
    <3>1. /\ files["receipt"] = Refusal /\ files["summary"] = Nothing
          /\ files["summary_md"] = Nothing
      BY <1>2, <2>2, <2>3 DEF Written, Due, ContentOf
    <3> QED  BY <1>2, <2>1, <2>3, <3>1 DEF PublicHolds, ReceiptVouches, Whole
  <2>4. CASE seen # Nothing
    <3>1. /\ files["receipt"] = Receipt(files) /\ files["summary"] = seen
          /\ files["summary_md"] = seen.status
      BY <1>2, <2>2, <2>4 DEF Written, Due, ContentOf
    <3>2. seen \in Report /\ seen.status \in Statuses
      BY <1>1, <2>4 DEF Report
    <3>3. Receipt(files) \in TypeOfFile("receipt")
      BY <3>1, <3>2 DEF Receipt, TypeOfFile
    <3>4. Whole("receipt") /\ Whole("summary") /\ Whole("summary_md")
      <4>1. files["summary"] \in TypeOfFile("summary")
            /\ files["summary_md"] \in TypeOfFile("summary_md")
        BY <3>1, <3>2 DEF TypeOfFile
      <4> QED  BY <1>2, <3>1, <3>3, <4>1, WholeIsContent DEF Whole
    <3> QED  BY <1>2, <2>1, <2>4, <3>1, <3>4 DEF PublicHolds, ReceiptVouches, Whole
  <2> QED  BY <2>3, <2>4
<1>13. CASE Die(p)
  <2>1. /\ at[p] # "idle" /\ at'[p] = "idle" /\ word' = word /\ issued' = issued
        /\ files' = files
    BY <1>1, <1>13 DEF Die
  <2> QED  BY <1>2, <1>3, <2>1 DEF PublicHolds, ReceiptVouches, Whole
<1> QED  BY <1>5, <1>6, <1>7, <1>8, <1>9, <1>10, <1>11, <1>12, <1>13 DEF Moves, Works

LEMMA IInvByNext == IInv /\ [Next]_vars => IInv'
<1> SUFFICES ASSUME IInv, [Next]_vars PROVE IInv'
  OBVIOUS
<1>1. CASE UNCHANGED vars
  <2>1. Types'
    BY <1>1 DEF IInv, Types, TypeOK, Whole, vars
  <2>2. \A d \in Dirs : Place(d)' = Place(d)
    BY <1>1 DEF Place, Present, Empty, Written, Due, ContentOf, Receipt, vars
  <2>3. VerifyHolds' /\ PublicHolds'
    BY <1>1, <2>2
    DEF IInv, VerifyHolds, PublicHolds, ReceiptVouches, Whole, Empty, Receipt, Dirs, vars
  <2> QED  BY <2>1, <2>3 DEF IInv
<1>2. CASE Next
  <2>1. PICK d \in Dirs : Moves(d)
    BY <1>2, SomeoneMoves
  <2>2. Types'
    BY <2>1, TypesByNext
  <2>3. CASE d = "verify"
    <3> DEFINE p == "publication"
    <3>1. Place(p)'
      BY <2>1, <2>3, PlaceStays DEF Dirs
    <3>2. /\ \A n \in NamesOf(p) : files'[n] = files[n]
          /\ manifest'[p] = manifest[p] /\ at'[p] = at[p] /\ word'[p] = word[p]
          /\ seen' = seen /\ issued \subseteq issued'
      BY <2>1, <2>3, OthersStay DEF Dirs
    <3>3. PublicHolds'
      BY <3>1, <3>2, NamesAre DEF IInv, PublicHolds, ReceiptVouches, Whole, Empty, Receipt
    <3> QED  BY <2>1, <2>2, <2>3, <3>3, VerifyByVerify DEF IInv
  <2>4. CASE d = "publication"
    <3> DEFINE v == "verify"
    <3>1. Place(v)'
      BY <2>1, <2>4, PlaceStays DEF Dirs
    <3>2. /\ \A n \in NamesOf(v) : files'[n] = files[n]
          /\ manifest'[v] = manifest[v] /\ at'[v] = at[v] /\ word'[v] = word[v]
          /\ outcome' = outcome /\ issued \subseteq issued'
      BY <2>1, <2>4, OthersStay DEF Dirs
    <3>3. VerifyHolds'
      BY <3>1, <3>2, NamesAre DEF IInv, VerifyHolds, Whole
    <3> QED  BY <2>1, <2>2, <2>4, <3>3, PublicByPublic DEF IInv
  <2> QED  BY <2>3, <2>4 DEF Dirs
<1> QED  BY <1>1, <1>2

LEMMA IInvAtFirst == Init => IInv
<1> SUFFICES ASSUME Init PROVE IInv
  OBVIOUS
<1>1. Types
  BY RangeOfRests, RunsAssumption DEF Init, Types, TypeOK, Points, Whole
<1>2. Place("verify") /\ Place("publication")
  BY DEF Init, Place, Rests, Dirs
<1>3. word["verify"] = Nothing /\ word["publication"] = Nothing /\ Nothing \notin Words
  BY ContentAssumption DEF Init, Dirs
<1> QED  BY <1>1, <1>2, <1>3, NamesAre DEF Init, IInv, VerifyHolds, PublicHolds,
                                          ReceiptVouches, Whole, Dirs, Words

LEMMA Inductive == Spec => []IInv
BY IInvAtFirst, IInvByNext, PTL DEF Spec

----------------------------------------------------------------------------
(* The theorems *)

(* For any number of runs: the types.                                      *)
THEOREM TypeCorrect == Spec => []TypeOK
<1>1. IInv => TypeOK
  BY DEF IInv, Types
<1> QED  BY <1>1, Inductive, PTL

(* For any number of runs, dying anywhere: a verification that ended has   *)
(* left reporters that tell one exit, and a complete directory is never    *)
(* torn and never of two runs.                                             *)
THEOREM OneExitIsTold == Spec => []VerifyTellsOneExit
<1>1. IInv => VerifyTellsOneExit
  <2> SUFFICES ASSUME IInv PROVE VerifyTellsOneExit
    OBVIOUS
  <2>1. word["verify"] = "ok" => /\ manifest["verify"] = "complete"
                                 /\ \A n \in NamesOf("verify") : Whole(n)
    BY DEF IInv, VerifyHolds
  <2>2. ASSUME manifest["verify"] = "complete"
        PROVE  /\ \A n \in NamesOf("verify") : files[n] # Torn
               /\ \A n, k \in {k \in NamesOf("verify") \ {"compliance"} : Whole(k)} :
                     files[n].by = files[k].by /\ files[n].status = files[k].status
    <3>1. PICK r \in Tellable : \A n \in NamesOf("verify") : files[n] \in {Nothing, Said(n, r)}
      BY <2>2 DEF IInv, VerifyHolds
    <3>2. \A n \in NamesOf("verify") : files[n] # Torn
      BY <3>1, SaidType, WholeIsContent, NamesAre, NoFileAssumption
    <3>3. \A n \in {k \in NamesOf("verify") \ {"compliance"} : Whole(k)} :
             files[n].by = r.by /\ files[n].status = r.status
      BY <3>1, SaidType DEF Whole
    <3> QED  BY <3>2, <3>3
  <2>3. ASSUME word["verify"] = "ok"
        PROVE  LET r == files["report"]
               IN /\ r.exit = 0 <=> r.status \in {"approved", "needs_review"}
                  /\ r.exit = 1 <=> r.status = "blocked"
                  /\ r.exit = 2 <=> r.run = "error"
                  /\ r.exit = 0 <=> files["html"].tone # "fail"
                  /\ r.exit = 0 <=> files["junit"].tone = "none"
                  /\ r.exit = 0 <=> files["sarif"].tone # "error"
    <3>1. PICK r \in Tellable : \A n \in NamesOf("verify") : files[n] \in {Nothing, Said(n, r)}
      BY <2>1, <2>3 DEF IInv, VerifyHolds
    <3>2. \A n \in NamesOf("verify") : files[n] = Said(n, r)
      BY <2>1, <2>3, <3>1 DEF Whole
    <3>3. /\ files["report"] = r /\ files["html"].tone = Banner(r.status)
          /\ files["junit"].tone = JUnit(r.exit)
          /\ files["sarif"].tone = Sarif(r.status, r.exit)
      BY <3>2, NamesAre, SaidType DEF Said
    <3> QED  BY <3>3, TellableAgrees
  <2> QED  BY <2>1, <2>2, <2>3 DEF VerifyTellsOneExit
<1> QED  BY <1>1, Inductive, PTL

(* For any number of runs: the word that a publication ended with is what  *)
(* its directory is worth, until the next run begins.                      *)
THEOREM WordIsKept == Spec => []WordMatchesDirectory
<1>1. IInv => WordMatchesDirectory
  <2> SUFFICES ASSUME IInv PROVE WordMatchesDirectory
    OBVIOUS
  <2>1. PublicHolds /\ NamesOf("publication") = {"summary", "summary_md", "receipt"}
        /\ Refusal \notin {Nothing, Torn}
    <3>1. Refusal \in TypeOfFile("receipt")
      BY DEF TypeOfFile
    <3> QED  BY <3>1, NamesAre, WholeIsContent DEF IInv
  <2>2. ASSUME word["publication"] = "ok"
        PROVE  manifest["publication"] = "complete" /\ Shown # Nothing
    <3>1. /\ manifest["publication"] = "complete" /\ files["receipt"] = Receipt(files)
          /\ \A n \in NamesOf("publication") : Whole(n)
      BY <2>1, <2>2 DEF PublicHolds
    <3>2. Shown = files["summary"]
      BY <3>1 DEF Shown, Receipt, Refusal
    <3> QED  BY <2>1, <3>1, <3>2 DEF Whole
  <2>3. ASSUME word["publication"] = "refused"
        PROVE  /\ manifest["publication"] = "complete" /\ Shown = Nothing
               /\ Present("publication") = {"receipt", Mark}
    BY <2>1, <2>3 DEF PublicHolds, Shown, Whole, Present
  <2>4. ASSUME word["publication"] = "no_source"
        PROVE  Shown = Nothing /\ Present("publication") = {Mark}
    BY <2>1, <2>4 DEF PublicHolds, Shown, Whole, Present, Empty
  <2>5. ReceiptVouches
    BY DEF IInv, PublicHolds
  <2> QED  BY <2>2, <2>3, <2>4, <2>5 DEF WordMatchesDirectory
<1> QED  BY <1>1, Inductive, PTL

----------------------------------------------------------------------------
(* The public directory implements PublicRecord *)

LEMMA ShownIsIssued ==
    ASSUME IInv
    PROVE  /\ Shown # Nothing => Shown \in issued
           /\ (\E n \in NamesOf("publication") : ~Whole(n)) => Shown = Nothing
BY NamesAre DEF IInv, PublicHolds, Shown

LEMMA ShownStays ==
    ASSUME \A n \in NamesOf("publication") : files'[n] = files[n]
    PROVE  Shown' = Shown
BY NamesAre DEF Shown, Whole

LEMMA StepIsOfRecord ==
    ASSUME IInv, [Next]_vars
    PROVE  [Record!Next]_<<issued, Shown>>
<1>1. CASE UNCHANGED vars
  <2>1. Shown' = Shown
    BY <1>1, ShownStays DEF vars
  <2> QED  BY <1>1, <2>1 DEF vars
<1>2. CASE Next
  <2>1. PICK d \in Dirs : Moves(d)
    BY <1>2, SomeoneMoves
  <2>2. IInv'
    BY <1>2, IInvByNext
  <2>3. DOMAIN files = Names
    BY DEF IInv, Types, TypeOK
  <2>4. CASE d = "verify"
    <3>1. Shown' = Shown
      BY <2>1, <2>4, OthersStay, ShownStays DEF Dirs
    <3>2. CASE issued' = issued
      BY <3>1, <3>2
    <3>3. CASE issued' # issued
      <4>1. issued' = issued \cup {ContentOf("report")} /\ EndWrite(d)
            /\ Head(left[d]) = "report"
        BY <2>1, <2>4, <3>3 DEF Moves, Works, Begin, RemoveEntry, Claim, RunPipeline,
           StartWrite, EndWrite, Finalize, Die
      <4>2. ContentOf("report") \in Report
        BY <4>1, ContentType DEF EndWrite
      <4>3. Record!Issue
        BY <3>1, <4>1, <4>2 DEF Record!Issue
      <4> QED  BY <4>3 DEF Record!Next
    <3> QED  BY <3>2, <3>3
  <2>5. CASE d = "publication"
    <3>1. issued' = issued
      <4>1. CASE EndWrite(d)
        <5>1. Head(left[d]) # "report"
          BY <2>5, <4>1, ContentType, NamesAre DEF EndWrite
        <5> QED  BY <4>1, <5>1 DEF EndWrite
      <4>2. CASE ~EndWrite(d)
        BY <2>1, <2>5, <4>2 DEF Moves, Works, Begin, RemoveEntry, Claim, Refuse, ReadSource,
           NoSource, StartWrite, Finalize, Die
      <4> QED  BY <4>1, <4>2
    <3>2. CASE Shown' = Nothing
      BY <3>1, <3>2 DEF Record!Next, Record!Retract
    <3>3. CASE Shown' # Nothing
      <4>1. Shown' \in issued'
        BY <2>2, <3>3, NamesAre DEF IInv, PublicHolds, Shown
      <4>2. \A n \in NamesOf(d) : Whole(n)'
        BY <2>5, <3>3 DEF Shown
      <4>3. CASE Shown = Nothing
        <5>1. Record!Publish
          BY <3>1, <4>1, <4>3 DEF Record!Publish
        <5> QED  BY <5>1 DEF Record!Next
      <4>4. CASE Shown # Nothing
        <5>1. \A n \in NamesOf(d) : Whole(n) /\ n \in Names
          BY <2>5, <4>4, ShownIsIssued, NamesAre
        <5>2. \A n \in NamesOf(d) : files'[n] = files[n]
          <6>1. CASE RemoveEntry(d)
            <7>1. PICK e : files' = files \/ files' = [files EXCEPT ![e] = Nothing]
              BY <6>1 DEF RemoveEntry
            <7> QED  BY <2>3, <4>2, <5>1, <7>1 DEF Whole
          <6>2. CASE StartWrite(d)
            <7>1. Head(left[d]) \in NamesOf(d) /\ files'[Head(left[d])] = Torn
              BY <2>3, <5>1, <6>2, ContentType DEF StartWrite
            <7> QED  BY <4>2, <7>1 DEF Whole
          <6>3. CASE EndWrite(d)
            <7>1. Head(left[d]) \in NamesOf(d) /\ files[Head(left[d])] = Torn
              BY <6>3, ContentType DEF EndWrite
            <7> QED  BY <5>1, <7>1 DEF Whole
          <6>4. CASE ~RemoveEntry(d) /\ ~StartWrite(d) /\ ~EndWrite(d)
            BY <2>1, <2>5, <6>4 DEF Moves, Works, Begin, Claim, Refuse, ReadSource, NoSource,
               Finalize, Die
          <6> QED  BY <6>1, <6>2, <6>3, <6>4
        <5> QED  BY <2>5, <3>1, <5>2, ShownStays
      <4> QED  BY <4>3, <4>4
    <3> QED  BY <3>2, <3>3
  <2> QED  BY <2>4, <2>5 DEF Dirs
<1> QED  BY <1>1, <1>2

(* For any number of runs of the two commands, interleaved and dying as    *)
(* they like: the public directory shows an issued report or none, and     *)
(* goes from one report to another through none.                           *)
THEOREM ImplementsPublicRecord == Spec => IsPublicRecord
<1>1. Init => Record!Init
  BY NamesAre DEF Init, Record!Init, Shown, Whole
<1>2. IInv /\ [Next]_vars => [Record!Next]_<<issued, Shown>>
  BY StepIsOfRecord
<1> QED  BY <1>1, <1>2, Inductive, PTL DEF Spec, IsPublicRecord, Record!Spec
=============================================================================
