------------------------- MODULE DensitySweep_proofs -------------------------
(***************************************************************************)
(* Proofs about the resumable sweep, for every set of groups and cases,     *)
(* every number of runs and every number of kills and failures.             *)
(***************************************************************************)
EXTENDS DensitySweep, SequenceLemmas, TLAPS

-----------------------------------------------------------------------------
(* The inductive invariant *)

File == [att : Nat, ver : Versions \cup {0}, val : {"none", "manifest", "running", "success",
                                                      "failed", "good", "bad"}]
Values(f) ==
    CASE f = "resolved" -> {"none", "manifest"}
      [] f = "status" -> {"none", "running", "success", "failed"}
      [] OTHER -> {"none", "good", "bad"}

\* A case is being run; its artifacts are about to be moved or written.
Active == {"archive", "resolve", "announce", "client", "judge", "summary"}
InGroup == Active \cup {"launch", "case", "groupend"}

Typed ==
    /\ disk \in [Cases -> [FileNames -> File]]
    /\ \A c \in Cases, f \in FileNames : disk[c][f].val \in Values(f)
    /\ attempts \in [Cases -> Seq([FileNames -> File])]
    /\ manifest \in Versions \cup {0} /\ run \in Versions \cup {0}
    /\ pc \in InGroup \cup {"idle", "group"}
    /\ group \in 0 .. Len(CasesOf) + 1 /\ todo \subseteq Cases
    /\ server \in {"off", "up", "dead"} /\ timedOut \in BOOLEAN
    /\ outcome \in {"none", "rc0", "rc1", "timeout", "raised"}
    /\ count \in [Cases -> Nat]
    /\ summary \subseteq Cases \X Nat /\ written \subseteq Cases \X Nat
    /\ disturbed \subseteq Cases /\ faults \in 0 .. MaxFaults

\* The files of a case are of this manifest and of attempts that were started; those
\* an undisturbed case still has in place are of one attempt.  What was moved away
\* belongs to attempts before the current one.
FilesOK(c) ==
    /\ \A f \in Present(c) :
          /\ manifest # 0 /\ disk[c][f].ver = manifest
          /\ 1 <= disk[c][f].att /\ disk[c][f].att <= count[c]
    /\ IF count[c] = 0 THEN attempts[c] = <<>> ELSE Len(attempts[c]) < count[c]
    /\ c \notin disturbed =>
          \A f, g \in Present(c) : disk[c][f].att = disk[c][g].att

OrphansOK ==
    \A o \in orphans :
        /\ o[1] \in disturbed /\ o[2] \in Nat /\ 1 <= o[2] /\ o[2] <= count[o[1]]
        /\ o[3] = manifest /\ manifest # 0

\* Where the runner is, and which server a timeout has tainted.
RunnerOK ==
    /\ pc = "idle" => run = 0 /\ todo = {} /\ ~timedOut
    /\ pc # "idle" => run = manifest /\ manifest # 0
    /\ pc = "group" => group >= 1 /\ todo = {}
    /\ pc \in InGroup => group \in Groups /\ todo \subseteq ToSet(CasesOf[group])
    /\ pc \in Active => todo # {}
    /\ timedOut => pc = "groupend" \/ (pc \in {"judge", "summary"} /\ outcome = "timeout")

\* The case being run is not complete and has no row until it is judged; nor have
\* the cases after it.
TodoOK ==
    /\ manifest = 0 => summary = {}
    /\ \A c \in todo : \/ c \in disturbed \/ ~Complete(c, manifest)
                       \/ (pc = "summary" /\ c = Case)
    /\ \A row \in summary : row[1] \in disturbed \/ row[1] \notin todo

\* What the files of the case being run look like at each point.
CaseOK ==
    pc \in Active =>
        /\ count[Case] >= 1
        /\ pc = "archive" =>
              /\ attempts[Case] # <<>>
              /\ Case \notin disturbed => \A f \in Present(Case) :
                     attempts[Case][Len(attempts[Case])][f] = NoFile
        /\ pc = "client" => disk[Case]["status"].val = "running"
        /\ Case \notin disturbed =>
              /\ pc = "resolve" => Present(Case) = {}
              /\ pc = "announce" => \A f \in Present(Case) :
                     f = "resolved" /\ disk[Case][f].att = count[Case]
              /\ pc \in {"client", "judge"} => \A f \in Present(Case) :
                     disk[Case][f].att = count[Case]

IInv ==
    /\ Typed
    /\ \A c \in Cases : FilesOK(c)
    /\ OrphansOK
    /\ RunnerOK
    /\ TodoOK
    /\ CaseOK
    /\ \A w \in written : 1 <= w[2]
    /\ ResultsKept
    /\ SummaryStaysTrue

USE SweepAssumption

-----------------------------------------------------------------------------
(* The case being run, and writing one of its files *)

\* The first case of a group that is in T.
LEMMA FirstMember ==
    ASSUME NEW S, NEW cases \in Seq(S), NEW T, T \cap ToSet(cases) # {}
    PROVE  First(cases, T) \in T
  <1> DEFINE I == {i \in DOMAIN cases : cases[i] \in T}
             P(i) == cases[i] \in T /\ \A j \in 1 .. i - 1 : cases[j] \notin T
  <1>1. DOMAIN cases = 1 .. Len(cases) /\ Len(cases) \in Nat
    BY LenProperties
  <1>2. I \in SUBSET Nat /\ I # {}
    BY <1>1 DEF ToSet
  <1>3. PICK i \in I : \A j \in I : i <= j
    BY <1>2, LeastElement
  <1>4. ASSUME NEW j \in 1 .. i - 1 PROVE cases[j] \notin T
    <2>1. j \in DOMAIN cases /\ ~(i <= j)
      BY <1>1, <1>3
    <2> QED  BY <1>3, <2>1
  <1>5. i \in DOMAIN cases /\ P(i)
    BY <1>3, <1>4
  <1>6. First(cases, T) = cases[CHOOSE n \in DOMAIN cases : P(n)]
    BY DEF First
  <1> HIDE DEF P
  <1>7. P(CHOOSE n \in DOMAIN cases : P(n))
    BY <1>5
  <1> QED  BY <1>6, <1>7 DEF P

LEMMA GroupCases ==
    /\ Groups = 1 .. Len(CasesOf) /\ Len(CasesOf) \in Nat
    /\ \A g \in Groups : CasesOf[g] \in Seq(Cases) /\ ToSet(CasesOf[g]) \subseteq Cases
  <1>1. Groups = 1 .. Len(CasesOf) /\ Len(CasesOf) \in Nat
    BY LenProperties DEF Groups
  <1>2. \A g \in Groups : CasesOf[g] \in Seq(Cases)
    BY <1>1, ElementOfSeq
  <1>3. \A g \in Groups : ToSet(CasesOf[g]) \subseteq Cases
    BY DEF Cases
  <1> QED  BY <1>1, <1>2, <1>3

LEMMA CaseMember ==
    ASSUME IInv, pc \in InGroup, todo # {}
    PROVE  Case \in todo /\ Case \in Cases
  <1>1. group \in Groups /\ todo \subseteq ToSet(CasesOf[group])
    BY DEF IInv, RunnerOK
  <1>2. todo \cap ToSet(CasesOf[group]) # {} /\ CasesOf[group] \in Seq(Cases)
    BY <1>1, GroupCases
  <1>3. Case \in todo
    BY <1>2, FirstMember DEF Case
  <1> QED  BY <1>1, <1>3, GroupCases

LEMMA ActiveCase ==
    ASSUME IInv, pc \in Active
    PROVE  /\ Case \in todo /\ Case \in Cases /\ count[Case] \in Nat /\ count[Case] >= 1
           /\ run = manifest /\ manifest \in Versions /\ manifest # 0 /\ group \in Groups
           /\ todo \subseteq ToSet(CasesOf[group]) /\ todo # {}
  <1>1. pc \in InGroup /\ pc # "idle" /\ todo # {}
    BY DEF IInv, RunnerOK, InGroup, Active
  <1>2. Case \in todo /\ Case \in Cases
    BY <1>1, CaseMember
  <1>3. count[Case] \in Nat /\ count[Case] >= 1
    BY <1>2 DEF IInv, Typed, CaseOK
  <1> QED  BY <1>1, <1>2, <1>3 DEF IInv, RunnerOK, Typed

LEMMA NoFileFacts ==
    /\ NoFile \in File /\ NoFile.att = 0 /\ NoFile.ver = 0 /\ NoFile.val = "none"
    /\ \A f \in FileNames : "none" \in Values(f)
  BY DEF NoFile, File, Values, FileNames

\* While the files stay as they are, so do the facts about them.
LEMMA SameFiles ==
    ASSUME IInv, UNCHANGED <<disk, attempts, manifest, summary, count, disturbed, written>>,
           orphans' = orphans
    PROVE  /\ \A c \in Cases : FilesOK(c)'
           /\ OrphansOK' /\ ResultsKept' /\ SummaryStaysTrue'
           /\ \A w \in written' : 1 <= w[2]
           /\ \A c, v : Complete(c, v)' <=> Complete(c, v)
           /\ \A c : Present(c)' = Present(c)
  <1>1. \A c, v : Complete(c, v)' <=> Complete(c, v)
    BY DEF Complete
  <1>2. \A c : Present(c)' = Present(c)
    BY DEF Present
  <1>3. \A c \in Cases : FilesOK(c)'
    BY <1>2 DEF IInv, FilesOK
  <1>4. OrphansOK' /\ ResultsKept'
    BY DEF IInv, OrphansOK, ResultsKept
  <1>5. SummaryStaysTrue'
    BY <1>1 DEF IInv, SummaryStaysTrue
  <1>6. \A w \in written' : 1 <= w[2]
    BY DEF IInv
  <1> QED  BY <1>1, <1>2, <1>3, <1>4, <1>5, <1>6

-----------------------------------------------------------------------------
(* A run and its groups *)

LEMMA StartKeeps ==
    ASSUME IInv, NEW v \in Versions, Start(v)
    PROVE  IInv'
  <1>1. /\ UNCHANGED <<disk, attempts, summary, todo, server, timedOut, outcome, count, orphans,
                       disturbed, written, faults>>
        /\ pc = "idle" /\ manifest \in {0, v} /\ manifest' = v /\ run' = v
        /\ group' = 1 /\ pc' = "group" /\ v # 0
    BY DEF Start, MayResume
  <1>2. Typed'
    BY <1>1, GroupCases DEF IInv, Typed
  <1>3. RunnerOK'
    BY <1>1 DEF IInv, RunnerOK, InGroup, Active
  <1>4. CaseOK'
    BY <1>1 DEF CaseOK, Active
  <1>5. ASSUME NEW c \in Cases
        PROVE  FilesOK(c)' /\ (Complete(c, manifest)' => Complete(c, manifest))
    <2>1. FilesOK(c) /\ Present(c)' = Present(c)
      BY <1>1 DEF IInv, Present
    <2>2. CASE manifest = 0
      <3>1. Present(c) = {}
        BY <2>1, <2>2 DEF FilesOK
      <3>2. ~Complete(c, manifest)'
        <4>1. "result" \in FileNames
          BY DEF FileNames
        <4>2. disk[c]["result"] = NoFile
          BY <3>1, <4>1 DEF Present
        <4> QED  BY <1>1, <4>2, NoFileFacts DEF Complete
      <3> QED  BY <1>1, <2>1, <3>1, <3>2 DEF FilesOK
    <2>3. CASE manifest = v
      BY <1>1, <2>1, <2>3 DEF FilesOK, Complete
    <2> QED  BY <1>1, <2>2, <2>3
  <1>6. OrphansOK' /\ (\A w \in written' : 1 <= w[2]) /\ ResultsKept'
    BY <1>1 DEF IInv, OrphansOK, ResultsKept
  <1>7. TodoOK'
    BY <1>1 DEF IInv, TodoOK, RunnerOK
  <1>8. SummaryStaysTrue'
    <2>1. CASE manifest = 0
      BY <1>1, <2>1 DEF IInv, TodoOK, SummaryStaysTrue
    <2>2. CASE manifest = v
      BY <1>1, <2>2 DEF IInv, SummaryStaysTrue, Complete
    <2> QED  BY <1>1, <2>1, <2>2
  <1> QED  BY <1>2, <1>3, <1>4, <1>5, <1>6, <1>7, <1>8 DEF IInv

LEMMA NextGroupKeeps ==
    ASSUME IInv, NextGroup
    PROVE  IInv'
  <1>1. /\ UNCHANGED <<disk, attempts, manifest, summary, run, server, timedOut, outcome, count,
                       orphans, disturbed, written, faults>>
        /\ pc = "group" /\ group <= Len(CasesOf) /\ todo' = Incomplete(group)
        /\ \/ todo' = {} /\ group' = group + 1 /\ pc' = "group"
           \/ todo' # {} /\ group' = group /\ pc' = "launch"
    BY DEF NextGroup, files
  <1>2. group \in Groups /\ group >= 1 /\ group \in Nat
    BY <1>1, GroupCases DEF IInv, RunnerOK, Typed
  <1>3. todo' \subseteq ToSet(CasesOf[group]) /\ todo' \subseteq Cases
    BY <1>1, <1>2, GroupCases DEF Incomplete
  <1>4. run = manifest /\ manifest # 0
    BY <1>1 DEF IInv, RunnerOK
  <1>5. /\ \A c \in Cases : FilesOK(c)'
        /\ OrphansOK' /\ ResultsKept' /\ SummaryStaysTrue'
        /\ \A w \in written' : 1 <= w[2]
        /\ \A c, v : Complete(c, v)' <=> Complete(c, v)
    BY <1>1, SameFiles
  <1>6. Typed'
    <2>1. group' \in 0 .. Len(CasesOf) + 1
      BY <1>1, <1>2, GroupCases
    <2>2. pc' \in InGroup \cup {"idle", "group"}
      BY <1>1 DEF InGroup
    <2> QED  BY <1>1, <1>3, <2>1, <2>2 DEF IInv, Typed
  <1>7. RunnerOK'
    BY <1>1, <1>2, <1>3, <1>4 DEF IInv, RunnerOK, InGroup, Active
  <1>8. TodoOK'
    <2>1. \A c \in todo' : ~Complete(c, manifest)
      BY <1>1, <1>4 DEF Incomplete
    <2>2. \A row \in summary : row[1] \in disturbed \/ Complete(row[1], manifest)
      BY DEF IInv, SummaryStaysTrue
    <2> QED  BY <1>1, <1>4, <1>5, <2>1, <2>2 DEF TodoOK
  <1>9. CaseOK'
    BY <1>1 DEF CaseOK, Active
  <1> QED  BY <1>5, <1>6, <1>7, <1>8, <1>9 DEF IInv

\* Steps of the runner that leave group, cases and files alone.
LEMMA RunnerStepKeeps ==
    ASSUME IInv, pc # "idle",
           UNCHANGED <<disk, attempts, manifest, summary, run, group, todo, count,
                       orphans, disturbed, written>>,
           faults' \in 0 .. MaxFaults, server' \in {"off", "up", "dead"},
           timedOut' \in BOOLEAN, outcome' \in {"none", "rc0", "rc1", "timeout", "raised"},
           \/ pc' = pc
           \/ pc = "launch" /\ pc' \in {"case", "groupend"}
           \/ pc = "client" /\ pc' = "judge",
           timedOut' => pc' = "groupend" \/ (pc' \in {"judge", "summary"} /\ outcome' = "timeout")
    PROVE  IInv'
  <1>1. /\ \A c \in Cases : FilesOK(c)'
        /\ OrphansOK' /\ ResultsKept' /\ SummaryStaysTrue'
        /\ \A w \in written' : 1 <= w[2]
        /\ \A c, v : Complete(c, v)' <=> Complete(c, v)
        /\ \A c : Present(c)' = Present(c)
    BY SameFiles
  <1>2. Typed'
    BY DEF IInv, Typed, InGroup, Active
  <1>3. /\ Case' = Case /\ pc' # "idle" /\ (pc' = "group" => pc = "group")
        /\ (pc' \in Active => pc \in Active) /\ (pc' \in InGroup => pc \in InGroup)
        /\ (pc = "summary" => pc' = "summary")
    BY DEF InGroup, Active, Case
  <1>4. RunnerOK'
    BY <1>3 DEF IInv, RunnerOK
  <1>5. TodoOK'
    BY <1>1, <1>3 DEF IInv, TodoOK
  <1>6. CaseOK'
    <2>1. CASE pc' = pc
      BY <1>1, <1>3, <2>1 DEF IInv, CaseOK
    <2>2. CASE pc' \in {"case", "groupend"}
      BY <2>2 DEF CaseOK, Active
    <2>3. CASE pc = "client" /\ pc' = "judge"
      BY <1>1, <1>3, <2>3 DEF IInv, CaseOK, Active
    <2> QED  BY <2>1, <2>2, <2>3
  <1> QED  BY <1>1, <1>2, <1>4, <1>5, <1>6 DEF IInv

LEMMA LaunchKeeps ==
    ASSUME IInv, Launch
    PROVE  IInv'
  <1>1. faults \in 0 .. MaxFaults /\ outcome \in {"none", "rc0", "rc1", "timeout", "raised"}
        /\ MaxFaults \in Nat
    BY DEF IInv, Typed
  <1>2. faults' \in 0 .. MaxFaults
    BY <1>1 DEF Launch, Fault
  <1> QED  BY <1>1, <1>2, RunnerStepKeeps DEF Launch, files

LEMMA ServerDiesKeeps ==
    ASSUME IInv, ServerDies
    PROVE  IInv'
  <1>1. faults \in 0 .. MaxFaults /\ outcome \in {"none", "rc0", "rc1", "timeout", "raised"}
        /\ MaxFaults \in Nat /\ timedOut \in BOOLEAN
    BY DEF IInv, Typed
  <1>2. faults' \in 0 .. MaxFaults
    BY <1>1 DEF ServerDies, Fault
  <1>3. timedOut => pc = "groupend" \/ (pc \in {"judge", "summary"} /\ outcome = "timeout")
    BY DEF IInv, RunnerOK
  <1> QED  BY <1>1, <1>2, <1>3, RunnerStepKeeps DEF ServerDies, files

LEMMA ClientEndsKeeps ==
    ASSUME IInv, ClientEnds
    PROVE  IInv'
  <1>1. faults \in 0 .. MaxFaults /\ MaxFaults \in Nat /\ server \in {"off", "up", "dead"}
        /\ timedOut \in BOOLEAN
    BY DEF IInv, Typed
  <1>2. faults' \in 0 .. MaxFaults
    BY <1>1 DEF ClientEnds, Fault
  <1>3. timedOut = FALSE
    <2>1. ~timedOut
      BY DEF IInv, RunnerOK, ClientEnds
    <2> QED  BY <1>1, <2>1
  <1>4. /\ outcome' \in {"none", "rc0", "rc1", "timeout", "raised"} /\ timedOut' \in BOOLEAN
        /\ timedOut' => outcome' = "timeout"
    <2>1. \/ outcome' = "rc0" /\ timedOut' = timedOut
          \/ outcome' \in {"rc0", "rc1"} /\ timedOut' = timedOut
          \/ outcome' = "timeout" /\ timedOut' = TRUE
      BY DEF ClientEnds
    <2> QED  BY <1>3, <2>1
  <1> QED  BY <1>1, <1>2, <1>4, RunnerStepKeeps DEF ClientEnds, files

LEMMA EndGroupKeeps ==
    ASSUME IInv, EndGroup
    PROVE  IInv'
  <1>1. /\ UNCHANGED <<disk, attempts, manifest, summary, run, outcome, count, orphans, disturbed,
                       written, faults>>
        /\ pc \in {"groupend", "case"} /\ server' = "off" /\ timedOut' = FALSE /\ todo' = {}
        /\ group' = group + 1 /\ pc' = "group"
    BY DEF EndGroup, files
  <1>2. group \in Groups /\ run = manifest /\ manifest # 0
    BY <1>1 DEF IInv, RunnerOK, InGroup
  <1>3. /\ \A c \in Cases : FilesOK(c)'
        /\ OrphansOK' /\ ResultsKept' /\ SummaryStaysTrue'
        /\ \A w \in written' : 1 <= w[2]
    BY <1>1, SameFiles
  <1>4. Typed'
    <2>1. group' \in 0 .. Len(CasesOf) + 1
      BY <1>1, <1>2, GroupCases
    <2> QED  BY <1>1, <2>1 DEF IInv, Typed
  <1>5. RunnerOK'
    BY <1>1, <1>2, GroupCases DEF RunnerOK, InGroup, Active
  <1>6. TodoOK' /\ CaseOK'
    BY <1>1, <1>2 DEF TodoOK, CaseOK, Active
  <1> QED  BY <1>3, <1>4, <1>5, <1>6 DEF IInv

-----------------------------------------------------------------------------
(* One case *)

\* Writing a file f of the case being run, when the other files an undisturbed case
\* has are of this attempt: the case now has a file of this attempt there, nothing
\* else changes, and no row of the summary is about it.
LEMMA WriteKeeps ==
    ASSUME IInv, pc \in Active, NEW f \in FileNames, NEW val \in Values(f), Write(f, val),
           UNCHANGED <<attempts, manifest, summary, run, group, todo, count, orphans, disturbed>>,
           Case \notin disturbed =>
               \A g \in Present(Case) : g = f \/ disk[Case][g].att = count[Case]
    PROVE  /\ disk' \in [Cases -> [FileNames -> File]]
           /\ \A c \in Cases, g \in FileNames : disk'[c][g].val \in Values(g)
           /\ disk'[Case][f] = [att |-> count[Case], ver |-> run, val |-> val]
           /\ \A c \in Cases, g \in FileNames : c # Case \/ g # f => disk'[c][g] = disk[c][g]
           /\ Present(Case)' = Present(Case) \cup {f} /\ Case' = Case
           /\ \A c \in Cases : FilesOK(c)'
           /\ OrphansOK' /\ SummaryStaysTrue'
           /\ \A c \in Cases : \A v : c # Case => (Complete(c, v)' <=> Complete(c, v))
  <1> DEFINE new == [att |-> count[Case], ver |-> run, val |-> val]
  <1>1. /\ Case \in todo /\ Case \in Cases /\ count[Case] \in Nat /\ count[Case] >= 1
        /\ run = manifest /\ manifest \in Versions /\ manifest # 0
    BY ActiveCase
  <1>2. Typed /\ disk \in [Cases -> [FileNames -> File]]
    BY DEF IInv, Typed
  <1>3. /\ disk' = [disk EXCEPT ![Case][f] = new]
        /\ new.att = count[Case] /\ new.ver = manifest /\ new.val = val
    BY <1>1 DEF Write
  <1>4. new \in File /\ new # NoFile
    <2>1. val \in {"none", "manifest", "running", "success", "failed", "good", "bad"}
      BY DEF Values
    <2>2. new \in File
      BY <1>1, <2>1 DEF File
    <2> QED  BY <1>1, <1>3, <2>2, NoFileFacts
  <1> HIDE DEF new
  <1>5. /\ disk' \in [Cases -> [FileNames -> File]] /\ disk'[Case][f] = new
        /\ \A c \in Cases, g \in FileNames : c # Case \/ g # f => disk'[c][g] = disk[c][g]
    BY <1>1, <1>2, <1>3, <1>4
  <1>6. \A c \in Cases, g \in FileNames : disk'[c][g].val \in Values(g)
    <2>1. ASSUME NEW c \in Cases, NEW g \in FileNames PROVE disk'[c][g].val \in Values(g)
      <3>1. CASE c = Case /\ g = f
        BY <1>3, <1>5, <3>1
      <3>2. CASE c # Case \/ g # f
        BY <1>2, <1>5, <3>2 DEF Typed
      <3> QED  BY <3>1, <3>2
    <2> QED  BY <2>1
  <1>7. Present(Case)' = Present(Case) \cup {f} /\ Case' = Case
    <2>1. Case' = Case
      BY DEF Case
    <2> QED  BY <1>1, <1>4, <1>5, <2>1 DEF Present
  <1>8. ASSUME NEW c \in Cases, c # Case
        PROVE  FilesOK(c)' /\ \A v : Complete(c, v)' <=> Complete(c, v)
    <2>1. FilesOK(c) /\ \A g \in FileNames : disk'[c][g] = disk[c][g]
      BY <1>5, <1>8 DEF IInv
    <2>2. Present(c)' = Present(c)
      BY <2>1 DEF Present
    <2>3. \A g \in Present(c) : disk'[c][g] = disk[c][g]
      BY <2>1 DEF Present
    <2>4. FilesOK(c)'
      BY <2>1, <2>2, <2>3, SMTT(30) DEF FilesOK
    <2> QED  BY <2>1, <2>4 DEF Complete, FileNames
  <1>9. FilesOK(Case)'
    <2>1. FilesOK(Case)
      BY <1>1 DEF IInv
    <2>2. ASSUME NEW g \in Present(Case)'
          PROVE  /\ disk'[Case][g].ver = manifest
                 /\ 1 <= disk'[Case][g].att /\ disk'[Case][g].att <= count[Case]
                 /\ Case \notin disturbed => disk'[Case][g].att = count[Case]
      <3>1. CASE g = f
        BY <1>1, <1>3, <1>5, <3>1
      <3>2. CASE g # f
        <4>1. g \in Present(Case) /\ g \in FileNames /\ disk'[Case][g] = disk[Case][g]
          BY <1>1, <1>5, <1>7, <2>2, <3>2 DEF Present
        <4> QED  BY <2>1, <3>2, <4>1 DEF FilesOK
      <3> QED  BY <3>1, <3>2
    <2> QED  BY <1>1, <1>7, <2>1, <2>2 DEF FilesOK
  <1>10. OrphansOK'
    BY DEF IInv, OrphansOK
  <1>11. SummaryStaysTrue'
    <2>1. ASSUME NEW row \in summary, row[1] \notin disturbed
          PROVE  Complete(row[1], manifest)' /\ disk'[row[1]]["result"].att = row[2]
      <3>1. row[1] # Case /\ row[1] \in Cases
        BY <1>1, <1>2, <2>1 DEF IInv, TodoOK, Typed
      <3>2. Complete(row[1], manifest) /\ disk[row[1]]["result"].att = row[2]
        BY <2>1 DEF IInv, SummaryStaysTrue
      <3>3. \A g \in FileNames : disk'[row[1]][g] = disk[row[1]][g]
        BY <1>5, <3>1
      <3> QED  BY <1>8, <3>1, <3>2, <3>3 DEF FileNames, Complete
    <2> QED  BY <2>1 DEF SummaryStaysTrue
  <1> QED  BY <1>5, <1>6, <1>7, <1>8, <1>9, <1>10, <1>11 DEF new

\* The cases still to run, when only the case being run has changed.
LEMMA TodoKept ==
    ASSUME IInv, pc \in Active \cup {"case"}, UNCHANGED <<manifest, summary, group, todo, disturbed>>,
           \A c \in Cases : c # Case => (Complete(c, manifest)' <=> Complete(c, manifest)),
           Case \in disturbed \/ ~Complete(Case, manifest)' \/ pc' = "summary",
           pc # "summary"
    PROVE  TodoOK'
  <1>1. todo \subseteq Cases /\ Case' = Case
    BY DEF IInv, Typed, Case
  <1> QED  BY <1>1 DEF IInv, TodoOK

\* No result moves when another file is written.
LEMMA KeptByOtherFile ==
    ASSUME IInv, UNCHANGED <<attempts, disturbed, written>>,
           \A c \in Cases : disk'[c]["result"] = disk[c]["result"]
    PROVE  ResultsKept' /\ \A w \in written' : 1 <= w[2]
  <1>1. \A w \in written : w[1] \in Cases
    BY DEF IInv, Typed
  <1> QED  BY <1>1 DEF IInv, ResultsKept

LEMMA WriteResolvedKeeps ==
    ASSUME IInv, WriteResolved
    PROVE  IInv'
  <1>1. /\ pc = "resolve" /\ pc \in Active /\ pc' = "announce" /\ Write("resolved", "manifest")
        /\ UNCHANGED <<attempts, manifest, summary, run, group, todo, server, timedOut, outcome,
                       count, orphans, disturbed, written, faults>>
    BY DEF WriteResolved, Active
  <1>2. "resolved" \in FileNames /\ "manifest" \in Values("resolved")
    BY DEF FileNames, Values
  <1>3. Case \notin disturbed => Present(Case) = {}
    BY <1>1 DEF IInv, CaseOK
  <1>4. /\ Case \in todo /\ Case \in Cases /\ count[Case] \in Nat /\ count[Case] >= 1
        /\ run = manifest /\ manifest # 0 /\ group \in Groups
        /\ todo \subseteq ToSet(CasesOf[group]) /\ todo # {}
    BY <1>1, ActiveCase
  <1>5. /\ disk' \in [Cases -> [FileNames -> File]]
        /\ \A c \in Cases, g \in FileNames : disk'[c][g].val \in Values(g)
        /\ disk'[Case]["resolved"] = [att |-> count[Case], ver |-> run, val |-> "manifest"]
        /\ \A c \in Cases, g \in FileNames : c # Case \/ g # "resolved" => disk'[c][g] = disk[c][g]
        /\ Present(Case)' = Present(Case) \cup {"resolved"} /\ Case' = Case
        /\ \A c \in Cases : FilesOK(c)'
        /\ OrphansOK' /\ SummaryStaysTrue'
        /\ \A c \in Cases : \A v : c # Case => (Complete(c, v)' <=> Complete(c, v))
    BY <1>1, <1>2, <1>3, WriteKeeps
  <1>6. Typed'
    BY <1>1, <1>5 DEF IInv, Typed, InGroup, Active
  <1>7. RunnerOK'
    BY <1>1, <1>4 DEF IInv, RunnerOK, InGroup, Active
  <1>8. TodoOK'
    <2>1. Case \in disturbed \/ ~Complete(Case, manifest)'
      <3>1. Case \notin disturbed => disk[Case]["result"] = NoFile
        BY <1>3 DEF Present, FileNames
      <3>2. disk'[Case]["result"] = disk[Case]["result"]
        BY <1>4, <1>5 DEF FileNames
      <3> QED  BY <1>5, <3>1, <3>2, NoFileFacts DEF Complete
    <2> QED  BY <1>1, <1>5, <2>1, TodoKept
  <1>9. CaseOK'
    BY <1>1, <1>3, <1>4, <1>5 DEF CaseOK, Active
  <1>10. ResultsKept' /\ \A w \in written' : 1 <= w[2]
    <2>1. \A c \in Cases : disk'[c]["result"] = disk[c]["result"]
      BY <1>5 DEF FileNames
    <2> QED  BY <1>1, <2>1, KeptByOtherFile
  <1> QED  BY <1>5, <1>6, <1>7, <1>8, <1>9, <1>10 DEF IInv

LEMMA WriteRunningKeeps ==
    ASSUME IInv, WriteRunning
    PROVE  IInv'
  <1>1. /\ pc = "announce" /\ pc \in Active /\ pc' \in {"client", "judge"}
        /\ Write("status", "running") /\ outcome' \in {outcome, "raised"}
        /\ UNCHANGED <<attempts, manifest, summary, run, group, todo, server, timedOut,
                       count, orphans, disturbed, written, faults>>
    BY DEF WriteRunning, Active
  <1>2. "status" \in FileNames /\ "running" \in Values("status")
    BY DEF FileNames, Values
  <1>3. Case \notin disturbed => \A f \in Present(Case) :
            f = "resolved" /\ disk[Case][f].att = count[Case]
    BY <1>1 DEF IInv, CaseOK
  <1>4. /\ Case \in todo /\ Case \in Cases /\ count[Case] \in Nat /\ count[Case] >= 1
        /\ run = manifest /\ manifest # 0 /\ group \in Groups
        /\ todo \subseteq ToSet(CasesOf[group]) /\ todo # {}
    BY <1>1, ActiveCase
  <1>5. /\ disk' \in [Cases -> [FileNames -> File]]
        /\ \A c \in Cases, g \in FileNames : disk'[c][g].val \in Values(g)
        /\ disk'[Case]["status"] = [att |-> count[Case], ver |-> run, val |-> "running"]
        /\ \A c \in Cases, g \in FileNames : c # Case \/ g # "status" => disk'[c][g] = disk[c][g]
        /\ Present(Case)' = Present(Case) \cup {"status"} /\ Case' = Case
        /\ \A c \in Cases : FilesOK(c)'
        /\ OrphansOK' /\ SummaryStaysTrue'
        /\ \A c \in Cases : \A v : c # Case => (Complete(c, v)' <=> Complete(c, v))
    BY <1>1, <1>2, <1>3, WriteKeeps
  <1>6. Typed'
    BY <1>1, <1>5 DEF IInv, Typed, InGroup, Active
  <1>7. RunnerOK'
    BY <1>1, <1>4 DEF IInv, RunnerOK, InGroup, Active
  <1>8. disk'[Case]["status"].val = "running" /\ disk'[Case]["status"].att = count[Case]
    BY <1>5
  <1>9. TodoOK'
    <2>1. ~Complete(Case, manifest)'
      BY <1>5, <1>8 DEF Complete
    <2> QED  BY <1>1, <1>5, <2>1, TodoKept
  <1>10. CaseOK'
    <2>1. Case \notin disturbed => \A f \in Present(Case)' : disk'[Case][f].att = count[Case]
      <3>1. \A f \in Present(Case) : f = "resolved" => disk'[Case][f] = disk[Case][f]
        BY <1>4, <1>5 DEF FileNames
      <3> QED  BY <1>3, <1>5, <1>8, <3>1
    <2> QED  BY <1>1, <1>4, <1>5, <1>8, <2>1 DEF CaseOK, Active
  <1>11. ResultsKept' /\ \A w \in written' : 1 <= w[2]
    <2>1. \A c \in Cases : disk'[c]["result"] = disk[c]["result"]
      BY <1>5 DEF FileNames
    <2> QED  BY <1>1, <2>1, KeptByOtherFile
  <1> QED  BY <1>5, <1>6, <1>7, <1>9, <1>10, <1>11 DEF IInv

LEMMA JudgeKeeps ==
    ASSUME IInv, Judge
    PROVE  IInv'
  <1>1. PICK val \in {"success", "failed"} : Write("status", val)
    BY DEF Judge
  <1>2. /\ pc = "judge" /\ pc \in Active /\ pc' = "summary"
        /\ UNCHANGED <<attempts, manifest, summary, run, group, todo, server, timedOut, outcome,
                       count, orphans, disturbed, written, faults>>
    BY DEF Judge, Active
  <1>3. "status" \in FileNames /\ val \in Values("status")
    BY DEF FileNames, Values
  <1>4. Case \notin disturbed => \A f \in Present(Case) : disk[Case][f].att = count[Case]
    BY <1>2 DEF IInv, CaseOK
  <1>5. /\ Case \in todo /\ Case \in Cases /\ count[Case] \in Nat /\ count[Case] >= 1
        /\ run = manifest /\ manifest # 0 /\ group \in Groups
        /\ todo \subseteq ToSet(CasesOf[group]) /\ todo # {}
    BY <1>2, ActiveCase
  <1>6. /\ disk' \in [Cases -> [FileNames -> File]]
        /\ \A c \in Cases, g \in FileNames : disk'[c][g].val \in Values(g)
        /\ \A c \in Cases, g \in FileNames : c # Case \/ g # "status" => disk'[c][g] = disk[c][g]
        /\ Case' = Case
        /\ \A c \in Cases : FilesOK(c)'
        /\ OrphansOK' /\ SummaryStaysTrue'
        /\ \A c \in Cases : \A v : c # Case => (Complete(c, v)' <=> Complete(c, v))
    BY <1>1, <1>2, <1>3, <1>4, WriteKeeps
  <1>7. Typed'
    BY <1>2, <1>6 DEF IInv, Typed, InGroup, Active
  <1>8. RunnerOK'
    BY <1>2, <1>5 DEF IInv, RunnerOK, InGroup, Active
  <1>9. TodoOK'
    BY <1>2, <1>6, TodoKept
  <1>10. CaseOK'
    BY <1>2, <1>5, <1>6 DEF CaseOK, Active
  <1>11. ResultsKept' /\ \A w \in written' : 1 <= w[2]
    <2>1. \A c \in Cases : disk'[c]["result"] = disk[c]["result"]
      BY <1>6 DEF FileNames
    <2> QED  BY <1>2, <2>1, KeptByOtherFile
  <1> QED  BY <1>6, <1>7, <1>8, <1>9, <1>10, <1>11 DEF IInv

\* A result is written where there is none: the guard excludes one of this attempt,
\* and the archive has taken those of earlier ones.
LEMMA ClientWritesKeeps ==
    ASSUME IInv, NEW val \in {"good", "bad"}, ClientWrites(val)
    PROVE  IInv'
  <1>1. /\ pc = "client" /\ pc \in Active /\ pc' = pc /\ Write("result", val)
        /\ disk[Case]["result"].att # count[Case]
        /\ written' = written \cup {<<Case, count[Case]>>}
        /\ UNCHANGED <<attempts, manifest, summary, run, group, todo, server, timedOut, outcome,
                       count, orphans, disturbed>>
    BY DEF ClientWrites, Active, runner
  <1>2. "result" \in FileNames /\ val \in Values("result")
    BY DEF FileNames, Values
  <1>3. /\ Case \notin disturbed => \A f \in Present(Case) : disk[Case][f].att = count[Case]
        /\ disk[Case]["status"].val = "running"
    BY <1>1 DEF IInv, CaseOK
  <1>4. /\ Case \in todo /\ Case \in Cases /\ count[Case] \in Nat /\ count[Case] >= 1
        /\ run = manifest /\ manifest # 0 /\ group \in Groups
        /\ todo \subseteq ToSet(CasesOf[group]) /\ todo # {}
    BY <1>1, ActiveCase
  <1>5. /\ disk' \in [Cases -> [FileNames -> File]]
        /\ \A c \in Cases, g \in FileNames : disk'[c][g].val \in Values(g)
        /\ disk'[Case]["result"] = [att |-> count[Case], ver |-> run, val |-> val]
        /\ \A c \in Cases, g \in FileNames : c # Case \/ g # "result" => disk'[c][g] = disk[c][g]
        /\ Present(Case)' = Present(Case) \cup {"result"} /\ Case' = Case
        /\ \A c \in Cases : FilesOK(c)'
        /\ OrphansOK' /\ SummaryStaysTrue'
        /\ \A c \in Cases : \A v : c # Case => (Complete(c, v)' <=> Complete(c, v))
    BY <1>1, <1>2, <1>3, WriteKeeps
  <1>6. Typed'
    <2>1. faults' \in 0 .. MaxFaults
      BY DEF IInv, Typed, ClientWrites, Fault
    <2>2. written' \subseteq Cases \X Nat
      BY <1>1, <1>4 DEF IInv, Typed
    <2> QED  BY <1>1, <1>5, <2>1, <2>2 DEF IInv, Typed
  <1>7. RunnerOK'
    BY <1>1, <1>4 DEF IInv, RunnerOK
  <1>8. disk'[Case]["status"] = disk[Case]["status"]
    BY <1>4, <1>5 DEF FileNames
  <1>9. TodoOK'
    <2>1. ~Complete(Case, manifest)'
      BY <1>3, <1>5, <1>8 DEF Complete
    <2> QED  BY <1>1, <1>5, <2>1, TodoKept
  <1>10. CaseOK'
    <2>1. Case \notin disturbed => \A f \in Present(Case)' : disk'[Case][f].att = count[Case]
      <3>1. \A f \in Present(Case) : f # "result" => disk'[Case][f] = disk[Case][f]
        BY <1>4, <1>5 DEF Present
      <3>2. disk'[Case]["result"].att = count[Case]
        BY <1>5
      <3> QED  BY <1>3, <1>5, <3>1, <3>2
    <2> QED  BY <1>1, <1>3, <1>4, <1>5, <1>8, <2>1 DEF CaseOK
  <1>11. ResultsKept' /\ \A w \in written' : 1 <= w[2]
    <2>1. Case \in disturbed \/ disk[Case]["result"] = NoFile
      BY <1>1, <1>2, <1>3 DEF Present
    <2>2. ASSUME NEW w \in written, w[1] \notin disturbed
          PROVE  \/ disk'[w[1]]["result"].att = w[2]
                 \/ \E i \in DOMAIN attempts[w[1]] : attempts[w[1]][i]["result"].att = w[2]
      <3>1. /\ \/ disk[w[1]]["result"].att = w[2]
               \/ \E i \in DOMAIN attempts[w[1]] : attempts[w[1]][i]["result"].att = w[2]
            /\ 1 <= w[2] /\ w[1] \in Cases
        BY <2>2 DEF IInv, ResultsKept, Typed
      <3>2. CASE w[1] = Case
        BY <2>1, <2>2, <3>1, <3>2, NoFileFacts
      <3>3. CASE w[1] # Case
        BY <1>2, <1>5, <3>1, <3>3
      <3> QED  BY <3>2, <3>3
    <2>3. disk'[Case]["result"].att = count[Case]
      BY <1>5
    <2>4. ASSUME NEW w \in written', w \notin written
          PROVE  disk'[w[1]]["result"].att = w[2] /\ 1 <= w[2]
      BY <1>1, <1>4, <2>3, <2>4
    <2>5. \A w \in written : 1 <= w[2]
      BY DEF IInv
    <2> QED  BY <1>1, <2>2, <2>4, <2>5 DEF ResultsKept
  <1> QED  BY <1>5, <1>6, <1>7, <1>9, <1>10, <1>11 DEF IInv

\* The archive directory of a new attempt is empty, so no file is overwritten in it.
LEMMA NextCaseKeeps ==
    ASSUME IInv, NextCase
    PROVE  IInv'
  <1>1. /\ pc = "case" /\ todo # {} /\ count' = [count EXCEPT ![Case] = @ + 1]
        /\ \/ Present(Case) = {} /\ pc' = "resolve" /\ attempts' = attempts
           \/ /\ Present(Case) # {} /\ pc' = "archive"
              /\ attempts' = [attempts EXCEPT ![Case] = Append(@, Empty)]
        /\ UNCHANGED <<disk, manifest, summary, run, group, todo, server, timedOut, outcome,
                       orphans, disturbed, written, faults>>
    BY DEF NextCase, BeginArchive
  <1>2. pc \in InGroup /\ Case \in todo /\ Case \in Cases /\ Case' = Case
    BY <1>1, CaseMember DEF InGroup, Case
  <1>3. Empty \in [FileNames -> File] /\ \A f \in FileNames : Empty[f] = NoFile
    BY NoFileFacts DEF Empty
  <1>4. /\ count \in [Cases -> Nat] /\ attempts \in [Cases -> Seq([FileNames -> File])]
        /\ \A c \in Cases : FilesOK(c)
    BY DEF IInv, Typed
  <1>5. /\ count' \in [Cases -> Nat] /\ count'[Case] = count[Case] + 1 /\ count[Case] \in Nat
        /\ \A c \in Cases : c # Case => count'[c] = count[c] /\ attempts'[c] = attempts[c]
    BY <1>1, <1>2, <1>4
  <1>6. \A c : Present(c)' = Present(c)
    BY <1>1 DEF Present
  <1>7. /\ attempts' \in [Cases -> Seq([FileNames -> File])]
        /\ Present(Case) = {} => attempts'[Case] = attempts[Case]
        /\ Present(Case) # {} =>
              /\ attempts'[Case] # <<>> /\ Len(attempts'[Case]) = Len(attempts[Case]) + 1
              /\ attempts'[Case][Len(attempts'[Case])] = Empty
        /\ \A i \in DOMAIN attempts[Case] :
              i \in DOMAIN attempts'[Case] /\ attempts'[Case][i] = attempts[Case][i]
        /\ Len(attempts[Case]) \in Nat
    <2>1. attempts[Case] \in Seq([FileNames -> File]) /\ Len(attempts[Case]) \in Nat
      BY <1>2, <1>4, LenProperties
    <2>2. CASE Present(Case) = {}
      BY <1>1, <1>4, <2>1, <2>2
    <2>3. CASE Present(Case) # {}
      <3>1. attempts'[Case] = Append(attempts[Case], Empty)
        BY <1>1, <1>2, <1>4, <2>3
      <3>2. /\ Append(attempts[Case], Empty) \in Seq([FileNames -> File])
            /\ Append(attempts[Case], Empty) # <<>>
            /\ Len(Append(attempts[Case], Empty)) = Len(attempts[Case]) + 1
        BY <1>3, <2>1, AppendIndices, SMTT(30)
      <3>3. /\ DOMAIN Append(attempts[Case], Empty) = DOMAIN attempts[Case] \cup {Len(attempts[Case]) + 1}
            /\ \A i \in DOMAIN attempts[Case] :
                  Append(attempts[Case], Empty)[i] = attempts[Case][i]
            /\ Append(attempts[Case], Empty)[Len(attempts[Case]) + 1] = Empty
        BY <1>3, <2>1, AppendIndices
      <3>4. attempts' \in [Cases -> Seq([FileNames -> File])]
        BY <1>1, <1>2, <1>4, <2>3, <3>2
      <3> QED  BY <2>1, <2>3, <3>1, <3>2, <3>3, <3>4
    <2> QED  BY <2>2, <2>3
  <1>8. ASSUME NEW c \in Cases PROVE FilesOK(c)'
    <2>1. FilesOK(c)
      BY <1>4
    <2>2. CASE c # Case
      BY <1>1, <1>5, <1>6, <2>1, <2>2 DEF FilesOK
    <2>3. CASE c = Case
      <3>1. \A f \in Present(Case) : disk[Case][f].att \in Nat
        BY <1>2 DEF IInv, Typed, File, Present
      <3>2. \A f \in Present(Case) : disk[Case][f].att <= count'[Case] /\ count[Case] # 0
        BY <1>5, <2>1, <2>3, <3>1 DEF FilesOK
      <3>3. count'[Case] # 0 /\ Len(attempts'[Case]) < count'[Case]
        <4>1. CASE Present(Case) = {}
          <5>1. count[Case] = 0 => Len(attempts[Case]) = 0
            BY <2>1, <2>3, EmptySeq DEF FilesOK
          <5> QED  BY <1>5, <1>7, <2>1, <2>3, <4>1, <5>1 DEF FilesOK
        <4>2. CASE Present(Case) # {}
          BY <1>5, <1>7, <2>1, <2>3, <3>2, <4>2 DEF FilesOK
        <4> QED  BY <4>1, <4>2
      <3> QED  BY <1>1, <1>2, <1>6, <2>1, <2>3, <3>2, <3>3 DEF FilesOK
    <2> QED  BY <2>2, <2>3
  <1>9. Typed'
    BY <1>1, <1>5, <1>7 DEF IInv, Typed, InGroup, Active
  <1>10. OrphansOK'
    <2>1. ASSUME NEW o \in orphans PROVE o[2] <= count'[o[1]]
      <3>1. o[1] \in Cases /\ o[2] \in Nat /\ o[2] <= count[o[1]]
        BY DEF IInv, OrphansOK, Typed
      <3>2. CASE o[1] = Case
        BY <1>5, <3>1, <3>2
      <3>3. CASE o[1] # Case
        BY <1>5, <3>1, <3>3
      <3> QED  BY <3>2, <3>3
    <2> QED  BY <1>1, <2>1 DEF IInv, OrphansOK
  <1>11. RunnerOK'
    BY <1>1, <1>2 DEF IInv, RunnerOK, InGroup, Active
  <1>12. \A c, v : Complete(c, v)' <=> Complete(c, v)
    BY <1>1 DEF Complete
  <1>13. TodoOK'
    BY <1>1, <1>12 DEF IInv, TodoOK
  <1>14. CaseOK'
    BY <1>1, <1>2, <1>3, <1>5, <1>6, <1>7 DEF CaseOK, Active, Present
  <1>15. ResultsKept' /\ \A w \in written' : 1 <= w[2]
    <2>1. ASSUME NEW w \in written, NEW i \in DOMAIN attempts[w[1]]
          PROVE  i \in DOMAIN attempts'[w[1]] /\ attempts'[w[1]][i] = attempts[w[1]][i]
      <3>1. w[1] \in Cases
        BY DEF IInv, Typed
      <3> QED  BY <1>5, <1>7, <2>1, <3>1
    <2> QED  BY <1>1, <2>1, ZenonT(30) DEF IInv, ResultsKept
  <1>16. SummaryStaysTrue'
    BY <1>1, <1>12 DEF IInv, SummaryStaysTrue
  <1> QED  BY <1>8, <1>9, <1>10, <1>11, <1>13, <1>14, <1>15, <1>16 DEF IInv

\* Moving one file: it is in exactly one of the two places before and after.
LEMMA ArchiveFileKeeps ==
    ASSUME IInv, NEW f \in FileNames, ArchiveFile(f)
    PROVE  IInv'
  <1> DEFINE n == Len(attempts[Case])
             dir == [attempts[Case][n] EXCEPT ![f] = disk[Case][f]]
  <1>1. /\ pc = "archive" /\ pc \in Active /\ f \in Present(Case)
        /\ attempts' = [attempts EXCEPT ![Case][n][f] = disk[Case][f]]
        /\ disk' = [disk EXCEPT ![Case][f] = NoFile]
        /\ pc' = IF Present(Case) = {f} THEN "resolve" ELSE "archive"
        /\ UNCHANGED <<manifest, summary, run, group, todo, server, timedOut, outcome, count,
                       orphans, disturbed, written, faults>>
    BY DEF ArchiveFile, Active
  <1>2. /\ Case \in todo /\ Case \in Cases /\ count[Case] \in Nat /\ count[Case] >= 1
        /\ run = manifest /\ manifest # 0 /\ group \in Groups
        /\ todo \subseteq ToSet(CasesOf[group]) /\ todo # {}
    BY <1>1, ActiveCase
  <1>3. Case' = Case
    BY <1>1 DEF Case
  <1>4. /\ disk \in [Cases -> [FileNames -> File]]
        /\ attempts \in [Cases -> Seq([FileNames -> File])]
        /\ attempts[Case] # <<>>
        /\ Case \notin disturbed => \A g \in Present(Case) : attempts[Case][n][g] = NoFile
    BY <1>1 DEF IInv, Typed, CaseOK
  <1>5. n \in 1 .. n /\ n \in Nat /\ DOMAIN attempts[Case] = 1 .. n
    <2>1. attempts[Case] \in Seq([FileNames -> File])
      BY <1>2, <1>4
    <2>2. n \in Nat /\ DOMAIN attempts[Case] = 1 .. n
      BY <2>1, LenProperties
    <2>3. n # 0
      BY <1>4, <2>1, EmptySeq, SeqEqual
    <2> QED  BY <2>2, <2>3
  <1>6. /\ disk' \in [Cases -> [FileNames -> File]] /\ disk'[Case][f] = NoFile
        /\ \A c \in Cases, g \in FileNames : c # Case \/ g # f => disk'[c][g] = disk[c][g]
    BY <1>1, <1>2, <1>4, NoFileFacts
  <1>7. attempts[Case][n] \in [FileNames -> File] /\ dir \in [FileNames -> File]
    <2>1. attempts[Case][n] \in [FileNames -> File]
      BY <1>2, <1>4, <1>5, ElementOfSeq
    <2>2. disk[Case][f] \in File
      BY <1>2, <1>4
    <2> QED  BY <2>1, <2>2
  <1>8. /\ attempts' \in [Cases -> Seq([FileNames -> File])]
        /\ attempts'[Case] = [attempts[Case] EXCEPT ![n] = dir]
        /\ \A c \in Cases : c # Case => attempts'[c] = attempts[c]
        /\ Len(attempts'[Case]) = n /\ attempts'[Case] # <<>>
        /\ \A i \in 1 .. n : attempts'[Case][i] = IF i = n THEN dir ELSE attempts[Case][i]
    <2> HIDE DEF n
    <2>1. attempts' = [attempts EXCEPT ![Case] = [attempts[Case] EXCEPT ![n] = dir]]
      BY <1>1
    <2> HIDE DEF dir
    <2>2. attempts[Case] \in Seq([FileNames -> File]) /\ n \in 1 .. Len(attempts[Case])
      BY <1>2, <1>4, <1>5 DEF n
    <2>3. /\ [attempts[Case] EXCEPT ![n] = dir] \in Seq([FileNames -> File])
          /\ Len([attempts[Case] EXCEPT ![n] = dir]) = Len(attempts[Case])
          /\ \A i \in 1 .. Len(attempts[Case]) :
                [attempts[Case] EXCEPT ![n] = dir][i] = IF i = n THEN dir ELSE attempts[Case][i]
      BY <1>7, <2>2, ExceptSeq
    <2>4. /\ attempts'[Case] = [attempts[Case] EXCEPT ![n] = dir]
          /\ \A c \in Cases : c # Case => attempts'[c] = attempts[c]
      BY <1>2, <1>4, <2>1
    <2>5. attempts' \in [Cases -> Seq([FileNames -> File])]
      BY <1>2, <1>4, <2>1, <2>3
    <2>6. [attempts[Case] EXCEPT ![n] = dir] # <<>>
      BY <1>5, <2>3, EmptySeq DEF n
    <2> QED  BY <2>3, <2>4, <2>5, <2>6 DEF n
  <1>9. dir[f] = disk[Case][f] /\ \A g \in FileNames : g # f => dir[g] = attempts[Case][n][g]
    BY <1>7
  <1> HIDE DEF dir, n
  <1>10. /\ Present(Case)' = Present(Case) \ {f}
         /\ \A c \in Cases : c # Case => Present(c)' = Present(c)
    BY <1>2, <1>3, <1>6 DEF Present
  <1>11. ASSUME NEW c \in Cases PROVE FilesOK(c)'
    <2>1. FilesOK(c)
      BY DEF IInv
    <2>2. CASE c # Case
      <3>1. Present(c)' = Present(c) /\ \A g \in Present(c) : disk'[c][g] = disk[c][g]
        BY <1>6, <1>10, <2>2 DEF Present
      <3> QED  BY <1>1, <1>8, <2>1, <2>2, <3>1 DEF FilesOK
    <2>3. CASE c = Case
      <3>1. /\ Present(Case)' \subseteq Present(Case)
            /\ \A g \in Present(Case)' : disk'[Case][g] = disk[Case][g]
        BY <1>2, <1>6, <1>10 DEF Present
      <3>2. count[Case] # 0 /\ Len(attempts'[Case]) = Len(attempts[Case])
        BY <1>2, <1>8 DEF n
      <3> QED  BY <1>1, <1>3, <2>1, <2>3, <3>1, <3>2 DEF FilesOK
    <2> QED  BY <2>2, <2>3
  <1>12. Typed'
    <2>1. \A c \in Cases, g \in FileNames : disk'[c][g].val \in Values(g)
      <3>1. ASSUME NEW c \in Cases, NEW g \in FileNames PROVE disk'[c][g].val \in Values(g)
        <4>1. CASE c = Case /\ g = f
          BY <1>6, <4>1, NoFileFacts
        <4>2. CASE c # Case \/ g # f
          BY <1>6, <4>2 DEF IInv, Typed
        <4> QED  BY <4>1, <4>2
      <3> QED  BY <3>1
    <2>2. pc' \in InGroup
      BY <1>1 DEF InGroup, Active
    <2> QED  BY <1>1, <1>6, <1>8, <2>1, <2>2 DEF IInv, Typed
  <1>13. OrphansOK'
    BY <1>1 DEF IInv, OrphansOK
  <1>14. RunnerOK'
    BY <1>1, <1>2 DEF IInv, RunnerOK, InGroup, Active
  <1>15. ASSUME NEW c \in Cases, c # Case
         PROVE  Complete(c, manifest)' <=> Complete(c, manifest)
    <2>1. \A g \in FileNames : disk'[c][g] = disk[c][g]
      BY <1>6, <1>15
    <2> QED  BY <1>1, <2>1 DEF Complete, FileNames
  <1>16. ~Complete(Case, manifest)'
    <2>1. f \in {"resolved", "status", "result"}
      BY DEF FileNames
    <2> QED  BY <1>1, <1>2, <1>3, <1>6, <2>1, NoFileFacts DEF Complete
  <1>17. TodoOK'
    BY <1>1, <1>15, <1>16, TodoKept
  <1>18. CaseOK'
    <2>1. pc' = "resolve" => Present(Case)' = {}
      BY <1>1, <1>10
    <2>2. Case \notin disturbed => \A g \in Present(Case)' : attempts'[Case][n][g] = NoFile
      <3>1. \A g \in Present(Case)' : g \in Present(Case) /\ g \in FileNames /\ g # f
        BY <1>10 DEF Present
      <3>2. attempts'[Case][n] = dir
        BY <1>5, <1>8
      <3> QED  BY <1>4, <1>9, <3>1, <3>2
    <2>3. pc' \in {"resolve", "archive"}
      BY <1>1
    <2> QED  BY <1>1, <1>2, <1>3, <1>8, <2>1, <2>2, <2>3 DEF CaseOK
  <1>19. ResultsKept' /\ \A w \in written' : 1 <= w[2]
    <2>1. ASSUME NEW w \in written, w[1] \notin disturbed
          PROVE  \/ disk'[w[1]]["result"].att = w[2]
                 \/ \E i \in DOMAIN attempts'[w[1]] : attempts'[w[1]][i]["result"].att = w[2]
      <3>1. /\ \/ disk[w[1]]["result"].att = w[2]
               \/ \E i \in DOMAIN attempts[w[1]] : attempts[w[1]][i]["result"].att = w[2]
            /\ 1 <= w[2] /\ w[1] \in Cases
        BY <2>1 DEF IInv, ResultsKept, Typed
      <3>2. "result" \in FileNames
        BY DEF FileNames
      <3>3. CASE w[1] # Case
        BY <1>6, <1>8, <3>1, <3>2, <3>3
      <3>4. CASE w[1] = Case
        <4>1. DOMAIN attempts'[Case] = 1 .. n /\ n \in 1 .. n /\ attempts'[Case][n] = dir
          <5>1. attempts'[Case] \in Seq([FileNames -> File])
            BY <1>2, <1>8
          <5> QED  BY <1>5, <1>8, <5>1, LenProperties
        <4>2. CASE disk[Case]["result"].att = w[2]
          <5>1. CASE f = "result"
            BY <1>9, <3>4, <4>1, <4>2, <5>1
          <5>2. CASE f # "result"
            BY <1>2, <1>6, <3>2, <3>4, <4>2, <5>2
          <5> QED  BY <5>1, <5>2
        <4>3. ASSUME NEW i \in 1 .. n, attempts[Case][i]["result"].att = w[2]
              PROVE  attempts'[Case][i]["result"].att = w[2]
          <5>1. CASE i # n
            BY <1>8, <4>3, <5>1
          <5>2. CASE i = n
            <6>1. f = "result" => attempts[Case][n]["result"] = NoFile
              BY <1>1, <1>4, <2>1, <3>4
            <6>2. f # "result"
              BY <3>1, <4>3, <5>2, <6>1, NoFileFacts
            <6> QED  BY <1>9, <3>2, <4>1, <4>3, <5>2, <6>2
          <5> QED  BY <5>1, <5>2
        <4> QED  BY <1>5, <3>1, <3>4, <4>1, <4>2, <4>3
      <3> QED  BY <3>3, <3>4
    <2> QED  BY <1>1, <2>1 DEF IInv, ResultsKept
  <1>20. SummaryStaysTrue'
    <2>1. ASSUME NEW row \in summary, row[1] \notin disturbed
          PROVE  Complete(row[1], manifest)' /\ disk'[row[1]]["result"].att = row[2]
      <3>1. row[1] # Case /\ row[1] \in Cases
        BY <1>2, <2>1 DEF IInv, TodoOK, Typed
      <3>2. Complete(row[1], manifest) /\ disk[row[1]]["result"].att = row[2]
        BY <2>1 DEF IInv, SummaryStaysTrue
      <3>3. \A g \in FileNames : disk'[row[1]][g] = disk[row[1]][g]
        BY <1>6, <3>1
      <3> QED  BY <1>1, <3>2, <3>3 DEF FileNames, Complete
    <2> QED  BY <1>1, <2>1 DEF SummaryStaysTrue
  <1> QED  BY <1>11, <1>12, <1>13, <1>14, <1>17, <1>18, <1>19, <1>20 DEF IInv

\* A row is written only for a complete case, and its case is not in the rest.
LEMMA RowsTrue ==
    ASSUME IInv, run = manifest
    PROVE  /\ Rows \subseteq Cases \X Nat
           /\ \A row \in Rows : Complete(row[1], manifest) /\ disk[row[1]]["result"].att = row[2]
  <1>1. \A c \in Cases : disk[c]["result"].att \in Nat
    BY DEF IInv, Typed, FileNames, File
  <1> QED  BY <1>1 DEF Rows

LEMMA AfterCaseKeeps ==
    ASSUME IInv, AfterCase
    PROVE  IInv'
  <1>1. /\ pc = "summary" /\ pc \in Active /\ summary' = Rows /\ todo' = todo \ {Case}
        /\ outcome' = "none" /\ pc' \in {"case", "groupend"}
        /\ outcome = "timeout" => pc' = "groupend"
        /\ UNCHANGED <<disk, attempts, manifest, run, group, server, timedOut, count, orphans,
                       disturbed, written, faults>>
    BY DEF AfterCase, Active, GoesOn
  <1>2. /\ Case \in todo /\ run = manifest /\ manifest # 0 /\ group \in Groups
        /\ todo \subseteq ToSet(CasesOf[group])
    BY <1>1, ActiveCase
  <1>3. /\ Rows \subseteq Cases \X Nat
        /\ \A row \in Rows : Complete(row[1], manifest) /\ disk[row[1]]["result"].att = row[2]
    BY <1>2, RowsTrue
  <1>4. Typed'
    BY <1>1, <1>3 DEF IInv, Typed, InGroup
  <1>5. \A c \in Cases : FilesOK(c)'
    BY <1>1 DEF IInv, FilesOK, Present
  <1>6. OrphansOK' /\ ResultsKept' /\ \A w \in written' : 1 <= w[2]
    BY <1>1 DEF IInv, OrphansOK, ResultsKept
  <1>7. RunnerOK'
    BY <1>1, <1>2 DEF IInv, RunnerOK, InGroup, Active
  <1>8. \A c, v : Complete(c, v)' <=> Complete(c, v)
    BY <1>1 DEF Complete
  <1>9. TodoOK'
    <2>1. \A c \in todo' : c \in disturbed \/ ~Complete(c, manifest)
      BY <1>1 DEF IInv, TodoOK
    <2> QED  BY <1>1, <1>2, <1>3, <1>8, <2>1 DEF TodoOK
  <1>10. CaseOK'
    BY <1>1 DEF CaseOK, Active
  <1>11. SummaryStaysTrue'
    BY <1>1, <1>3, <1>8 DEF SummaryStaysTrue
  <1> QED  BY <1>4, <1>5, <1>6, <1>7, <1>9, <1>10, <1>11 DEF IInv

LEMMA ExitKeeps ==
    ASSUME IInv, Exit
    PROVE  IInv'
  <1>1. /\ pc = "group" /\ summary' = Rows /\ pc' = "idle" /\ group' = 0 /\ run' = 0
        /\ UNCHANGED <<disk, attempts, manifest, todo, server, timedOut, outcome, count, orphans,
                       disturbed, written, faults>>
    BY DEF Exit
  <1>2. todo = {} /\ run = manifest /\ manifest # 0 /\ ~timedOut
    BY <1>1 DEF IInv, RunnerOK
  <1>3. /\ Rows \subseteq Cases \X Nat
        /\ \A row \in Rows : Complete(row[1], manifest) /\ disk[row[1]]["result"].att = row[2]
    BY <1>2, RowsTrue
  <1>4. Typed'
    BY <1>1, <1>3, GroupCases DEF IInv, Typed
  <1>5. \A c \in Cases : FilesOK(c)'
    BY <1>1 DEF IInv, FilesOK, Present
  <1>6. OrphansOK' /\ ResultsKept' /\ \A w \in written' : 1 <= w[2]
    BY <1>1 DEF IInv, OrphansOK, ResultsKept
  <1>7. RunnerOK'
    BY <1>1, <1>2 DEF RunnerOK, InGroup, Active
  <1>8. TodoOK' /\ CaseOK'
    BY <1>1, <1>2 DEF TodoOK, CaseOK, Active
  <1>9. SummaryStaysTrue'
    BY <1>1, <1>3 DEF SummaryStaysTrue, Complete
  <1> QED  BY <1>4, <1>5, <1>6, <1>7, <1>8, <1>9 DEF IInv

-----------------------------------------------------------------------------
(* Faults *)

LEMMA KillKeeps ==
    ASSUME IInv, Kill
    PROVE  IInv'
  <1>1. /\ pc # "idle" /\ pc' = "idle" /\ run' = 0 /\ group' = 0 /\ todo' = {} /\ outcome' = "none"
        /\ server' = "off" /\ timedOut' = FALSE
        /\ UNCHANGED <<disk, attempts, manifest, summary, count, written>>
    BY DEF Kill, files
  <1>2. faults' \in 0 .. MaxFaults
    BY DEF IInv, Typed, Kill, Fault
  <1>3. \/ orphans' = orphans /\ disturbed' = disturbed
        \/ /\ pc = "client" /\ orphans' = orphans \cup {<<Case, count[Case], run>>}
           /\ disturbed' = disturbed \cup {Case}
    BY DEF Kill
  <1>4. pc = "client" => /\ Case \in Cases /\ count[Case] \in Nat /\ count[Case] >= 1
                         /\ run = manifest /\ manifest # 0
    BY ActiveCase DEF Active
  <1>5. disturbed \subseteq disturbed' /\ disturbed' \subseteq Cases
    BY <1>3, <1>4 DEF IInv, Typed
  <1>6. Typed'
    <2>1. group' \in 0 .. Len(CasesOf) + 1
      BY <1>1, GroupCases
    <2> QED  BY <1>1, <1>2, <1>5, <2>1 DEF IInv, Typed
  <1>7. \A c \in Cases : FilesOK(c)'
    BY <1>1, <1>5 DEF IInv, FilesOK, Present
  <1>8. OrphansOK'
    <2>1. ASSUME NEW o \in orphans, o[1] \in disturbed' PROVE
            /\ o[2] \in Nat /\ 1 <= o[2] /\ o[2] <= count'[o[1]] /\ o[3] = manifest' /\ manifest' # 0
      BY <1>1 DEF IInv, OrphansOK
    <2>2. \A o \in orphans : o[1] \in disturbed'
      BY <1>5 DEF IInv, OrphansOK
    <2>3. CASE orphans' = orphans
      BY <2>1, <2>2, <2>3 DEF OrphansOK
    <2>4. CASE /\ pc = "client" /\ orphans' = orphans \cup {<<Case, count[Case], run>>}
               /\ disturbed' = disturbed \cup {Case}
      <3>1. ASSUME NEW o \in orphans', o \notin orphans
            PROVE  /\ o[1] \in disturbed' /\ o[2] \in Nat /\ 1 <= o[2] /\ o[2] <= count'[o[1]]
                   /\ o[3] = manifest' /\ manifest' # 0
        <4>1. o = <<Case, count[Case], run>>
          BY <2>4, <3>1
        <4>2. o[1] = Case /\ o[2] = count[Case] /\ o[3] = run
          BY <4>1
        <4> QED  BY <1>1, <1>4, <2>4, <4>2
      <3> QED  BY <2>1, <2>2, <2>4, <3>1 DEF OrphansOK
    <2> QED  BY <1>3, <2>3, <2>4
  <1>9. ResultsKept' /\ \A w \in written' : 1 <= w[2]
    BY <1>1, <1>5 DEF IInv, ResultsKept
  <1>10. RunnerOK'
    BY <1>1 DEF RunnerOK, InGroup, Active
  <1>11. TodoOK' /\ CaseOK'
    BY <1>1 DEF IInv, TodoOK, CaseOK, Active
  <1>12. SummaryStaysTrue'
    BY <1>1, <1>5 DEF IInv, SummaryStaysTrue, Complete
  <1> QED  BY <1>6, <1>7, <1>8, <1>9, <1>10, <1>11, <1>12 DEF IInv

LEMMA RaisesKeeps ==
    ASSUME IInv, Raises
    PROVE  IInv'
  <1>1. /\ UNCHANGED <<disk, attempts, manifest, summary, run, group, server, timedOut, count,
                       orphans, disturbed, written>>
        /\ pc \in InGroup /\ pc' = "groupend" /\ todo' = {} /\ outcome' = "none"
    BY DEF Raises, files, InGroup, Active
  <1>2. faults' \in 0 .. MaxFaults
    BY DEF IInv, Typed, Raises, Fault
  <1>3. group \in Groups /\ run = manifest /\ manifest # 0
    BY <1>1 DEF IInv, RunnerOK, InGroup, Active
  <1>4. /\ \A c \in Cases : FilesOK(c)'
        /\ OrphansOK' /\ ResultsKept' /\ SummaryStaysTrue'
        /\ \A w \in written' : 1 <= w[2]
    BY <1>1, SameFiles
  <1>5. Typed'
    <2>1. pc' \in InGroup
      BY <1>1 DEF InGroup
    <2> QED  BY <1>1, <1>2, <2>1 DEF IInv, Typed
  <1>6. RunnerOK'
    BY <1>1, <1>3 DEF RunnerOK, InGroup, Active
  <1>7. TodoOK' /\ CaseOK'
    BY <1>1, <1>3 DEF IInv, TodoOK, CaseOK, Active
  <1> QED  BY <1>4, <1>5, <1>6, <1>7 DEF IInv

\* A client that outlived its runner writes only where cases are marked disturbed.
LEMMA OrphanEndsKeeps ==
    ASSUME IInv, NEW o \in orphans, NEW val \in {"none", "good", "bad"}, OrphanEnds(o, val)
    PROVE  IInv'
  <1> DEFINE c == o[1]
             new == IF val = "none" THEN disk[c]["result"]
                                    ELSE [att |-> o[2], ver |-> o[3], val |-> val]
  <1>1. /\ orphans' = orphans \ {o} /\ disk' = [disk EXCEPT ![c]["result"] = new]
        /\ UNCHANGED <<attempts, manifest, summary, pc, run, group, todo, server, timedOut, outcome,
                       count, disturbed, written, faults>>
    BY DEF OrphanEnds, runner
  <1>2. /\ c \in disturbed /\ o[2] \in Nat /\ 1 <= o[2] /\ o[2] <= count[c]
        /\ o[3] = manifest /\ manifest # 0 /\ manifest \in Versions /\ c \in Cases
        /\ disk \in [Cases -> [FileNames -> File]] /\ "result" \in FileNames
    BY DEF IInv, OrphansOK, Typed, FileNames
  <1>3. /\ new \in File /\ new.val \in Values("result")
        /\ new = NoFile \/ (new.ver = manifest /\ 1 <= new.att /\ new.att <= count[c])
    <2>1. CASE val = "none"
      <3>1. new = disk[c]["result"]
        BY <2>1
      <3>2. /\ disk[c]["result"] \in File /\ disk[c]["result"].val \in Values("result")
            /\ disk[c]["result"] = NoFile \/
                  (/\ disk[c]["result"].ver = manifest
                   /\ 1 <= disk[c]["result"].att /\ disk[c]["result"].att <= count[c])
        BY <1>2 DEF IInv, Typed, FilesOK, Present
      <3> QED  BY <3>1, <3>2
    <2>2. CASE val # "none"
      <3>1. new = [att |-> o[2], ver |-> o[3], val |-> val]
        BY <2>2
      <3>2. new \in File /\ new.ver = manifest /\ new.att = o[2] /\ new.val = val
        BY <1>2, <3>1 DEF File
      <3>3. val \in Values("result")
        BY DEF Values
      <3> QED  BY <1>2, <3>2, <3>3
    <2> QED  BY <2>1, <2>2
  <1> HIDE DEF new, c
  <1>4. /\ disk' \in [Cases -> [FileNames -> File]] /\ disk'[c]["result"] = new
        /\ \A d \in Cases, g \in FileNames : d # c \/ g # "result" => disk'[d][g] = disk[d][g]
    BY <1>1, <1>2, <1>3
  <1>5. Typed'
    <2>1. \A d \in Cases, g \in FileNames : disk'[d][g].val \in Values(g)
      <3>1. ASSUME NEW d \in Cases, NEW g \in FileNames PROVE disk'[d][g].val \in Values(g)
        <4>1. CASE d = c /\ g = "result"
          BY <1>3, <1>4, <4>1
        <4>2. CASE d # c \/ g # "result"
          BY <1>4, <4>2 DEF IInv, Typed
        <4> QED  BY <4>1, <4>2
      <3> QED  BY <3>1
    <2> QED  BY <1>1, <1>4, <2>1 DEF IInv, Typed
  <1>6. ASSUME NEW d \in Cases, d # c
        PROVE  /\ Present(d)' = Present(d) /\ \A g \in FileNames : disk'[d][g] = disk[d][g]
               /\ \A v : Complete(d, v)' <=> Complete(d, v)
    <2>1. \A g \in FileNames : disk'[d][g] = disk[d][g]
      BY <1>4, <1>6
    <2> QED  BY <2>1 DEF Present, Complete, FileNames
  <1>7. ASSUME NEW d \in Cases PROVE FilesOK(d)'
    <2>1. FilesOK(d)
      BY DEF IInv
    <2>2. CASE d # c
      <3>1. \A g \in Present(d) : disk'[d][g] = disk[d][g]
        BY <1>6, <2>2 DEF Present
      <3> QED  BY <1>1, <1>6, <2>1, <2>2, <3>1 DEF FilesOK
    <2>3. CASE d = c
      <3>1. ASSUME NEW g \in FileNames, disk'[c][g] # NoFile
            PROVE  manifest # 0 /\ disk'[c][g].ver = manifest
                   /\ 1 <= disk'[c][g].att /\ disk'[c][g].att <= count[c]
        <4>1. CASE g = "result"
          BY <1>2, <1>3, <1>4, <3>1, <4>1
        <4>2. CASE g # "result"
          BY <1>2, <1>4, <2>1, <2>3, <3>1, <4>2 DEF FilesOK, Present
        <4> QED  BY <4>1, <4>2
      <3> QED  BY <1>1, <1>2, <2>1, <2>3, <3>1 DEF FilesOK, Present
    <2> QED  BY <2>2, <2>3
  <1>8. OrphansOK'
    BY <1>1 DEF IInv, OrphansOK
  <1>9. RunnerOK'
    BY <1>1 DEF IInv, RunnerOK
  <1>10. Case' = Case
    BY <1>1 DEF Case
  <1>11. TodoOK'
    <2>1. todo \subseteq Cases
      BY DEF IInv, Typed
    <2> QED  BY <1>1, <1>2, <1>6, <1>10, <2>1 DEF IInv, TodoOK
  <1>12. CaseOK'
    <2>1. SUFFICES ASSUME pc \in Active PROVE CaseOK'
      BY <1>1 DEF CaseOK
    <2>2. Case \in Cases
      BY <2>1, ActiveCase
    <2>3. disk'[Case]["status"] = disk[Case]["status"]
      BY <1>4, <2>2 DEF FileNames
    <2>4. CASE Case = c
      BY <1>1, <1>2, <1>10, <2>1, <2>3, <2>4 DEF IInv, CaseOK
    <2>5. CASE Case # c
      <3>1. Present(Case)' = Present(Case) /\ \A g \in Present(Case) : disk'[Case][g] = disk[Case][g]
        BY <1>6, <1>10, <2>2, <2>5 DEF Present
      <3> QED  BY <1>1, <1>10, <2>1, <2>3, <3>1 DEF IInv, CaseOK
    <2> QED  BY <2>4, <2>5
  <1>13. ResultsKept' /\ \A w \in written' : 1 <= w[2]
    <2>1. \A w \in written : w[1] \in Cases
      BY DEF IInv, Typed
    <2>2. \A w \in written : w[1] # c => disk'[w[1]]["result"] = disk[w[1]]["result"]
      BY <1>2, <1>6, <2>1
    <2> QED  BY <1>1, <1>2, <2>2 DEF IInv, ResultsKept
  <1>14. SummaryStaysTrue'
    <2>1. \A row \in summary : row[1] \in Cases
      BY DEF IInv, Typed
    <2>2. \A row \in summary : row[1] # c =>
             disk'[row[1]]["result"] = disk[row[1]]["result"]
             /\ (Complete(row[1], manifest)' <=> Complete(row[1], manifest))
      BY <1>1, <1>2, <1>6, <2>1
    <2> QED  BY <1>1, <1>2, <2>2 DEF IInv, SummaryStaysTrue
  <1> QED  BY <1>5, <1>7, <1>8, <1>9, <1>11, <1>12, <1>13, <1>14 DEF IInv

-----------------------------------------------------------------------------
(* The theorems *)

LEMMA InitIInv == Init => IInv
  <1> SUFFICES ASSUME Init PROVE IInv
    OBVIOUS
  <1>1. Empty \in [FileNames -> File] /\ \A f \in FileNames : Empty[f] = NoFile
    BY NoFileFacts DEF Empty
  <1>2. \A c \in Cases : Present(c) = {} /\ count[c] = 0 /\ attempts[c] = <<>>
    BY <1>1 DEF Init, Present
  <1>3. Typed
    <2>1. disk \in [Cases -> [FileNames -> File]]
          /\ \A c \in Cases, f \in FileNames : disk[c][f].val \in Values(f)
      BY <1>1, NoFileFacts DEF Init
    <2>2. attempts \in [Cases -> Seq([FileNames -> File])]
      BY EmptySeq DEF Init
    <2>3. group \in 0 .. Len(CasesOf) + 1 /\ count \in [Cases -> Nat]
      BY GroupCases DEF Init
    <2>4. /\ manifest \in Versions \cup {0} /\ run \in Versions \cup {0} /\ faults \in 0 .. MaxFaults
          /\ todo \subseteq Cases /\ disturbed \subseteq Cases
          /\ summary \subseteq Cases \X Nat /\ written \subseteq Cases \X Nat
      BY DEF Init
    <2>5. /\ pc \in InGroup \cup {"idle", "group"} /\ server \in {"off", "up", "dead"}
          /\ timedOut \in BOOLEAN /\ outcome \in {"none", "rc0", "rc1", "timeout", "raised"}
      BY DEF Init
    <2> QED  BY <2>1, <2>2, <2>3, <2>4, <2>5 DEF Typed
  <1>4. \A c \in Cases : FilesOK(c)
    BY <1>2 DEF FilesOK
  <1>5. OrphansOK /\ TodoOK /\ ResultsKept /\ SummaryStaysTrue /\ \A w \in written : 1 <= w[2]
    BY DEF Init, OrphansOK, TodoOK, ResultsKept, SummaryStaysTrue
  <1>6. RunnerOK /\ CaseOK
    BY DEF Init, RunnerOK, CaseOK, InGroup, Active
  <1> QED  BY <1>3, <1>4, <1>5, <1>6 DEF IInv

LEMMA NextIInv == IInv /\ [Next]_vars => IInv'
  <1> SUFFICES ASSUME IInv, [Next]_vars PROVE IInv'
    OBVIOUS
  <1>1. ASSUME NEW v \in Versions, Start(v) PROVE IInv'
    BY <1>1, StartKeeps
  <1>2. CASE Steps
    <2>1. ASSUME NEW f \in FileNames, ArchiveFile(f) PROVE IInv'
      BY <2>1, ArchiveFileKeeps
    <2>2. ASSUME NEW val \in {"good", "bad"}, ClientWrites(val) PROVE IInv'
      BY <2>2, ClientWritesKeeps
    <2> QED
      BY <1>2, <2>1, <2>2, NextGroupKeeps, LaunchKeeps, NextCaseKeeps, WriteResolvedKeeps,
         WriteRunningKeeps, ClientEndsKeeps, JudgeKeeps, AfterCaseKeeps, EndGroupKeeps, ExitKeeps
      DEF Steps
  <1>3. CASE ServerDies
    BY <1>3, ServerDiesKeeps
  <1>4. CASE Kill
    BY <1>4, KillKeeps
  <1>5. ASSUME NEW o \in orphans, NEW val \in {"none", "good", "bad"}, OrphanEnds(o, val)
        PROVE  IInv'
    BY <1>5, OrphanEndsKeeps
  <1>6. CASE UNCHANGED vars
    <2>1. UNCHANGED <<disk, attempts, manifest, summary, pc, run, group, todo, server, timedOut,
                      outcome, count, orphans, disturbed, written, faults>>
      BY <1>6 DEF vars, files, runner
    <2>2. /\ \A c \in Cases : FilesOK(c)'
          /\ OrphansOK' /\ ResultsKept' /\ SummaryStaysTrue'
          /\ \A w \in written' : 1 <= w[2]
          /\ \A c, v : Complete(c, v)' <=> Complete(c, v)
          /\ \A c : Present(c)' = Present(c)
      BY <2>1, SameFiles
    <2>3. Case' = Case
      BY <2>1 DEF Case
    <2>4. Typed' /\ RunnerOK'
      BY <2>1 DEF IInv, Typed, RunnerOK
    <2>5. TodoOK'
      BY <2>1, <2>2, <2>3 DEF IInv, TodoOK
    <2>6. CaseOK'
      BY <2>1, <2>2, <2>3 DEF IInv, CaseOK
    <2> QED  BY <2>2, <2>4, <2>5, <2>6 DEF IInv
  <1>7. CASE Raises
    BY <1>7, RaisesKeeps
  <1> QED  BY <1>1, <1>2, <1>3, <1>4, <1>5, <1>6, <1>7 DEF Next

\* The facts about files, runner and cases hold in every state.
THEOREM SweepInvariant == Spec => []IInv
  BY InitIInv, NextIInv, PTL DEF Spec

\* Every file, variable and archive directory has its type, and an attempt never
\* finds more directories than attempts before it.
THEOREM SweepTyped == Spec => []SweepTypeOK
  <1>1. ASSUME IInv PROVE SweepTypeOK
    <2>1. Typed
      BY <1>1 DEF IInv
    <2>2. ASSUME NEW c \in Cases
          PROVE  /\ disk[c]["resolved"] \in Files({"none", "manifest"})
                 /\ disk[c]["status"] \in Files({"none", "running", "success", "failed"})
                 /\ disk[c]["result"] \in Files({"none", "good", "bad"})
      <3>1. \A f \in FileNames : disk[c][f] \in File /\ disk[c][f].val \in Values(f)
        BY <2>1 DEF Typed
      <3>2. \A x \in File : \A V : x.val \in V => x \in Files(V)
        BY DEF File, Files
      <3> QED  BY <3>1, <3>2 DEF FileNames, Values
    <2>3. \A c \in Cases : count[c] \in Nat /\ (count[c] = 0 \/ Len(attempts[c]) < count[c])
      BY <1>1, <2>1 DEF IInv, FilesOK, Typed
    <2> QED  BY <2>1, <2>2, <2>3 DEF Typed, SweepTypeOK, InGroup, Active
  <1> QED  BY <1>1, SweepInvariant, PTL

\* What counts as complete was measured in one attempt.
THEOREM CompleteOneAttempt == Spec => []CompleteIsOneAttempt
  <1>1. ASSUME IInv PROVE CompleteIsOneAttempt
    <2>1. ASSUME NEW c \in Cases \ disturbed, NEW v \in Versions, Complete(c, v)
          PROVE  disk[c]["result"].att = disk[c]["status"].att
                 /\ disk[c]["resolved"].att = disk[c]["status"].att
      <3>1. v # 0
        OBVIOUS
      <3>2. {"resolved", "status", "result"} \subseteq Present(c)
        BY <2>1, <3>1, NoFileFacts DEF Complete, Present, FileNames
      <3> QED  BY <1>1, <3>2 DEF IInv, FilesOK
    <2> QED  BY <2>1 DEF CompleteIsOneAttempt
  <1> QED  BY <1>1, SweepInvariant, PTL

\* What counts as complete was measured by the version of the manifest.
THEOREM CompleteOneVersion == Spec => []OneVersion
  <1>1. ASSUME IInv PROVE OneVersion
    <2>1. ASSUME NEW c \in Cases, NEW v \in Versions, Complete(c, v)
          PROVE  v = manifest /\ disk[c]["result"].ver = v
      <3>1. v # 0
        OBVIOUS
      <3>2. {"resolved", "result"} \subseteq Present(c)
        BY <2>1, <3>1, NoFileFacts DEF Complete, Present, FileNames
      <3> QED  BY <1>1, <2>1, <3>2 DEF IInv, FilesOK, Complete
    <2> QED  BY <2>1 DEF OneVersion
  <1> QED  BY <1>1, SweepInvariant, PTL

\* However often cases are run again, and wherever the runner is killed, every
\* result that was written is in its place or in one archive directory.
THEOREM NoResultLost == Spec => []ResultsKept
  <1>1. IInv => ResultsKept
    BY DEF IInv
  <1> QED  BY <1>1, SweepInvariant, PTL

\* No case is run on a server on which a client has timed out.
THEOREM TaintedNotReused == Spec => []TaintedServerNotReused
  <1>1. IInv => TaintedServerNotReused
    BY DEF IInv, RunnerOK, TaintedServerNotReused
  <1> QED  BY <1>1, SweepInvariant, PTL

\* A row of the summary stays true of the files on disk.
THEOREM SummaryTrue == Spec => []SummaryStaysTrue
  <1>1. IInv => SummaryStaysTrue
    BY DEF IInv
  <1> QED  BY <1>1, SweepInvariant, PTL

=============================================================================
