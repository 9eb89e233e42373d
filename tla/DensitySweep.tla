----------------------------- MODULE DensitySweep -----------------------------
(***************************************************************************)
(* The resumable benchmark sweep (run_sweep of skylight/bench/density_sweep.py) *)
(* and the serving session it drives (ServingSession of run_serving.py).      *)
(* Cases are grouped by server; the artifacts of a case are files that survive *)
(* the runner, and a later run picks up what is not complete.  The runner may  *)
(* be killed between any two file operations; its client may outlive it.      *)
(*                                                                           *)
(* A file is a record of the attempt and the code version that wrote it.       *)
(***************************************************************************)
EXTENDS Integers, Sequences, FiniteSets, SequencesExt

CONSTANTS
    CasesOf,      \* the cases of each group, groups in the order they are run
    Versions,     \* fingerprints: code, packages, GPU, configuration
    MaxFaults     \* bound: kills and failures in a behaviour

Groups == DOMAIN CasesOf
Cases == UNION {ToSet(CasesOf[g]) : g \in Groups}
FileNames == {"resolved", "status", "result"}
NoFile == [att |-> 0, ver |-> 0, val |-> "none"]
Empty == [f \in FileNames |-> NoFile]

ASSUME SweepAssumption ==
    /\ CasesOf \in Seq(Seq(Cases)) /\ Versions \subseteq Nat \ {0} /\ MaxFaults \in Nat
    /\ \A g, h \in Groups : g # h => ToSet(CasesOf[g]) \cap ToSet(CasesOf[h]) = {}
    /\ \A g \in Groups : IsInjective(CasesOf[g])   \* concurrencies must be unique

VARIABLES
    disk,       \* the files of each case
    attempts,   \* attempts/attempt-1, attempt-2, ... of each case
    manifest,   \* fingerprint in run-manifest.json, 0 if there is none
    summary,    \* rows of summary.json: <<case, attempt>>
    pc,         \* where the runner is; "idle": no runner
    run,        \* fingerprint of this run
    group,      \* current group
    todo,       \* its cases still to run; they are run in the order of CasesOf
    server,     \* "off", "up", "dead"
    timedOut,   \* ghost: a client timed out on this server
    outcome,    \* what session.run_benchmark returned or raised
    count,      \* attempts started so far, of each case
    orphans,    \* clients that outlived their runner: <<case, attempt, version>>
    disturbed,  \* ghost: cases that ever had one
    written,    \* ghost: every result a client of a live runner wrote
    faults

runner == <<pc, run, group, todo, server, timedOut, outcome>>
files == <<disk, attempts, manifest, summary>>
vars == <<files, runner, count, orphans, disturbed, written, faults>>

Init ==
    /\ disk = [c \in Cases |-> Empty]
    /\ attempts = [c \in Cases |-> <<>>]
    /\ manifest = 0 /\ summary = {}
    /\ pc = "idle" /\ run = 0 /\ group = 0 /\ todo = {}
    /\ server = "off" /\ timedOut = FALSE /\ outcome = "none"
    /\ count = [c \in Cases |-> 0]
    /\ orphans = {} /\ disturbed = {} /\ written = {} /\ faults = 0

Fault == faults < MaxFaults /\ faults' = faults + 1

\* case_complete and _summary_result, for fingerprint v.
Complete(c, v) ==
    /\ disk[c]["resolved"].ver = v
    /\ disk[c]["status"].ver = v /\ disk[c]["status"].val = "success"
    /\ disk[c]["result"].val = "good"

\* Mutant: every case is run again.
IncompleteAll(g) == ToSet(CasesOf[g])

\* Mutant: a case that failed once is left alone.
IncompleteUntried(g) == {c \in ToSet(CasesOf[g]) : disk[c]["status"] = NoFile}

Incomplete(g) == {c \in ToSet(CasesOf[g]) : ~Complete(c, run)}

\* The first of the cases S in the order of the group.
First(cases, S) ==
    cases[CHOOSE i \in DOMAIN cases : cases[i] \in S /\ \A j \in 1 .. i - 1 : cases[j] \notin S]

\* write_summary.
Rows == {<<c, disk[c]["result"].att>> : c \in {d \in Cases : Complete(d, run)}}

Case == First(CasesOf[group], todo)
Write(f, val) == disk' = [disk EXCEPT ![Case][f] = [att |-> count[Case], ver |-> run, val |-> val]]

-----------------------------------------------------------------------------
(* A run and its groups *)

\* Mutant: the manifest of an earlier run is not compared.
MayResumeAlways(v) == TRUE

\* _validate_resume.  (The other manifests it reads are written after this one.)
MayResume(v) == manifest \in {0, v}

Start(v) ==
    /\ pc = "idle" /\ MayResume(v)
    /\ manifest' = v /\ run' = v
    /\ group' = 1 /\ pc' = "group"
    /\ UNCHANGED <<disk, attempts, summary, todo, server, timedOut, outcome, count, orphans,
                   disturbed, written, faults>>

\* A group without incomplete cases starts no server.
NextGroup ==
    /\ pc = "group" /\ group <= Len(CasesOf)
    /\ todo' = Incomplete(group)
    /\ IF todo' = {}
           THEN group' = group + 1 /\ pc' = pc
           ELSE pc' = "launch" /\ group' = group
    /\ UNCHANGED <<files, run, server, timedOut, outcome, count, orphans, disturbed, written, faults>>

\* __enter__ of the session: a healthy server, or an exception after close().
Launch ==
    /\ pc = "launch"
    /\ timedOut' = FALSE
    /\ \/ server' = "up" /\ pc' = "case" /\ UNCHANGED faults
       \/ Fault /\ server' = "off" /\ pc' = "groupend"
    /\ UNCHANGED <<files, run, group, todo, outcome, count, orphans, disturbed, written>>

\* The server exits on its own.
ServerDies ==
    /\ server = "up" /\ pc # "idle" /\ Fault
    /\ server' = "dead"
    /\ UNCHANGED <<files, pc, run, group, todo, timedOut, outcome, count, orphans, disturbed, written>>

-----------------------------------------------------------------------------
(* One case *)

Present(c) == {f \in FileNames : disk[c][f] # NoFile}

\* Mutant: the files of the last attempt stay where they are.
BeginArchiveNever ==
    /\ pc' = "resolve" /\ count' = [count EXCEPT ![Case] = @ + 1]
    /\ UNCHANGED attempts

\* Mutant: there is one directory for all attempts.
BeginArchiveReused ==
    /\ count' = [count EXCEPT ![Case] = @ + 1]
    /\ pc' = IF Present(Case) = {} THEN "resolve" ELSE "archive"
    /\ attempts' = IF Present(Case) # {} /\ attempts[Case] = <<>>
                       THEN [attempts EXCEPT ![Case] = Append(@, Empty)] ELSE attempts

\* Mutant: a directory is made for an attempt without files.
BeginArchiveEvery ==
    /\ count' = [count EXCEPT ![Case] = @ + 1]
    /\ pc' = IF Present(Case) = {} THEN "resolve" ELSE "archive"
    /\ attempts' = [attempts EXCEPT ![Case] = Append(@, Empty)]

\* _archive_case_artifacts: a new attempts/attempt-<n>, when there are files.
BeginArchive ==
    /\ count' = [count EXCEPT ![Case] = @ + 1]
    /\ IF Present(Case) = {}
           THEN pc' = "resolve" /\ UNCHANGED attempts
           ELSE pc' = "archive" /\ attempts' = [attempts EXCEPT ![Case] = Append(@, Empty)]

NextCase ==
    /\ pc = "case" /\ todo # {}
    /\ BeginArchive
    /\ UNCHANGED <<disk, manifest, summary, run, group, todo, server, timedOut, outcome, orphans,
                   disturbed, written, faults>>

\* shutil.move of one file.
ArchiveFile(f) ==
    /\ pc = "archive" /\ f \in Present(Case)
    /\ attempts' = [attempts EXCEPT ![Case][Len(attempts[Case])][f] = disk[Case][f]]
    /\ disk' = [disk EXCEPT ![Case][f] = NoFile]
    /\ pc' = IF Present(Case) = {f} THEN "resolve" ELSE pc
    /\ UNCHANGED <<manifest, summary, run, group, todo, server, timedOut, outcome, count, orphans,
                   disturbed, written, faults>>

\* resolved.json, then status.json: two atomic writes.
WriteResolved ==
    /\ pc = "resolve" /\ Write("resolved", "manifest") /\ pc' = "announce"
    /\ UNCHANGED <<attempts, manifest, summary, run, group, todo, server, timedOut, outcome, count,
                   orphans, disturbed, written, faults>>

WriteRunning ==
    /\ pc = "announce" /\ Write("status", "running")
    /\ IF server = "up" THEN pc' = "client" /\ UNCHANGED outcome
                        ELSE pc' = "judge" /\ outcome' = "raised"  \* _require_running
    /\ UNCHANGED <<attempts, manifest, summary, run, group, todo, server, timedOut, count, orphans,
                   disturbed, written, faults>>

\* The client writes result.json; all requests completed, or not.
ClientWrites(val) ==
    /\ pc = "client" /\ disk[Case]["result"].att # count[Case]
    /\ Write("result", val)
    /\ written' = written \cup {<<Case, count[Case]>>}
    /\ IF val = "good" THEN UNCHANGED faults ELSE Fault
    /\ UNCHANGED <<attempts, manifest, summary, runner, count, orphans, disturbed>>

\* The client exits with 0 and a result, exits in some other way, or is killed
\* at its deadline.
ClientEnds ==
    /\ pc = "client" /\ pc' = "judge"
    /\ \/ disk[Case]["result"].att = count[Case] /\ outcome' = "rc0" /\ UNCHANGED <<faults, timedOut>>
       \/ outcome' \in {"rc0", "rc1"} /\ Fault /\ UNCHANGED timedOut
       \/ outcome' = "timeout" /\ timedOut' = TRUE /\ Fault
    /\ UNCHANGED <<files, run, group, todo, server, count, orphans, disturbed, written>>

\* status.json: the payload of result.json is read only when the client returned.
Judge ==
    /\ pc = "judge" /\ pc' = "summary"
    /\ Write("status", IF outcome = "rc0" /\ disk[Case]["result"].val = "good"
                           THEN "success" ELSE "failed")
    /\ UNCHANGED <<attempts, manifest, summary, run, group, todo, server, timedOut, outcome, count,
                   orphans, disturbed, written, faults>>

\* Mutant: a timeout is a failure like any other.
GoesOnIfHealthy(healthy) == disk[Case]["status"].val = "success" \/ healthy

\* A timeout ends the group, and so does a failure on an unhealthy server.
GoesOn(healthy) ==
    /\ outcome # "timeout"
    /\ disk[Case]["status"].val = "success" \/ healthy

\* write_summary, then the next case or the end of the group.
AfterCase ==
    /\ pc = "summary"
    /\ summary' = Rows
    /\ \E healthy \in BOOLEAN :
         /\ healthy => server = "up"
         /\ pc' = IF GoesOn(healthy) THEN "case" ELSE "groupend"
    /\ todo' = todo \ {Case} /\ outcome' = "none"
    /\ UNCHANGED <<disk, attempts, manifest, run, group, server, timedOut, count, orphans, disturbed,
                   written, faults>>

\* close() of the session; of group-status.json only the fingerprint is read again.
EndGroup ==
    /\ pc = "groupend" \/ (pc = "case" /\ todo = {})
    /\ server' = "off" /\ timedOut' = FALSE /\ todo' = {}
    /\ group' = group + 1 /\ pc' = "group"
    /\ UNCHANGED <<files, run, outcome, count, orphans, disturbed, written, faults>>

\* The last write_summary and the exit.
Exit ==
    /\ pc = "group" /\ group > Len(CasesOf)
    /\ summary' = Rows
    /\ pc' = "idle" /\ group' = 0 /\ run' = 0
    /\ UNCHANGED <<disk, attempts, manifest, todo, server, timedOut, outcome, count, orphans, disturbed,
                   written, faults>>

-----------------------------------------------------------------------------
(* Faults *)

\* The archive, the write of a JSON file, a marker or the summary raises outside the
\* try of the client: no further case of the group is run.
Raises ==
    /\ pc \in {"case", "archive", "resolve", "announce", "client", "judge", "summary"}
    /\ todo # {} /\ Fault
    /\ pc = "client" => disk[Case]["result"].att # count[Case]  \* not started yet
    /\ pc' = "groupend" /\ todo' = {} /\ outcome' = "none"
    /\ UNCHANGED <<files, run, group, server, timedOut, count, orphans, disturbed, written>>

\* The runner is killed.  A server it leaves behind has a port of its own; a
\* client it leaves behind still has the path of result.json.
Kill ==
    /\ pc # "idle" /\ Fault
    /\ pc' = "idle" /\ run' = 0 /\ group' = 0 /\ todo' = {} /\ outcome' = "none"
    /\ server' = "off" /\ timedOut' = FALSE
    /\ IF pc = "client"
           THEN \E lives \in BOOLEAN :
                  /\ orphans' = IF lives THEN orphans \cup {<<Case, count[Case], run>>} ELSE orphans
                  /\ disturbed' = IF lives THEN disturbed \cup {Case} ELSE disturbed
           ELSE UNCHANGED <<orphans, disturbed>>
    /\ UNCHANGED <<files, count, written>>

OrphanEnds(o, val) ==
    /\ o \in orphans
    /\ orphans' = orphans \ {o}
    /\ disk' = [disk EXCEPT ![o[1]]["result"] =
                  IF val = "none" THEN @ ELSE [att |-> o[2], ver |-> o[3], val |-> val]]
    /\ UNCHANGED <<attempts, manifest, summary, runner, count, disturbed, written, faults>>

Steps == \/ NextGroup \/ Launch \/ NextCase \/ WriteResolved \/ WriteRunning
         \/ \E f \in FileNames : ArchiveFile(f)
         \/ \E val \in {"good", "bad"} : ClientWrites(val)
         \/ ClientEnds \/ Judge \/ AfterCase \/ EndGroup \/ Exit

Next ==
    \/ \E v \in Versions : Start(v)
    \/ Steps
    \/ ServerDies
    \/ Raises
    \/ Kill
    \/ \E o \in orphans, val \in {"none", "good", "bad"} : OrphanEnds(o, val)

\* A live runner goes on, every wait of it has a deadline, and the sweep is
\* started again as long as it is not complete.
Spec == Init /\ [][Next]_vars
        /\ WF_vars(Steps) /\ WF_vars(\E v \in Versions : Start(v))

-----------------------------------------------------------------------------
(* Properties *)

Files(f) == [att : Nat, ver : Versions \cup {0}, val : f]

\* Every variable has its type; the first attempt has nothing to archive.
SweepTypeOK ==
    /\ \A c \in Cases :
          /\ disk[c]["resolved"] \in Files({"none", "manifest"})
          /\ disk[c]["status"] \in Files({"none", "running", "success", "failed"})
          /\ disk[c]["result"] \in Files({"none", "good", "bad"})
          /\ count[c] \in Nat /\ (count[c] = 0 \/ Len(attempts[c]) < count[c])
    /\ manifest \in Versions \cup {0} /\ run \in Versions \cup {0}
    /\ pc \in {"idle", "group", "launch", "case", "archive", "resolve", "announce", "client",
               "judge", "summary", "groupend"}
    /\ group \in 0 .. Len(CasesOf) + 1 /\ todo \subseteq Cases
    /\ server \in {"off", "up", "dead"} /\ timedOut \in BOOLEAN
    /\ outcome \in {"none", "rc0", "rc1", "timeout", "raised"}
    /\ summary \subseteq Cases \X Nat /\ written \subseteq Cases \X Nat
    /\ disturbed \subseteq Cases /\ faults \in 0 .. MaxFaults

\* density_sweep.py:752: a complete case is "a successful matching resumable
\* result": its three files are of one attempt, whatever was killed or failed
\* before, unless a client of that case outlived its runner.
CompleteIsOneAttempt ==
    \A c \in Cases \ disturbed, v \in Versions :
        Complete(c, v) =>
            disk[c]["result"].att = disk[c]["status"].att
            /\ disk[c]["resolved"].att = disk[c]["status"].att

\* A resume never combines results of different code: whatever counts as complete
\* was measured by the version of the manifest.
OneVersion ==
    \A c \in Cases, v \in Versions : Complete(c, v) => v = manifest /\ disk[c]["result"].ver = v

\* No result is lost: it is in its place or in attempts/, however often the case
\* was run again and wherever the runner was killed while it moved files.
ResultsKept ==
    \A w \in written :
        w[1] \in disturbed
        \/ disk[w[1]]["result"].att = w[2]
        \/ \E i \in DOMAIN attempts[w[1]] : attempts[w[1]][i]["result"].att = w[2]

\* skylight/README.md:136: "a timeout tears down the tainted server group before
\* any later case runs".
TaintedServerNotReused ==
    pc \in {"archive", "resolve", "announce", "client"} => ~timedOut

\* A row of the summary, once written, stays true: its case is complete and still
\* has that result.  No later run repeats it.
SummaryStaysTrue ==
    \A row \in summary :
        row[1] \in disturbed \/ (Complete(row[1], manifest) /\ disk[row[1]]["result"].att = row[2])

\* Started again as often as it takes, the sweep completes once the faults end.
SweepCompletes == <>[](\A c \in Cases : Complete(c, manifest))

=============================================================================
