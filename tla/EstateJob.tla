------------------------------ MODULE EstateJob -------------------------------
(***************************************************************************)
(* The scheduled job that verifies an estate (docs/github-actions.md): it  *)
(* pulls the last bundle, verifies, and pushes the new one                 *)
(* (commands/estate_cmd.go and estate_verify.go).                          *)
(*                                                                         *)
(* Jobs run one at a time (the workflow's concurrency group), each in an   *)
(* empty directory.  A bundle is a report and a history; a report is known *)
(* by the time it was made, a history by the times of its entries, newest  *)
(* first.  The push runs whenever there is a report, also after a step     *)
(* that failed or was cancelled (the workflow's always()).                 *)
(***************************************************************************)
EXTENDS Naturals, Sequences, SequencesExt

CONSTANTS
    Times,              \* when reports are made
    NoFile, Torn,       \* a file that is not there, or was cut short
    MaxJobs,
    MaxRequestFaults,   \* bound on failed pulls, pushes and verifications
    MaxCancels,         \* bound on verifications cancelled between two writes
    MaxTornWrites       \* bound on files cut short as they are written

ASSUME TimesAreNumbers == Times \subseteq Nat
ASSUME NoContents ==
    /\ NoFile # Torn
    /\ \A f \in {NoFile, Torn} : f \notin Nat /\ f \notin Seq(Nat)
ASSUME JobBounds ==
    {MaxJobs, MaxRequestFaults, MaxCancels, MaxTornWrites} \subseteq Nat

NoBundle == [report |-> NoFile, history |-> NoFile]

VARIABLES
    stored,             \* the bundle at the reference
    dir,                \* the job's directory
    step,               \* the command the job is at
    now,                \* when the run's report is made
    jobs, requestFaults, cancels, tornWrites

jobFaults == <<requestFaults, cancels, tornWrites>>
jobVars == <<stored, dir, step, now, jobs, jobFaults>>

RequestFault == /\ requestFaults < MaxRequestFaults
                /\ requestFaults' = requestFaults + 1
                /\ UNCHANGED <<cancels, tornWrites>>

-----------------------------------------------------------------------------
JobInit ==
    /\ stored = NoBundle
    /\ dir = NoBundle
    /\ step = "idle"
    /\ now \in Times
    /\ jobs = 0
    /\ requestFaults = 0 /\ cancels = 0 /\ tornWrites = 0

\* Two jobs may start within the second a report's time is measured in.
StartJob ==
    /\ step = "idle" /\ jobs < MaxJobs
    /\ jobs' = jobs + 1
    /\ now' \in {t \in Times : t >= now}
    /\ dir' = NoBundle
    /\ step' = "pull"
    /\ UNCHANGED <<stored, jobFaults>>

\* estate pull --allow-missing.
Pull ==
    /\ step = "pull"
    /\ dir' = stored
    /\ step' = "verify"
    /\ UNCHANGED <<stored, now, jobs, jobFaults>>

AnyFailureAllowed ==                                            \* mutant
    /\ step = "pull" /\ RequestFault
    /\ step' = "verify"
    /\ UNCHANGED <<stored, dir, now, jobs>>

\* Any failure but "nothing there yet" fails the step.
PullFails ==
    /\ step = "pull" /\ RequestFault
    /\ step' = "push"
    /\ UNCHANGED <<stored, dir, now, jobs>>

\* estate verify fails before it writes.
VerifyFails ==
    /\ step = "verify" /\ RequestFault
    /\ step' = "push"
    /\ UNCHANGED <<stored, dir, now, jobs>>

WriteReport ==
    /\ step = "verify"
    /\ dir' = [dir EXCEPT !.report = now]
    /\ step' = "extend"
    /\ UNCHANGED <<stored, now, jobs, jobFaults>>

\* os.WriteFile empties a file before it writes it.
TearReport ==
    /\ step = "verify"
    /\ tornWrites < MaxTornWrites /\ tornWrites' = tornWrites + 1
    /\ dir' = [dir EXCEPT !.report = Torn]
    /\ step' = "push"
    /\ UNCHANGED <<stored, now, jobs, requestFaults, cancels>>

KeepsSameTime(entries) == <<now>> \o entries                    \* mutant

\* extendHistory: a run made at the time of another takes its place.
Extended(entries) ==
    LET kept[n \in 0..Len(entries)] ==
            IF n = 0 THEN <<>>
            ELSE IF entries[n] = now THEN kept[n - 1]
            ELSE Append(kept[n - 1], entries[n])
    IN  <<now>> \o kept[Len(entries)]

StartsAfresh ==                                                 \* mutant
    /\ step = "extend"
    /\ dir' = [dir EXCEPT !.history =
                  Extended(IF @ \in {NoFile, Torn} THEN <<>> ELSE @)]
    /\ step' = "push"
    /\ UNCHANGED <<stored, now, jobs, jobFaults>>

WriteHistory ==
    /\ step = "extend" /\ dir.history # Torn
    /\ dir' = [dir EXCEPT !.history =
                  Extended(IF @ = NoFile THEN <<>> ELSE @)]
    /\ step' = "push"
    /\ UNCHANGED <<stored, now, jobs, jobFaults>>

\* A history that cannot be parsed fails the step.
HistoryUnreadable ==
    /\ step = "extend" /\ dir.history = Torn
    /\ step' = "push"
    /\ UNCHANGED <<stored, dir, now, jobs, jobFaults>>

TearHistory ==
    /\ step = "extend" /\ dir.history # Torn
    /\ tornWrites < MaxTornWrites /\ tornWrites' = tornWrites + 1
    /\ dir' = [dir EXCEPT !.history = Torn]
    /\ step' = "push"
    /\ UNCHANGED <<stored, now, jobs, requestFaults, cancels>>

\* The job is cancelled, or times out, between the two writes.
Cancel ==
    /\ step = "extend"
    /\ cancels < MaxCancels /\ cancels' = cancels + 1
    /\ step' = "push"
    /\ UNCHANGED <<stored, dir, now, jobs, requestFaults, tornWrites>>

\* estate push --file estate-report.json --file estate-history.json, if there
\* is a report; a file named that is not there fails it.
Push ==
    /\ step = "push"
    /\ stored' = IF NoFile \in {dir.report, dir.history} THEN stored ELSE dir
    /\ step' = "idle"
    /\ UNCHANGED <<dir, now, jobs, jobFaults>>

PushFails ==
    /\ step = "push" /\ RequestFault
    /\ step' = "idle"
    /\ UNCHANGED <<stored, dir, now, jobs>>

\* The runner is lost.
Lost ==
    /\ step # "idle" /\ RequestFault
    /\ step' = "idle"
    /\ UNCHANGED <<stored, dir, now, jobs>>

JobNext ==
    \/ StartJob
    \/ Pull \/ PullFails
    \/ VerifyFails \/ WriteReport \/ TearReport
    \/ WriteHistory \/ HistoryUnreadable \/ TearHistory \/ Cancel
    \/ Push \/ PushFails
    \/ Lost

JobSpec == JobInit /\ [][JobNext]_jobVars

-----------------------------------------------------------------------------
(* Properties.                                                             *)

Files(contents) == contents \cup {NoFile, Torn}
Bundles == [report : Files(Times), history : Files(Seq(Times))]

\* Every variable holds a value of its type.
JobTypeOK ==
    /\ stored \in Bundles /\ dir \in Bundles
    /\ step \in {"idle", "pull", "verify", "extend", "push"}
    /\ now \in Times
    /\ jobs \in 0..MaxJobs
    /\ requestFaults \in 0..MaxRequestFaults
    /\ cancels \in 0..MaxCancels /\ tornWrites \in 0..MaxTornWrites

EntriesOf(bundle) ==
    IF bundle.history \in {NoFile, Torn} THEN {} ELSE ToSet(bundle.history)

\* No job takes an entry out of the history another stored, whatever request
\* fails and whenever a job is cancelled or lost ("any other failure stops the
\* job before it could push a new history over the old one"), as long as files
\* are written whole.
HistoryKept ==
    [][tornWrites = 0 => EntriesOf(stored) \subseteq EntriesOf(stored')]_jobVars

\* A stored history that cannot be read is left for somebody to look at: "the
\* job never starts a fresh history and pushes it over the one it couldn't
\* read".
UnreadableStays == [][stored.history = Torn => stored'.history = Torn]_jobVars

\* A history names every run once, newest first, also when two are made in
\* the same second, and unless a job was cancelled or a file cut short the
\* report stored with it is the newest run's.
HistoryInOrder ==
    stored.history \notin {NoFile, Torn} =>
        /\ stored.history # <<>>
        /\ \A i, j \in DOMAIN stored.history :
              i < j => stored.history[i] > stored.history[j]
        /\ cancels + tornWrites = 0 => stored.report = Head(stored.history)
=============================================================================
