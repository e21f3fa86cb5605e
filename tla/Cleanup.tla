------------------------------- MODULE Cleanup -------------------------------
(***************************************************************************)
(* How long rows stay: runCleanup of cmd/agent/main.go on a clock of hours,*)
(* with a process that may die and is started again with whatever file is  *)
(* there then, and with a cleanup that may fail.  A row is represented by  *)
(* its age; ages beyond MaxAge are not told apart.                         *)
(***************************************************************************)
EXTENDS Startup

CONSTANTS
  Period,        \* the period of the ticker of runCleanup, 24 hours
  Files,         \* the configuration files there may be
  MaxAge         \* the age at which rows stop to be told apart

ASSUME CleanupAssumption ==
  /\ Period \in Nat /\ Period > 1
  /\ Files \subseteq File \cup {NoFile, BadFile}
  /\ MaxAge \in Nat /\ \A f \in Files : MaxAge > Said(f) + Period

VARIABLES
  file,      \* the configuration file
  wanted,    \* does systemd start the agent when it is not running?
  config,    \* the configuration of the running process, or Failed for none
  ages,      \* the ages of the rows in the table
  phase,     \* hours since the ticker of this process was made or fired
  due,       \* the ticker has fired and the cleanup is not over
  lived,     \* history: the age of this process, up to Period
  failed,    \* history: has the last cleanup of this process failed?
  told       \* history: what the file said of the retention at the start

process == <<config, phase, due, lived, failed, told>>
vars == <<file, wanted, ages, process>>

Running == config # Failed

Expired == {a \in ages : a > config.retention}

Init ==
  /\ file \in Files
  /\ wanted = FALSE
  /\ config = Failed
  /\ ages = {}
  /\ phase = 0 /\ due = FALSE
  /\ lived = 0 /\ failed = FALSE
  /\ told = DefaultRetention

\* An hour passes, in which a process that runs stores metrics or not; a
\* cleanup is over before the next hour.
Hour ==
  /\ ~due
  /\ \E new \in IF Running THEN {{}, {0}} ELSE {{}} :
       ages' = new \cup {IF a = MaxAge THEN a ELSE a + 1 : a \in ages}
  /\ IF Running
       THEN /\ phase' = (phase + 1) % Period
            /\ due' = (phase + 1 = Period)
            /\ lived' = IF lived = Period THEN Period ELSE lived + 1
       ELSE UNCHANGED <<phase, due, lived>>
  /\ UNCHANGED <<file, wanted, config, failed, told>>

\* Mutant of DeleteOldMetrics: a period more than the retention is kept.
DeleteTooLittle ==
  /\ due
  /\ ages' = {a \in ages : a <= config.retention + Period}
  /\ due' = FALSE /\ failed' = FALSE
  /\ UNCHANGED <<file, wanted, config, phase, lived, told>>

\* Mutant of DeleteOldMetrics: what is past the retention stays.
DeleteNothing ==
  /\ due
  /\ due' = FALSE /\ failed' = FALSE
  /\ UNCHANGED <<file, wanted, ages, config, phase, lived, told>>

\* DELETE ... WHERE timestamp < now - retention
DeleteOldMetrics ==
  /\ due
  /\ ages' = ages \ Expired
  /\ due' = FALSE /\ failed' = FALSE
  /\ UNCHANGED <<file, wanted, config, phase, lived, told>>

\* The error is logged; the next attempt is the next tick of the ticker.  If
\* it is VACUUM that fails, the rows are deleted all the same.
DeleteFails ==
  /\ due
  /\ \E gone \in {{}, Expired} : ages' = ages \ gone
  /\ due' = FALSE /\ failed' = TRUE
  /\ UNCHANGED <<file, wanted, config, phase, lived, told>>

\* The process ends.
Ends ==
  /\ config' = Failed
  /\ phase' = 0 /\ due' = FALSE /\ lived' = 0 /\ failed' = FALSE
  /\ UNCHANGED <<file, ages, told>>

\* A panic, a signal that cannot be caught, the death of the host: systemd
\* starts the agent again (Restart=on-failure).
Die ==
  /\ Running
  /\ Ends
  /\ UNCHANGED wanted

\* SIGTERM or an interrupt, of systemctl or of anybody: main returns, the exit
\* is clean and the agent is not started again.
Stop ==
  /\ wanted
  /\ Ends
  /\ wanted' = FALSE

\* systemctl start, or the boot of the host.
Enable ==
  /\ ~wanted
  /\ wanted' = TRUE
  /\ UNCHANGED <<file, ages, process>>

\* systemd starts a process, with a new ticker.  One that fails ends with
\* log.Fatalf or a panic, changes nothing, and is started again.
StartProcess ==
  /\ wanted /\ ~Running /\ Start(file) # Failed
  /\ config' = Start(file)
  /\ told' = Said(file)
  /\ UNCHANGED <<file, wanted, ages, phase, due, lived, failed>>

\* The file is edited, removed or damaged; a running process does not see it.
EditFile ==
  /\ file' \in Files \ {file}
  /\ UNCHANGED <<wanted, ages, process>>

Next ==
  \/ Hour \/ DeleteOldMetrics \/ DeleteFails
  \/ StartProcess \/ Die
  \/ Enable \/ Stop \/ EditFile

\* Time passes, a cleanup that is due again and again succeeds sometimes, and
\* systemd goes on starting an agent that nobody has stopped.
Spec ==
  /\ Init /\ [][Next]_vars
  /\ WF_vars(Hour) /\ WF_vars(DeleteOldMetrics \/ DeleteFails)
  /\ SF_vars(DeleteOldMetrics) /\ WF_vars(StartProcess)

-----------------------------------------------------------------------------
(***************************************************************************)
(* In a process that has lived for a period of the ticker and whose last   *)
(* cleanup succeeded, no row has outlived the retention of the file it was *)
(* started with by more than a period, whatever earlier processes, their   *)
(* files and failed cleanups left behind (main.go:89-96, config.go:87).    *)
(* With a negative retention, which nothing rejects, a cleanup leaves      *)
(* nothing and the rows are those of the period since.                     *)
(***************************************************************************)
OverstayBounded ==
  ~due /\ lived = Period /\ ~failed =>
    \A a \in ages : a <= (IF told > 0 THEN told ELSE 0) + Period

(***************************************************************************)
(* No cleanup deletes a row that is not older than what the file said at   *)
(* the start of the process: a file without retention_days, or no file,    *)
(* means the default and never "keep nothing" (config.go:87-89, 105).      *)
(* Only a negative number, which nothing rejects, deletes what is new.     *)
(* Rows leave only while a cleanup is due; otherwise they just grow older. *)
(***************************************************************************)
DeletesAsTold ==
  [][due => \A a \in ages \ ages' : a > told]_vars

(***************************************************************************)
(* Metrics older than the retention are deleted automatically              *)
(* (docs/configuration.md:164), also after failed cleanups and restarts    *)
(* with other files, provided that a process again and again lives for a   *)
(* period.  Without that proviso it is false: the first cleanup of a       *)
(* process is 24 hours after its start, so one that is restarted every day *)
(* deletes nothing (main.go:89-92).                                        *)
(***************************************************************************)
Overdue == {a \in ages : \A f \in Files : a > Said(f)}

ExpiredAreDeleted ==
  ([]<>(lived = Period)) => (Overdue # {} ~> Overdue = {})

(***************************************************************************)
(* When the file is, from some time on, one that the documentation         *)
(* describes and nobody stops the agent any more, it runs again and again, *)
(* whatever it died of and whatever files it met before, provided that the *)
(* file leaves no collector to its default.  Without that proviso it is    *)
(* false: the documentation has every collector enabled by default, but one*)
(* that a file leaves out is off, and if none is on the agent ends at once *)
(* (README.md:135, docs/configuration.md:46-109; config.go:72-98,          *)
(* manager.go:60-64, main.go:78-86, instvisor.service:12).                 *)
(***************************************************************************)
ComesUp ==
  (<>[](wanted /\ Documented(file) /\ Complete(file))) => []<>Running
=============================================================================
