------------------------------- MODULE Startup -------------------------------
(***************************************************************************)
(* How an agent process gets its configuration, or fails to start:         *)
(* pkg/config/config.go, loadConfig of cmd/agent/main.go and NewManager.   *)
(* A file is NoFile, BadFile or the record its YAML stands for, in which   *)
(* a number that is left out is zero.                                      *)
(***************************************************************************)
EXTENDS Integers

CONSTANTS
  Collector,         \* the collectors NewManager knows
  Process,           \* the one that only the configuration knows
  DefaultInterval,
  DefaultRetention,
  NoFile,            \* there is no file at the path
  BadFile,           \* it cannot be read, or is not YAML of a Config
  Failed             \* the process ends instead of sampling

ASSUME StartupAssumption ==
  /\ DefaultInterval \in Nat \ {0} /\ DefaultRetention \in Nat
  /\ Collector # {} /\ Process \notin Collector
  /\ NoFile # BadFile

\* What a file says of a collector: enabled: true, false, or nothing.
Switches == [Collector \cup {Process} -> {"on", "off", "left out"}]

File == [interval : Int, retention : Int, collector : Switches]

Config ==
  [interval : Int, retention : Int, enabled : SUBSET (Collector \cup {Process})]

DefaultConfig ==
  [interval |-> DefaultInterval, retention |-> DefaultRetention,
   enabled |-> Collector \cup {Process}]

ASSUME FailedAssumption == Failed \notin Config

\* yaml.Unmarshal into a zero Config: a bool that is left out is false.
Unmarshal(file) ==
  [interval |-> file.interval, retention |-> file.retention,
   enabled |-> {c \in Collector \cup {Process} : file.collector[c] = "on"}]

\* Mutant of LoadConfig: what is left out stays zero.
LoadConfigAsIs(file) == IF file = BadFile THEN Failed ELSE Unmarshal(file)

\* Mutant of LoadConfig: the retention that is left out stays zero.
LoadConfigKeepsZero(file) ==
  IF file = BadFile THEN Failed
  ELSE [Unmarshal(file) EXCEPT !.interval = IF @ = 0 THEN DefaultInterval ELSE @]

\* Numbers that are left out get a default, collectors do not.
LoadConfig(file) ==
  IF file = BadFile THEN Failed
  ELSE [Unmarshal(file) EXCEPT
          !.interval  = IF @ = 0 THEN DefaultInterval ELSE @,
          !.retention = IF @ = 0 THEN DefaultRetention ELSE @]

\* NewManager makes the enabled collectors it knows, and wants one at least.
NewManager(cfg) == cfg.enabled \cap Collector # {}

\* time.NewTicker, in the goroutine of a collector, panics unless:
TickerIsMade(cfg) == cfg.interval > 0

\* The configuration a process started with this file has in force.
Start(file) ==
  LET cfg == IF file = NoFile THEN DefaultConfig ELSE LoadConfig(file)
  IN  IF cfg # Failed /\ NewManager(cfg) /\ TickerIsMade(cfg) THEN cfg
                                                              ELSE Failed

(***************************************************************************)
(* What the documentation says of a file.  "All fields are optional -      *)
(* sensible defaults apply" (README.md:135): a number that is left out has *)
(* its default (docs/configuration.md:25-34), and so has a collector, which*)
(* is to be enabled (docs/configuration.md:46-109; the one for processes is*)
(* "not implemented").                                                     *)
(***************************************************************************)
Said(file) ==
  IF file \in {NoFile, BadFile} \/ file.retention = 0 THEN DefaultRetention
                                                      ELSE file.retention

SaidInterval(file) ==
  IF file = NoFile \/ file.interval = 0 THEN DefaultInterval ELSE file.interval

SaidCollectors(file) ==
  IF file = NoFile THEN Collector
                   ELSE {c \in Collector : file.collector[c] # "off"}

\* A file that the documentation describes: an interval is a duration, and
\* something is to be collected.
Documented(file) ==
  file # BadFile /\ SaidInterval(file) > 0 /\ SaidCollectors(file) # {}

\* A file that leaves no collector to its default.
Complete(file) ==
  file = NoFile \/ \A c \in Collector : file.collector[c] # "left out"
=============================================================================
