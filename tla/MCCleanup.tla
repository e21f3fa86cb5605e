------------------------------ MODULE MCCleanup ------------------------------
(***************************************************************************)
(* Cleanup for TLC: a period of three hours, retentions of two and four, so*)
(* that a row can expire at every phase of the ticker, and a file of each  *)
(* kind that config.go, main.go and manager.go treat differently.          *)
(***************************************************************************)
EXTENDS Cleanup

CONSTANTS cpu, disk

Yaml(interval, retention, on, off) ==
  [interval |-> interval, retention |-> retention,
   collector |-> [c \in {cpu, disk, Process} |->
                    IF c \in on THEN "on" ELSE IF c \in off THEN "off" ELSE "left out"]]

MCFiles ==
  {NoFile, BadFile,
   Yaml(0, 0, {cpu, disk}, {}), Yaml(1, 2, {disk, Process}, {cpu}),
   Yaml(1, -5, {cpu}, {}), Yaml(-1, 2, {cpu}, {disk}),
   Yaml(0, 0, {Process}, {})}
=============================================================================
