----------------------------- MODULE SavedFiles -----------------------------
(***************************************************************************)
(* What --saveDir leaves on the disk: saveData of gosmee/client.go writes  *)
(* an event's payload to <name>.json and a script that posts it again to   *)
(* <name>.sh.  The name is the event type and a time stamp, formatted as   *)
(* "2006-01-02T15.04.01.000".  Where the layout should have the seconds    *)
(* (05) it has the month once more (01), so that the name does not tell    *)
(* the seconds of a minute apart.                                          *)
(***************************************************************************)
EXTENDS Integers

CONSTANT Minute   \* bound: seconds in a minute (60)

ASSUME MinuteAssumption == Minute \in Nat \ {0}

VARIABLES
  payloads,   \* name |-> what <name>.json holds
  scripts,    \* name |-> what <name>.sh holds, and whether it can be executed
  saved       \* the events saveData returned nil for (history)

fileVars == <<payloads, scripts, saved>>

FilesInit ==
  /\ payloads = <<>>
  /\ scripts = <<>>
  /\ saved = {}

\* Fault: the event type is left out of the name.
FileNameOfTime(type, second) == <<second \div Minute>>

\* pm.timestamp and fbasepath; what GitHub reports is whole seconds.
FileName(type, second) == <<type, second \div Minute>>

\* os.Create and what is written then: a file of that name is truncated.
Put(files, name, content) ==
  [n \in DOMAIN files \cup {name} |-> IF n = name THEN content ELSE files[n]]

\* saveData for event d, as far as it gets: the directory is made (0), the payload's file
\* is created (1) and written (2), the script's is created (3), written (4) and made
\* executable (5).  A file that is there already keeps its mode.
SaveUpTo(step, name, d) ==
  /\ payloads' = IF step < 1 THEN payloads
                 ELSE Put(payloads, name, [of |-> d, whole |-> step > 1])
  /\ scripts' = IF step < 3 THEN scripts
                ELSE Put(scripts, name,
                         [of |-> d, whole |-> step > 3,
                          runs |-> step = 5 \/ (name \in DOMAIN scripts /\ scripts[name].runs)])
  /\ saved' = IF step = 5 THEN saved \cup {d} ELSE saved

\* The script posts the payload of the event again, with its headers.
Replayable(name, d) ==
  /\ name \in DOMAIN payloads
  /\ name \in DOMAIN scripts
  /\ payloads[name] = [of |-> d, whole |-> TRUE]
  /\ scripts[name] = [of |-> d, whole |-> TRUE, runs |-> TRUE]
=============================================================================
