----------------------------- MODULE VersionProbe -----------------------------
(***************************************************************************)
(* The desktop app asks a client for its version                           *)
(* (src/tools/saiai-desktop/src-tauri/src/lib.rs, run_version_command): it *)
(* runs the program with `--version`, polls for its end until a deadline,  *)
(* and lets two threads read what it writes.  The program may hang, write  *)
(* without an end, and start another process that keeps its pipes open.    *)
(*                                                                         *)
(* Output is counted in parts, one line per stream; LineLimit of them are  *)
(* MAX_VERSION_OUTPUT_BYTES.                                               *)
(***************************************************************************)
EXTENDS Naturals

CONSTANTS LineLimit,
          MaxOutput  \* bound: parts written to a stream

ProbeAssumption == LineLimit \in Nat /\ MaxOutput \in Nat

Stream == {"stdout", "stderr"}

VARIABLES child,      \* "running", "ok", "failed", "killed"
          descendant, \* a process that the child started: "none", "running", "ended"
          written,    \* [Stream -> parts that were written]
          taken,      \* [Stream -> parts that the reader has]
          reader,     \* [Stream -> "reading", "done"]
          safe,       \* [Stream -> whether the line may be shown]
          late,       \* the deadline has passed
          probe       \* [pc, result, shown]

vars == <<child, descendant, written, taken, reader, safe, late, probe>>

TypeOK == /\ child \in {"running", "ok", "failed", "killed"}
          /\ descendant \in {"none", "running", "ended"}
          /\ written \in [Stream -> 0 .. MaxOutput] /\ taken \in [Stream -> 0 .. MaxOutput]
          /\ reader \in [Stream -> {"reading", "done"}]
          /\ safe \in [Stream -> BOOLEAN] /\ late \in BOOLEAN
          /\ probe \in [pc : {"poll", "stdout", "stderr", "done"},
                        result : {"none", "found", "warning"}, shown : 0 .. MaxOutput]

\* spawn, spawn_bounded_probe_reader.
Init == /\ child = "running" /\ descendant = "none"
        /\ written = [s \in Stream |-> 0] /\ taken = [s \in Stream |-> 0]
        /\ reader = [s \in Stream |-> "reading"]
        /\ safe \in [Stream -> BOOLEAN]
        /\ late = FALSE
        /\ probe = [pc |-> "poll", result |-> "none", shown |-> 0]

(***************************************************************************)
(* The client's program.                                                   *)
(***************************************************************************)
Open == child = "running" \/ descendant = "running"
Write(s) == /\ Open /\ written[s] < MaxOutput
            /\ written' = [written EXCEPT ![s] = @ + 1]
            /\ UNCHANGED <<child, descendant, taken, reader, safe, late, probe>>
Fork == /\ child = "running" /\ descendant = "none" /\ descendant' = "running"
        /\ UNCHANGED <<child, written, taken, reader, safe, late, probe>>
Exit == /\ child = "running" /\ child' \in {"ok", "failed"}
        /\ UNCHANGED <<descendant, written, taken, reader, safe, late, probe>>
ExitDescendant == /\ descendant = "running" /\ descendant' = "ended"
                  /\ UNCHANGED <<child, written, taken, reader, safe, late, probe>>

(***************************************************************************)
(* The probe.                                                              *)
(***************************************************************************)
\* take: one more than may be shown.
ReadLimit == LineLimit + 1
Read(s) ==
    /\ reader[s] = "reading"
    /\ \/ /\ taken[s] < written[s] /\ taken[s] < ReadLimit
          /\ taken' = [taken EXCEPT ![s] = @ + 1] /\ UNCHANGED reader
       \/ /\ taken[s] = ReadLimit \/ (taken[s] = written[s] /\ ~Open)
          /\ reader' = [reader EXCEPT ![s] = "done"] /\ UNCHANGED taken
    /\ UNCHANGED <<child, descendant, written, safe, late, probe>>

\* VERSION_PROBE_TIMEOUT.
TimePasses == /\ ~late /\ late' = TRUE
              /\ UNCHANGED <<child, descendant, written, taken, reader, safe, probe>>

Warn == probe' = [probe EXCEPT !.pc = "done", !.result = "warning"]
\* try_wait; at the deadline the child is killed and waited for.
Poll ==
    /\ probe.pc = "poll"
    /\ \/ child = "ok" /\ probe' = [probe EXCEPT !.pc = "stdout"] /\ UNCHANGED child
       \/ child = "failed" /\ Warn /\ UNCHANGED child
       \/ child = "running" /\ late /\ Warn /\ child' = "killed"
    /\ UNCHANGED <<descendant, written, taken, reader, safe, late>>

\* safe_version takes the first line there is; a stream that was cut off in
\* the middle of a character counts as empty.
FirstLines == IF taken["stdout"] = 0 THEN {"stderr"}
              ELSE IF taken["stdout"] > LineLimit THEN Stream ELSE {"stdout"}
\* Short enough to be whole, and with nothing that must not be shown.
Safe(line) == taken[line] \in 1 .. LineLimit /\ safe[line]
\* receive_probe_bytes, with what is left of the time.
Receive(s) ==
    /\ probe.pc = s
    /\ \/ reader[s] = "done" /\ s = "stdout" /\ probe' = [probe EXCEPT !.pc = "stderr"]
       \/ /\ reader[s] = "done" /\ s = "stderr"
          /\ \E line \in FirstLines :
                IF Safe(line) THEN probe' = [pc |-> "done", result |-> "found", shown |-> taken[line]] ELSE Warn
       \/ reader[s] = "reading" /\ late /\ Warn
    /\ UNCHANGED <<child, descendant, written, taken, reader, safe, late>>

ProbeStep == Poll \/ \E s \in Stream : Receive(s)
Next == \/ Fork \/ Exit \/ ExitDescendant \/ TimePasses \/ ProbeStep
        \/ \E s \in Stream : Write(s) \/ Read(s)
\* The app runs and time passes; the program need not do anything.
FairSpec == Init /\ [][Next]_vars /\ WF_vars(ProbeStep) /\ WF_vars(TimePasses)

(***************************************************************************)
(* Properties.                                                             *)
(***************************************************************************)
\* A version that is shown is all of a line that may be shown, of a program
\* that ended well; and no program is left running by its probe.
VersionIsWhole ==
    /\ probe.result = "found" => /\ child = "ok"
                                 /\ \E s \in Stream : safe[s] /\ probe.shown = written[s] /\ probe.shown <= LineLimit
    /\ probe.pc = "done" => child # "running"
\* The probe ends, whatever the program does and whoever has its pipes.
ProbeEnds == []<>(probe.pc = "done")
=============================================================================
