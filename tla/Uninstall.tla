------------------------------- MODULE Uninstall -------------------------------
(***************************************************************************)
(* saiai uninstall (src/tools/saiai-cli/src/uninstall.rs): a read-only     *)
(* discovery makes a plan, the user confirms it, and its items are carried *)
(* out one after the other.  Items may fail, the process may be killed,    *)
(* users edit their files meanwhile, and uninstall is run again.           *)
(*                                                                         *)
(* An environment is the default one or an isolated one, and stands for    *)
(* the product directories that were set up with it.  Of a file of a       *)
(* client only counts which environment's values SAIAI wrote into it, its  *)
(* revision by the user, and whether it can be read.  Layout without     *)
(* symbolic links, on Linux; no init runs at the same time.                *)
(***************************************************************************)
EXTENDS Naturals, SequencesExt

CONSTANTS Env, Default,
          Client,      \* the clients set up in the default environment
          Product,     \* of every isolated environment: "claude" or "codex"
          None,
          MaxEdits,    \* bound on the user's edits
          MaxFailures  \* bound on items that fail and processes that are killed

UninstallAssumption ==
    /\ IsFiniteSet(Env) /\ Default \in Env /\ None \notin Env
    /\ Client \subseteq {"claude", "codex"}
    /\ Product \in [Env \ {Default} -> {"claude", "codex"}]
    /\ MaxEdits \in Nat /\ MaxFailures \in Nat

VARIABLES file,    \* the clients' files: [values, revision, form]
          data,    \* the SAIAI directory of every environment: [config, record, rest]
          running, \* the environments whose service runs
          trusted, \* the environment whose CA the NSS database trusts, or None
          program, \* which program files are installed
          run,     \* [pc, plan]: the uninstaller
          given,   \* what was given up: projects, by the user (--forget-unknown-environments),
                   \* and areas that a run has passed over in silence
          count    \* what the bounds are counted in

system == <<file, data, running, trusted, program>>
vars == <<system, run, given, count>>

Isolated == Env \ {Default}
VSCode == <<"vscode", Default>>
ClientFile == {<<p, Default>> : p \in Client} \cup {<<Product[e], e>> : e \in Isolated}
File == ClientFile \cup {VSCode}

\* config.json of SAIAI, of somebody else, or none; the product-dir record;
\* everything else, with the CA, the state file and the device key.
Directory == [config : {"saiai", "foreign", "none"}, record : BOOLEAN, rest : BOOLEAN]
Empty == [config |-> "none", record |-> FALSE, rest |-> FALSE]
Program == {"auxiliary", "main"}
Idle == [pc |-> "idle", plan |-> <<>>]
\* A file that cannot be parsed, and one that is not UTF-8.
Form == {"good", "broken", "garbled"}

TypeOK ==
    /\ file \in [File -> [values : SUBSET Env, revision : 0 .. MaxEdits, form : Form]]
    /\ data \in [Env -> Directory]
    /\ running \subseteq Env /\ trusted \in Env \cup {None} /\ program \subseteq Program
    /\ run.pc \in {"idle", "planned", "execute"}
    /\ given \in [projects : SUBSET Isolated, areas : SUBSET {"vscode", "certificates"}]
    /\ count \in [edits : 0 .. MaxEdits, failures : 0 .. MaxFailures]
-----------------------------------------------------------------------------
(* Discovery *)

HasConfig(e) == data[e].config = "saiai"
Instances == {e \in Env : data[e] # Empty}

\* The product directories that can be found: the default ones, the one the
\* variable names, and those on record.
Known(variable) == {Default} \cup ({variable} \ {None}) \cup {e \in Isolated : data[e].record}
Unknown(variable) == {e \in Isolated \ Known(variable) : HasConfig(e)}

\* A directory SAIAI made: with its config.json, or the record and SAIAI's files.
Owned(e) == HasConfig(e) \/ (data[e].record /\ data[e].config = "none")
-----------------------------------------------------------------------------
(* The plan: its items in the order in which they are carried out *)

Item(area, kind, of) == [area |-> area, kind |-> kind, of |-> of, outcome |-> "pending"]
Note(area, of, outcome) == [Item(area, "note", of) EXCEPT !.outcome = outcome]
Items(S) == SetToSeq(S)

PlanServices == Items({Item("services", "stop", e) : e \in running \cap Instances})

\* Removes what is known to be written by SAIAI from a file.
PlanEdit(area, f, written) ==
    IF file[f].form # "good" THEN <<Note(area, f, "failed")>>
    ELSE IF file[f].values \cap written = {} THEN <<>>
    ELSE <<[Item(area, "edit", f) EXCEPT !.of = [file |-> f, original |-> file[f],
                replacement |-> [file[f] EXCEPT !.values = @ \ written]]]>>

\* Key, address and CA path are compared with those of the environment.
ClaudeWritten(e) == {e} \cap {x \in Env : HasConfig(x)}
PlanClaude(f) == PlanEdit("product", f, ClaudeWritten(f[2]))
\* What SAIAI writes for Codex is recognized by itself; .env, config.toml and
\* auth.json are one file here.
PlanCodex(f) == PlanEdit("product", f, Env)
\* The addresses of all environments are known; nothing is said of a file that is not UTF-8.
PlanVSCode == IF file[VSCode].form = "garbled" THEN <<>> ELSE PlanEdit("vscode", VSCode, {e \in Env : HasConfig(e)})

\* An environment that only the variable led to is put on record.
PlanRecord(variable, e) ==
    IF e \in Isolated /\ e = variable /\ HasConfig(e) /\ ~data[e].record
    THEN <<Item("product", "record", e)>> ELSE <<>>
\* The product directories: of each product the default one and the one its
\* variable names, then those on record.
ProductDirs(variable) ==
    LET one(f)   == IF f \in ClientFile THEN <<f>> ELSE <<>>
        first    == one(<<"claude", Default>>) \o one(<<"claude", variable>>)
                    \o one(<<"codex", Default>>) \o one(<<"codex", variable>>)
    IN  first \o Items({f \in ClientFile : f[2] \in Known(variable)} \ ToSet(first))
PlanProducts(variable) ==
    LET plan(f) == (IF f[1] = "claude" THEN PlanClaude(f) ELSE PlanCodex(f)) \o PlanRecord(variable, f[2])
    IN  FlattenSeq([i \in DOMAIN ProductDirs(variable) |-> plan(ProductDirs(variable)[i])])

\* BUG: an unknown project is only mentioned.
UnknownMentioned(forget) == "manual"
\* config.json is the only evidence of what SAIAI wrote into an unknown project.
UnknownOutcome(forget) == IF forget THEN "manual" ELSE "failed"
PlanUnknown(variable, forget) ==
    Items({Note("product", e, UnknownOutcome(forget)) : e \in Unknown(variable)})

\* Without certutil, or when it fails, nothing seems to be trusted: blind.
PlanCertificates(blind) ==
    IF ~blind /\ trusted # None /\ data[trusted].rest
    THEN <<Item("certificates", "untrust", trusted)>> ELSE <<>>
PassedOver(blind) == (IF file[VSCode].form = "garbled" /\ file[VSCode].values # {} THEN {"vscode"} ELSE {})
                     \cup (IF blind THEN {"certificates"} ELSE {})

PlanData ==
    (IF HasConfig(Default) THEN <<Item("data", "config", Default)>> ELSE <<>>)
    \o (IF data[Default].rest THEN <<Item("data", "rest", Default)>> ELSE <<>>)
    \o Items({Item("data", "tree", e) : e \in {e \in Isolated \cap Instances : Owned(e)}})
    \o Items({Note("data", e, "kept") : e \in {e \in Isolated \cap Instances : ~Owned(e)}})

\* The main program last.
PlanProgram == Items({Item("program", "program", x) : x \in program \ {"main"}})
               \o Items({Item("program", "program", x) : x \in program \cap {"main"}})

BuildPlan(variable, forget, blind) ==
    PlanServices \o PlanProducts(variable) \o PlanUnknown(variable, forget)
    \o PlanVSCode \o PlanCertificates(blind) \o PlanData \o PlanProgram

Pending == {i \in DOMAIN run.plan : run.plan[i].outcome = "pending"}
-----------------------------------------------------------------------------
(* The run *)

\* The rest is finish(): an empty plan changes nothing.
Discover(variable, forget, blind) ==
    /\ run.pc = "idle" /\ "main" \in program /\ (blind => trusted # None)
    /\ run' = [pc |-> "planned", plan |-> BuildPlan(variable, forget, blind)]
    /\ given' = [projects |-> given.projects \cup (IF forget THEN Unknown(variable) ELSE {}),
                 areas |-> given.areas \cup PassedOver(blind)]
    /\ UNCHANGED <<system, count>>
Cancel == run.pc = "planned" /\ run' = Idle /\ UNCHANGED <<system, given, count>>
Confirm == run.pc = "planned" /\ run' = [run EXCEPT !.pc = "execute"] /\ UNCHANGED <<system, given, count>>

\* BUG: what was kept on purpose counts as a failure.
SucceededIfDone(item) == item.outcome = "done"
Succeeded(item) == item.outcome \notin {"failed", "skipped", "pending"}
\* gate_blocked: nothing at all has failed or been skipped, and for the
\* program all the data is done.
GateBlocked(area) ==
    \/ \E i \in DOMAIN run.plan : run.plan[i].outcome # "pending" /\ ~Succeeded(run.plan[i])
    \/ area = "program" /\ \E i \in DOMAIN run.plan : run.plan[i].area = "data" /\ ~Succeeded(run.plan[i])

\* The item whose turn it is.  Data and program are last in the plan, so that
\* the two passes of execute() are one.
Turn == {i \in Pending : run.pc = "execute" /\ \A j \in Pending : i <= j}
Blocked(i) ==
    \/ run.plan[i].kind = "record" /\ \E j \in 1 .. i - 1 : ~Succeeded(run.plan[j])
    \/ run.plan[i].area \in {"data", "program"} /\ GateBlocked(run.plan[i].area)
Due(i, kind) == ~Blocked(i) /\ run.plan[i].kind = kind
Ends(i, outcome) == run' = [run EXCEPT !.plan[i].outcome = outcome] /\ UNCHANGED given

Skip(i) == Blocked(i) /\ Ends(i, "skipped") /\ UNCHANGED <<system, count>>

Stop(i) ==
    /\ Due(i, "stop") /\ Ends(i, "done")
    /\ running' = running \ {run.plan[i].of}
    /\ UNCHANGED <<file, data, trusted, program, count>>

MayEdit(f, original) == file[f] = original
\* execute_edit: reading again, comparing and replacing are one step.
Edit(i) ==
    LET item == run.plan[i].of IN
    /\ Due(i, "edit")
    /\ \/ /\ MayEdit(item.file, item.original)
          /\ Ends(i, "done") /\ file' = [file EXCEPT ![item.file] = item.replacement]
       \/ ~MayEdit(item.file, item.original) /\ Ends(i, "failed") /\ UNCHANGED file
    /\ UNCHANGED <<data, running, trusted, program, count>>

Record(i) ==
    /\ Due(i, "record") /\ Ends(i, "done")
    /\ data' = [data EXCEPT ![run.plan[i].of].record = TRUE]
    /\ UNCHANGED <<file, running, trusted, program, count>>

\* A certutil that fails at first means that there is nothing to remove.
Untrust(i) ==
    /\ Due(i, "untrust")
    /\ \/ Ends(i, "done") /\ trusted' = None
       \/ /\ run' = [run EXCEPT !.plan[i].outcome = "absent"] /\ UNCHANGED trusted
          /\ given' = [given EXCEPT !.areas = @ \cup {"certificates"}]
    /\ UNCHANGED <<file, data, running, program, count>>

RemoveData(i) ==
    LET e == run.plan[i].of IN
    /\ \/ Due(i, "config") /\ data' = [data EXCEPT ![e].config = "none"]
       \/ Due(i, "rest") /\ data' = [data EXCEPT ![e].rest = FALSE]
       \/ Due(i, "tree") /\ data' = [data EXCEPT ![e] = Empty]
    /\ Ends(i, "done")
    /\ UNCHANGED <<file, running, trusted, program, count>>

RemoveProgram(i) ==
    /\ Due(i, "program") /\ Ends(i, "done")
    /\ program' = program \ {run.plan[i].of}
    /\ UNCHANGED <<file, data, running, trusted, count>>

\* What remove_dir_all may leave: it deletes in the directory's own order.
Leftover(d) == {[config |-> c, record |-> r, rest |-> x] :
                   c \in {d.config, "none"}, r \in {d.record, FALSE}, x \in {d.rest, FALSE}} \ {Empty}
Failure == count.failures < MaxFailures /\ count' = [count EXCEPT !.failures = @ + 1]
\* Only a tree is left half removed by a failure.
Fail(i) ==
    /\ ~Blocked(i) /\ Failure /\ Ends(i, "failed")
    /\ IF run.plan[i].kind = "tree"
       THEN \E left \in Leftover(data[run.plan[i].of]) : data' = [data EXCEPT ![run.plan[i].of] = left]
       ELSE UNCHANGED data
    /\ UNCHANGED <<file, running, trusted, program>>

Finish == run.pc = "execute" /\ Pending = {} /\ run' = Idle /\ UNCHANGED <<system, given, count>>

Crash ==
    /\ run.pc = "execute" /\ Failure /\ run' = Idle
    /\ \/ UNCHANGED data
       \/ \E i \in Turn : /\ Due(i, "tree")
                        /\ \E left \in Leftover(data[run.plan[i].of]) :
                              data' = [data EXCEPT ![run.plan[i].of] = left]
    /\ UNCHANGED <<file, running, trusted, program, given>>
-----------------------------------------------------------------------------
(* The user *)

\* While uninstall runs: between two runs is before the end of the first.
\* Some other change, one that removes SAIAI's values, or one that breaks the file: what
\* is not UTF-8 is reported as unreadable but in the settings of VS Code.
EditFile(f) ==
    /\ run.pc # "idle"
    /\ count.edits < MaxEdits /\ count' = [count EXCEPT !.edits = @ + 1]
    /\ \E change \in {"other", "remove", "break"} \cup (IF f = VSCode THEN {"garble"} ELSE {}) :
          file' = [file EXCEPT ![f] = [values   |-> IF change = "remove" THEN {} ELSE @.values,
                                       revision |-> @.revision + 1,
                                       form |-> CASE change = "break" -> "broken"
                                                  [] change = "garble" -> "garbled"
                                                  [] OTHER -> "good"]]
    /\ UNCHANGED <<data, running, trusted, program, run, given>>
\* Uninstall has told the user that the file cannot be parsed.
Repair(f) ==
    /\ file[f].form = "broken" /\ file' = [file EXCEPT ![f].form = "good"]
    /\ UNCHANGED <<data, running, trusted, program, run, given, count>>
-----------------------------------------------------------------------------
\* Any layout init leaves: an environment's values are only where its config
\* is, a file has the values of the last init that wrote it, all services run.
Init ==
    /\ data \in [Env -> {Empty, [config |-> "foreign", record |-> FALSE, rest |-> FALSE]}
                        \cup [config : {"saiai"}, record : BOOLEAN, rest : {TRUE}]]
    /\ ~data[Default].record /\ data[Default] # Empty
    /\ file \in [File -> [values : {{}} \cup {{e} : e \in Env}, revision : {0}, form : {"good"}]]
    /\ \A f \in File : file[f].values \subseteq {e \in Env : HasConfig(e) /\ (f = VSCode \/ e = f[2])}
    /\ running = {e \in Env : HasConfig(e)}
    /\ trusted \in {None} \cup {e \in Env : HasConfig(e)}
    /\ program = Program /\ run = Idle /\ given = [projects |-> {}, areas |-> {}]
    /\ count = [edits |-> 0, failures |-> 0]

Execute ==
    \/ \E i \in Turn : \/ Skip(i) \/ Stop(i) \/ Edit(i) \/ Record(i) \/ Untrust(i)
                     \/ RemoveData(i) \/ RemoveProgram(i) \/ Fail(i)
    \/ Finish

Next ==
    \/ \E variable \in Isolated \cup {None}, forget, blind \in BOOLEAN : Discover(variable, forget, blind)
    \/ Cancel \/ Confirm \/ Execute \/ Crash
    \/ \E f \in File : EditFile(f) \/ Repair(f)

Spec == Init /\ [][Next]_vars
\* The process runs.
FairSpec == Spec /\ WF_vars(Execute)
\* A user who repairs files and repeats uninstall until the program is gone.
UserPersists == /\ WF_vars(\E variable \in Isolated \cup {None}, blind \in BOOLEAN : Discover(variable, FALSE, blind))
                /\ SF_vars(Confirm)
                /\ \A f \in File : WF_vars(Repair(f))

(***************************************************************************)
(* Properties.                                                             *)
(***************************************************************************)
\* What uninstall has still to take out: the values in a file and the trust in a CA, but
\* for what was given up.
Owed(f) == IF f = VSCode /\ "vscode" \in given.areas THEN {} ELSE file[f].values \ given.projects
TrustOwed == trusted \notin {None} \cup given.projects /\ "certificates" \notin given.areas

\* As long as a client's file holds values of SAIAI, or its CA is trusted, the
\* config.json or the CA file that proves it is kept, through failures, kills
\* and reruns with other variables, unless the user gave up on the project, or the
\* settings of VS Code were not UTF-8 or certutil failed when a plan was made or
\* carried out: of these uninstall says nothing.
EvidenceOutlivesValues ==
    /\ \A f \in File : \A e \in Owed(f) : HasConfig(e)
    /\ TrustOwed => data[trusted].rest

\* No edit of the user is undone, whenever it was made: a file's revision
\* never goes back.
UserEditsSurvive == [][\A f \in File : file'[f].revision >= file[f].revision]_vars

\* Once every project is on record, repeating uninstall ends with everything
\* removed, without the variables, whatever failed before, but for what was given up.
AllKnown == \A e \in Isolated : HasConfig(e) => data[e].record
Removed == /\ program = {} /\ running = {} /\ \A e \in Env : ~HasConfig(e)
           /\ ~TrustOwed /\ \A f \in File : Owed(f) = {}
RerunsConverge == UserPersists => []<>(AllKnown => Removed)
=============================================================================
