----------------------------- MODULE MCUserFiles -----------------------------
(***************************************************************************)
(* Files that SAIAI shares with a user: a behaviour is one of Uninstall,   *)
(* with the default environment and the isolated one of a Claude project,  *)
(* of ManagedDocuments, or of AtomicFile, which is how either replaces a   *)
(* file, and the variables of the others stay as they are.                 *)
(*                                                                         *)
(* Documents: settings of up to two members with comments and a trailing   *)
(* comma, and .env files of up to three lines.                             *)
(***************************************************************************)
EXTENDS Uninstall

CONSTANTS default, isolated,
          Listen, Settings, MaxDocumentEdits,
          Writer, Core, Initial

VARIABLES part,
          client, document, dotenv, current, trust, setup, edits, pristine,
          bytes, synced, name, diskName, writing, replaced

varsD == <<client, document, dotenv, current, trust, setup, edits, pristine>>
varsF == <<bytes, synced, name, diskName, writing, replaced>>

ClaudeProject == [e \in {isolated} |-> "claude"]

(***************************************************************************)
(* The documents.                                                          *)
(***************************************************************************)
E == INSTANCE EditorSettings
B == INSTANCE DotenvBlock
Members == {E!Member("theme", "user"), E!Member("proxy", "corp"), E!Member("proxy", ""),
            E!Member("support", "user"), E!Member("strictSSL", "false"), E!Member("noProxy", "user"),
            E!Member("noProxy", "empty"), E!Member("noProxy", "codex")}
\* Values of the user's, which are tried with comments and as the last of two as well.
UsersOwn == {m \in Members : m.value \in {"user", "corp"}}
Remark == E!Item("note", "", "")
Bodies == {<<>>} \cup {<<m>> : m \in Members}
          \cup {<<E!Member("theme", "user"), E!Comma, m, E!Comma>> : m \in UsersOwn}
          \cup {<<m, Remark, E!Comma, E!Member("theme", "user"), Remark>> : m \in UsersOwn}
SomeDocuments == {<<>>} \cup {doc \in {<<E!Open>> \o body \o <<E!Close>> : body \in Bodies} : E!Parses(doc)}
SomeSettings == {[f \in Settings |-> IF f = "user" THEN doc ELSE <<>>] : doc \in SomeDocuments}
SomeLines == {B!Line("text", ""), B!Line("variable", ""), B!Blank}
SomeDotenv == UNION {[1 .. n -> SomeLines] : n \in 0 .. 3}

D == INSTANCE ManagedDocuments WITH InitialSettings <- SomeSettings, InitialDotenv <- SomeDotenv,
                                    MaxEdits <- MaxDocumentEdits, file <- document, trusted <- trust

F == INSTANCE AtomicFile WITH pc <- writing

ASSUME PartsAssumption == UninstallAssumption /\ D!DocumentsAssumption /\ F!FileAssumption

(***************************************************************************)
(* One of them runs.                                                       *)
(***************************************************************************)
\* One initial state of each, for the parts that rest.
RestU == /\ data = [e \in Env |-> [config |-> "foreign", record |-> FALSE, rest |-> FALSE]]
         /\ Init
RestD == client = "codex" /\ dotenv = <<>> /\ D!Init
\* Where there is a CA, it is trusted at first.
Trusted == trusted = None => \A e \in Env : ~HasConfig(e)
MCInit == \/ part = "uninstall" /\ Init /\ Trusted /\ RestD /\ F!Init
          \/ part = "documents" /\ RestU /\ D!Init /\ F!Init
          \/ part = "write" /\ RestU /\ RestD /\ F!Init
MCNext == \/ part = "uninstall" /\ Next /\ UNCHANGED <<part, varsD, varsF>>
          \/ part = "documents" /\ D!Next /\ UNCHANGED <<part, vars, varsF>>
          \/ part = "write" /\ F!Next /\ UNCHANGED <<part, vars, varsD>>
MCSpec == MCInit /\ [][MCNext]_<<part, vars, varsD, varsF>>
\* As in Uninstall: the process runs.
MCFairSpec == MCSpec /\ WF_vars(part = "uninstall" /\ Execute)

\* Of what is the user's, nothing is changed by SAIAI, and what init puts in,
\* uninstall takes out (ManagedDocuments); an edit during an uninstall is not
\* written over (Uninstall).
OnlyTheUserChangesTheRest ==
    /\ [][part = "documents" => D!LeavesTheRest /\ D!Restores /\ D!StaysRemovable]_varsD
    /\ UserEditsSurvive
\* A file is replaced as a whole or not at all (AtomicFile).
FilesAreWhole == part = "write" => F!FilesAreWhole
\* Repeating uninstall ends with everything removed (Uninstall).
Persists == /\ WF_vars(part = "uninstall" /\ \E variable \in Isolated \cup {None}, blind \in BOOLEAN : Discover(variable, FALSE, blind))
            /\ SF_vars(part = "uninstall" /\ Confirm)
            /\ \A f \in File : WF_vars(part = "uninstall" /\ Repair(f))

\* Under a user who repeats uninstall and repairs the files that it names, everything of
\* SAIAI is removed that was not given up.
AnyRerunsConverge == Persists => []<>(part = "uninstall" /\ AllKnown => Removed)
=============================================================================
