----------------------------- MODULE ManagedDocuments -----------------------------
(***************************************************************************)
(* Files of the user that SAIAI writes its settings into and takes them    *)
(* out of again: the settings of VS Code, of which there may be several    *)
(* (vscode.rs, configure_vscode_editor_proxy_with_consent of main.rs), and *)
(* the .env file of Codex (write_codex_ide_env), with the removal that     *)
(* uninstall plans.  The user edits the same files.  Comparing a file and  *)
(* replacing it is one step.                                               *)
(***************************************************************************)
EXTENDS EditorSettings, DotenvBlock

CONSTANTS Settings,       \* the settings.json files of VS Code
          InitialSettings, \* what may be in them at first, functions on Settings
          InitialDotenv,
          MaxEdits        \* bound on the user's edits

DocumentsAssumption == MaxEdits \in Nat

VARIABLES client,   \* whose files they are: "vscode" or "codex"; the two do not affect each other
          file,     \* the settings.json files; <<>> is a file that is missing
          dotenv,   \* the .env file of Codex
          current,  \* the address of the proxy, from SAIAI's config.json
          trusted,  \* whether VS Code's certificate loader trusts the CA
          setup,    \* [pc, listen, read, todo]: the editor setup of an init
          edits,    \* number of edits by the user
          pristine  \* history: what the files were before SAIAI first wrote, until an edit

vars == <<client, file, dotenv, current, trusted, setup, edits, pristine>>

Idle == [pc |-> "idle", read |-> <<>>, todo |-> {}]
Resting == setup.pc = "idle"

\* read_settings: a missing file is an empty object.
Read(doc) == IF doc = <<>> THEN <<Open, Close>> ELSE doc
\* What merge_settings returns is validated at last.
Mergeable(doc, listen) ==
    /\ ~Refuses(Read(doc), listen)
    /\ ValidateSettings(MergeSettings(Read(doc), listen), listen)

TypeOK == /\ DOMAIN file = Settings
          /\ current \in Listen /\ trusted \in BOOLEAN
          /\ setup.pc \in {"idle", "probe", "ask", "read", "write"} /\ setup.todo \subseteq Settings
          /\ edits \in 0 .. MaxEdits
-----------------------------------------------------------------------------
(* init and the proxy's address *)

\* Before the user's files, init writes its config.json.
Relocate(listen) ==
    /\ Resting /\ current' = listen
    /\ UNCHANGED <<client, file, dotenv, trusted, setup, edits, pristine>>

\* write_codex_ide_env.
ConfigureDotenv ==
    /\ Resting /\ client = "codex"
    /\ dotenv' = MergeBlock(dotenv, current)
    /\ UNCHANGED <<client, file, current, trusted, setup, edits, pristine>>

\* preflight: nothing is asked of the user if some file will be refused.
Preflight ==
    /\ Resting /\ client = "vscode" /\ \A f \in Settings : Mergeable(file[f], current)
    /\ setup' = [setup EXCEPT !.pc = "probe"]
    /\ UNCHANGED <<client, file, dotenv, current, trusted, edits, pristine>>

\* inspect_certificate_trust runs VS Code's own loader for at most ten
\* seconds: it may be missing, fail or give no answer in time.
Probe(consent, answers) ==
    /\ setup.pc = "probe"
    /\ setup' = IF ~answers THEN Idle
                ELSE IF trusted THEN [setup EXCEPT !.pc = "read"]
                ELSE IF consent THEN [setup EXCEPT !.pc = "ask"] ELSE Idle
    /\ UNCHANGED <<client, file, dotenv, current, trusted, edits, pristine>>
\* trust_windows_current_user_ca: Windows asks the user, for at most 90 seconds.
AskTrust(confirmed) ==
    /\ setup.pc = "ask"
    /\ trusted' = (trusted \/ confirmed)
    /\ setup' = IF confirmed THEN [setup EXCEPT !.pc = "probe"] ELSE Idle
    /\ UNCHANGED <<client, file, dotenv, current, edits, pristine>>

\* configure_paths: all files are merged before the first is written.
ReadAll ==
    /\ setup.pc = "read"
    /\ setup' = IF \A f \in Settings : Mergeable(file[f], current)
                THEN [pc |-> "write", read |-> file,
                      todo |-> {f \in Settings : MergeSettings(Read(file[f]), current) # Read(file[f])}]
                ELSE Idle
    /\ UNCHANGED <<client, file, dotenv, current, trusted, edits, pristine>>
UnchangedSince(f) == Read(file[f]) = Read(setup.read[f])
WriteSettings(f) ==
    /\ setup.pc = "write" /\ f \in setup.todo
    /\ \/ /\ UnchangedSince(f)
          /\ file' = [file EXCEPT ![f] = MergeSettings(Read(setup.read[f]), current)]
          /\ setup' = [setup EXCEPT !.todo = @ \ {f}]
       \/ ~UnchangedSince(f) /\ setup' = Idle /\ UNCHANGED file
    /\ UNCHANGED <<client, dotenv, current, trusted, edits, pristine>>
Done == setup.pc = "write" /\ setup.todo = {} /\ setup' = Idle
        /\ UNCHANGED <<client, file, dotenv, current, trusted, edits, pristine>>
-----------------------------------------------------------------------------
(* uninstall *)

RemoveSettings(f) ==
    /\ Resting /\ Removal(file[f], {current}) = "owned"
    /\ file' = [file EXCEPT ![f] = Removed(file[f])]
    /\ UNCHANGED <<client, dotenv, current, trusted, setup, edits, pristine>>
RemoveDotenv ==
    /\ Resting /\ BlockRemoval(dotenv) = "owned"
    /\ dotenv' = IF \A i \in DOMAIN StripBlock(dotenv) : StripBlock(dotenv)[i] = Blank
                 THEN <<>> ELSE StripBlock(dotenv)
    /\ UNCHANGED <<client, file, current, trusted, setup, edits, pristine>>
-----------------------------------------------------------------------------
(* The user *)

\* The history ends.
Edited == [kept |-> FALSE, file |-> <<>>, dotenv |-> <<>>]
UserValue == [proxy |-> {"", "corp"} \cup Listen, support |-> {"user"}, strictSSL |-> {"true", "false"},
              noProxy |-> {"user", "empty", "codex"}, theme |-> {"user"}]
Note == Item("note", "", "")
\* Sets a value, removes a member, adds a member or a comment, repeats the
\* marker, or breaks the file.
EditsOf(doc) ==
    LET first  == OpeningBrace(doc) + 1
        inside == first .. ClosingBrace(doc)
        absent == IF Keys(doc) = {} THEN {} ELSE DOMAIN UserValue \ Keys(doc)
    IN
    UNION {{[doc EXCEPT ![At(doc, key)].value = value] : value \in UserValue[key]} : key \in Keys(doc)}
    \cup {RemoveMember(doc, key) : key \in Keys(doc)}
    \cup {InsertAt(doc, i, Note) : i \in inside}
    \cup {InsertAt(InsertAt(doc, first, Comma), first, Member(key, "user")) :
             key \in {key \in absent : "user" \in UserValue[key]}}
    \cup {InsertAt(doc, i, doc[i]) : i \in Markers(doc)}
    \cup {<<Broken>>}
EditSettings(f) ==
    /\ edits < MaxEdits /\ edits' = edits + 1 /\ client = "vscode" /\ Parses(Read(file[f]))
    /\ \E doc \in EditsOf(Read(file[f])) : file' = [file EXCEPT ![f] = doc]
    /\ pristine' = Edited
    /\ UNCHANGED <<client, dotenv, current, trusted, setup>>

UserLine == {Line("text", ""), Line("variable", ""), Blank}
EditDotenv ==
    /\ edits < MaxEdits /\ edits' = edits + 1 /\ client = "codex"
    /\ \/ \E i \in 1 .. Len(dotenv) + 1, line \in UserLine : dotenv' = InsertAt(dotenv, i, line)
       \/ \E i \in DOMAIN dotenv : dotenv' = RemoveAt(dotenv, i)
    /\ pristine' = Edited
    /\ UNCHANGED <<client, file, current, trusted, setup>>
-----------------------------------------------------------------------------
Init ==
    /\ \/ client = "vscode" /\ file \in InitialSettings /\ dotenv = <<>>
       \/ client = "codex" /\ file = [f \in Settings |-> <<>>] /\ dotenv \in InitialDotenv
    /\ pristine = [kept |-> TRUE, file |-> file, dotenv |-> dotenv]
    /\ current = (CHOOSE l \in Listen : TRUE) /\ trusted = FALSE /\ setup = Idle /\ edits = 0

Next ==
    \/ \E listen \in Listen : Relocate(listen)
    \/ ConfigureDotenv \/ RemoveDotenv \/ EditDotenv
    \/ Preflight \/ ReadAll \/ Done
    \/ \E consent, answers \in BOOLEAN : Probe(consent, answers)
    \/ \E confirmed \in BOOLEAN : AskTrust(confirmed)
    \/ \E f \in Settings : WriteSettings(f) \/ RemoveSettings(f) \/ EditSettings(f)

Spec == Init /\ [][Next]_vars

(***************************************************************************)
(* Properties.                                                             *)
(***************************************************************************)
\* What is the user's in a document: its comments and the members that are
\* not SAIAI's, a proxy and exclusions of its own among them, in their order;
\* of the .env file the lines outside the block.
IsUsers(item) ==
    \/ item.kind = "note" \/ item.kind = "broken"
    \/ IsMember(item) /\ \/ item.key = "theme"
                         \/ item.key = "proxy" /\ item.value = "corp"
                         \/ item.key = "noProxy" /\ item.value \notin {"managed", "empty"}
UsersMembers(doc) == SelectSeq(doc, IsUsers)
UsersLines(doc) == SelectSeq(Lines(doc, DOMAIN doc \ OfBlock(doc)), LAMBDA line : line.kind = "text")
\* A comment between a removed value and its comma is not kept.
BetweenValueAndComma(doc) ==
    \E i \in DOMAIN doc : doc[i].kind = "note" /\ IsMember(doc[Before(doc, i)]) /\ doc[After(doc, i)].kind = "comma"

\* The settings files that a step changes.
Rewritten == {f \in Settings : file'[f] # file[f]}

\* Whatever the user did to the file before, SAIAI's own steps, of init and of
\* uninstall, leave what is the user's as it is, and no file half written: a
\* settings file that VS Code could parse still parses.
LeavesTheRest ==
    edits' = edits =>
        /\ \A f \in Rewritten : /\ \/ UsersMembers(Read(file'[f])) = UsersMembers(Read(file[f]))
                                  \/ BetweenValueAndComma(file[f])
                               /\ Parses(Read(file[f])) => Parses(Read(file'[f]))
        /\ dotenv' # dotenv => UsersLines(dotenv') = UsersLines(dotenv)

\* Uninstall can always take out what init put in: of a settings file that
\* parses, with one marker, the values of SAIAI go, those the user has changed
\* stay, and the last comparison never fails.
IsRemovable(doc) ==
    Parses(Read(doc)) /\ Cardinality(Markers(doc)) = 1 =>
        LET removed == Removed(doc)
            proxy   == doc[Min(Markers(doc))].value
        IN  /\ Faithful(doc, removed) /\ ~HasManagedProxy(removed)
            /\ \A key \in Keys(doc) :
                  key \in Keys(removed) <=> key = "theme" \/ ValueOf(doc, key) # ManagedValue(key, proxy)
StaysRemovable == \A f \in Rewritten : IsRemovable(file'[f])

\* If the user edits nothing meanwhile, what uninstall leaves is what there was
\* before the first init, however often init ran and the address changed: but
\* for the values that SAIAI's replaced and blank lines at the end.
Restores ==
    edits' = edits /\ pristine.kept =>
        /\ \A f \in Rewritten :
              HasManagedProxy(file[f]) /\ ~HasManagedProxy(file'[f]) /\ ~BetweenValueAndComma(pristine.file[f])
                  => UsersMembers(file'[f]) = UsersMembers(Read(pristine.file[f]))
        /\ OfBlock(dotenv) # {} /\ OfBlock(dotenv') = {}
              => dotenv' = WithoutTrailingBlanks(SelectSeq(pristine.dotenv, LAMBDA line : ~IsManagedVariable(line)))

\* SAIAI's values come and go in a document; everything else stays as the user left it.
OnlyTheUserChangesTheRest == [][LeavesTheRest /\ Restores /\ StaysRemovable]_vars
=============================================================================
