------------------------------- MODULE DotenvBlock -------------------------------
(***************************************************************************)
(* SAIAI's block in the .env file of Codex (src/tools/saiai-cli/src/       *)
(* main.rs, strip_codex_ide_env_block and merge_codex_ide_env).  A         *)
(* document is a sequence of lines: the markers of the block, the          *)
(* assignment of the block (one line stands for all nine), blank lines,    *)
(* assignments of the user to the same variables, and other lines.         *)
(***************************************************************************)
EXTENDS Naturals, SequencesExt, FiniteSetsExt

Line(kind, value) == [kind |-> kind, value |-> value]
Begin == Line("begin", "")
End == Line("end", "")
Blank == Line("blank", "")
Assignment(value) == Line("managed", value)

\* From a BEGIN to the next END, or to the end of the file.
InBlock(doc, i) ==
    \E b \in 1 .. i : doc[b].kind = "begin" /\ \A j \in b .. i - 1 : doc[j].kind # "end"
Complete(doc) == doc = <<>> \/ ~InBlock(doc, Len(doc)) \/ doc[Len(doc)].kind = "end"
OfBlock(doc) == {i \in DOMAIN doc : InBlock(doc, i) \/ doc[i].kind = "end"}

\* The first line of the last block, if nothing but blank lines follow it.
TrailingBlock(doc) ==
    LET begins == {i \in DOMAIN doc : doc[i].kind = "begin"}
        ends   == {i \in DOMAIN doc : doc[i].kind = "end"}
    IN  IF begins = {} THEN {}
        ELSE IF ~Complete(doc) THEN {Max(begins)}
        ELSE IF \A i \in Max(ends) + 1 .. Len(doc) : doc[i] = Blank THEN {Max(begins)} ELSE {}
\* The blank line SAIAI put before its block.
Separator(doc) == {i \in DOMAIN doc : i + 1 \in TrailingBlock(doc) /\ doc[i] = Blank} \ OfBlock(doc)

Lines(doc, places) == LET kept == SelectSeq([i \in DOMAIN doc |-> i], LAMBDA i : i \in places)
                      IN  [k \in DOMAIN kept |-> doc[kept[k]]]
StripBlock(doc) == Lines(doc, DOMAIN doc \ (OfBlock(doc) \cup Separator(doc)))

IsManagedVariable(line) == line.kind \in {"managed", "variable"}
WithoutTrailingBlanks(doc) ==
    LET text == {i \in DOMAIN doc : doc[i] # Blank} IN SubSeq(doc, 1, IF text = {} THEN 0 ELSE Max(text))
MergeBlock(doc, listen) ==
    LET kept == WithoutTrailingBlanks(SelectSeq(StripBlock(doc), LAMBDA line : ~IsManagedVariable(line)))
    IN  kept \o (IF kept = <<>> THEN <<>> ELSE <<Blank>>) \o <<Begin, Assignment(listen), End>>

\* What uninstall makes of it: a file in which only the block was is deleted,
\* one whose block has no END is refused.
BlockRemoval(doc) == IF ~Complete(doc) THEN "failed" ELSE IF StripBlock(doc) = doc THEN "not managed" ELSE "owned"
=============================================================================
