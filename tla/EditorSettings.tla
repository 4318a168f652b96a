----------------------------- MODULE EditorSettings -----------------------------
(***************************************************************************)
(* SAIAI's proxy settings in the settings.json of VS Code                  *)
(* (src/tools/saiai-cli/src/vscode.rs): JSON with comments, edited in      *)
(* place.  A document is a sequence of items: braces, commas, members and  *)
(* comments.  One comment is SAIAI's marker and names the proxy that SAIAI *)
(* wrote.  White space, numbers and nested values are not represented; a   *)
(* text that is no JSON has the item Broken.                               *)
(***************************************************************************)
EXTENDS Naturals, SequencesExt, FiniteSetsExt

CONSTANTS Listen  \* the addresses of SAIAI's proxy, as values of http.proxy

Item(kind, key, value) == [kind |-> kind, key |-> key, value |-> value]
Open == Item("open", "", "")
Close == Item("close", "", "")
Comma == Item("comma", "", "")
Broken == Item("broken", "", "")
Member(key, value) == Item("member", key, value)
Marker(proxy) == Item("marker", "", proxy)

IsComment(item) == item.kind \in {"marker", "note"}
IsMember(item) == item.kind = "member"
\* The places of the tokens: all but the comments.
Tokens(doc) == {i \in DOMAIN doc : ~IsComment(doc[i])}
Before(doc, i) == Max({j \in Tokens(doc) : j < i})
After(doc, i) == Min({j \in Tokens(doc) : j > i})
OpeningBrace(doc) == Min(Tokens(doc))
ClosingBrace(doc) == Max(Tokens(doc))
Keys(doc) == {doc[i].key : i \in {i \in DOMAIN doc : IsMember(doc[i])}}
At(doc, key) == CHOOSE i \in DOMAIN doc : IsMember(doc[i]) /\ doc[i].key = key
\* A setting that is missing has no value.
ValueOf(doc, key) == IF key \in Keys(doc) THEN doc[At(doc, key)].value ELSE "none"
Markers(doc) == {i \in DOMAIN doc : doc[i].kind = "marker"}

\* An object whose members are separated by commas, one of which may trail,
\* and have different keys.
Parses(doc) ==
    /\ \A i \in DOMAIN doc : doc[i].kind # "broken"
    /\ Cardinality(Tokens(doc)) > 1
    /\ {i \in DOMAIN doc : doc[i].kind = "open"} = {OpeningBrace(doc)}
    /\ {i \in DOMAIN doc : doc[i].kind = "close"} = {ClosingBrace(doc)}
    /\ \A i \in Tokens(doc) \ {OpeningBrace(doc)} :
           /\ IsMember(doc[i]) => ~IsMember(doc[Before(doc, i)])
           /\ doc[i].kind = "comma" => IsMember(doc[Before(doc, i)])
    /\ \A i, j \in DOMAIN doc : IsMember(doc[i]) /\ IsMember(doc[j]) /\ doc[i].key = doc[j].key => i = j
-----------------------------------------------------------------------------
(* What SAIAI writes *)

\* "support" stands for the four settings that have one value, whatever the
\* proxy; noProxy is only written where the user has none.
ManagedKeys == <<"proxy", "support", "strictSSL">>
ManagedValue(key, proxy) ==
    CASE key = "proxy" -> proxy
      [] key = "support" -> "managed"
      [] key = "strictSSL" -> "true"
      [] key = "noProxy" -> "managed"
ExcludesNothing(doc) == ValueOf(doc, "noProxy") \in {"none", "empty"}
\* No exclusion of the hosts of Codex, and no value that is not a list.
NoProxyIsValid(doc) == ValueOf(doc, "noProxy") \notin {"codex", "malformed"}

HasManagedProxy(doc) == Markers(doc) # {}
ValidateSettings(doc, listen) ==
    /\ Parses(doc) /\ NoProxyIsValid(doc) /\ ~ExcludesNothing(doc)
    /\ \A key \in ToSet(ManagedKeys) : ValueOf(doc, key) = ManagedValue(key, listen)

\* SAIAI owns a proxy that its marker names.
OwnsProxy(doc) ==
    \E i \in Markers(doc) : doc[i].value = ValueOf(doc, "proxy") /\ doc[i].value \in Listen
Refuses(doc, listen) ==
    \/ ~Parses(doc) \/ Cardinality(Markers(doc)) > 1
    \/ ValueOf(doc, "strictSSL") = "false" \/ ~NoProxyIsValid(doc)
    \/ ValueOf(doc, "proxy") \notin {"none", "", listen} /\ ~OwnsProxy(doc)

Written(doc) == ManagedKeys \o (IF ExcludesNothing(doc) THEN <<"noProxy">> ELSE <<>>)
\* The members joined by commas.
Joined(members) ==
    FlattenSeq([i \in DOMAIN members |-> (IF i = 1 THEN <<>> ELSE <<Comma>>) \o <<members[i]>>])
\* Before the closing brace, with a comma after the last member if it has none.
AppendMembers(doc, members) ==
    LET previous == Before(doc, ClosingBrace(doc)) IN
    IF members = <<>> THEN doc
    ELSE SubSeq(doc, 1, previous) \o (IF IsMember(doc[previous]) THEN <<Comma>> ELSE <<>>)
         \o SubSeq(doc, previous + 1, ClosingBrace(doc) - 1) \o Joined(members) \o SubSeq(doc, ClosingBrace(doc), Len(doc))
WithMarker(doc, listen) ==
    IF Markers(doc) = {} THEN InsertAt(doc, OpeningBrace(doc) + 1, Marker(listen))
    ELSE [doc EXCEPT ![Min(Markers(doc))] = Marker(listen)]
MergeSettings(doc, listen) ==
    LET replaced == [i \in DOMAIN doc |->
            IF IsMember(doc[i]) /\ doc[i].key \in ToSet(Written(doc))
            THEN Member(doc[i].key, ManagedValue(doc[i].key, listen)) ELSE doc[i]]
        missing == SelectSeq(Written(doc), LAMBDA key : key \notin Keys(doc))
        members == [i \in DOMAIN missing |-> Member(missing[i], ManagedValue(missing[i], listen))]
    IN  WithMarker(AppendMembers(replaced, members), listen)
-----------------------------------------------------------------------------
(* What uninstall removes *)

Without(doc, places) == LET kept == SelectSeq([i \in DOMAIN doc |-> i], LAMBDA i : i \notin places)
                        IN  [k \in DOMAIN kept |-> doc[kept[k]]]
\* BUG: the comma before the last member stays, a comma after one is needed.
RemoveLeavingComma(doc, key) ==
    LET i == At(doc, key) IN
    IF doc[Before(doc, i)].kind = "comma" THEN Without(doc, {Before(doc, i), i}) ELSE Without(doc, {i})
\* A member goes with the comma after it, and what is between the two; the
\* last member with the comma before it.
RemoveMember(doc, key) ==
    LET i == At(doc, key) IN
    IF doc[After(doc, i)].kind = "comma" THEN Without(doc, i .. After(doc, i))
    ELSE IF doc[Before(doc, i)].kind = "comma" THEN Without(doc, {Before(doc, i), i})
    ELSE Without(doc, {i})

\* Only values that are what SAIAI writes for the marker's proxy.
OwnedKeys(doc) ==
    LET proxy == doc[Min(Markers(doc))].value IN
    SelectSeq(Append(ManagedKeys, "noProxy"), LAMBDA key : ValueOf(doc, key) = ManagedValue(key, proxy))
WithoutOwned(doc) == FoldLeft(RemoveMember, doc, OwnedKeys(doc))
Removed(doc) == Without(WithoutOwned(doc), Markers(WithoutOwned(doc)))
\* What is compared at last; the marker may not have gone with a member.
Faithful(doc, removed) ==
    /\ Markers(WithoutOwned(doc)) # {}
    /\ Parses(removed) /\ Keys(removed) = Keys(doc) \ ToSet(OwnedKeys(doc))
    /\ \A key \in Keys(removed) : ValueOf(removed, key) = ValueOf(doc, key)

\* What remove_managed_proxy says of a document, when the addresses of the
\* known environments are given.
Removal(doc, proxies) ==
    IF ~HasManagedProxy(doc) THEN "not managed"
    ELSE IF ~Parses(doc) \/ Cardinality(Markers(doc)) > 1 THEN "failed"
    ELSE IF doc[Min(Markers(doc))].value \notin proxies THEN "other proxy"
    ELSE IF ~Faithful(doc, Removed(doc)) THEN "failed"
    ELSE "owned"
=============================================================================
