-------------------------------- MODULE Tier1 --------------------------------
(***************************************************************************)
(* internal/routing/tools.go: the tool a text names.  A text is a sequence *)
(* of words, Slack's tokens <@U...> of Tokens and punctuation marks of     *)
(* Marks among them.  Upper case and the separators within a name (blank,  *)
(* hyphen, underscore) are left out.                                       *)
(***************************************************************************)
EXTENDS Integers, Sequences, FiniteSetsExt, SequencesExt, Ordered

CONSTANTS
    PatternEntries,  \* tier1PatternEntries: words, canonical id, length in
                     \* letters, and place in the alphabet of each
    Tokens, Marks,
    NoTool

------------------------------------------------------------------------------
(* init: the longest pattern first, then by the alphabet. *)
ToolPatterns ==
    SortedBy(PatternEntries,
             {pair \in PatternEntries \X PatternEntries :
                 \/ pair[1].letters > pair[2].letters
                 \/ /\ pair[1].letters = pair[2].letters
                    /\ pair[1].place < pair[2].place})

NormalizeMessage(text) == Selected(text, {i \in 1..Len(text) : text[i] \notin Tokens})

OccursAt(words, text, i) ==
    /\ i + Len(words) - 1 <= Len(text)
    /\ \A k \in 1..Len(words) : text[i + k - 1] = words[k]

Places(p, text) == {i \in 1..Len(text) : OccursAt(p.words, text, i)}

Span(p, i) ==
    [canonical |-> p.canonical, start |-> i, end |-> i + Len(p.words) - 1]

IsWithin(m, n) == m.start >= n.start /\ m.end <= n.end

(* Fault: the first occurrence of a name counts, within a longer one or not. *)
AddsMatch(text, matches, p) ==
    IF Places(p, text) = {}
       \/ \E m \in ToSet(matches) : m.canonical = p.canonical
    THEN matches
    ELSE Append(matches, Span(p, Min(Places(p, text))))

(* Only the first occurrence of a pattern is looked at; it is skipped when *)
(* its tool is matched already, or it lies within a match.                 *)
WithMatch(text, matches, p) ==
    LET found == Span(p, Min(Places(p, text)))
    IN IF \/ Places(p, text) = {}
          \/ \E m \in ToSet(matches) :
                 m.canonical = p.canonical \/ IsWithin(found, m)
       THEN matches
       ELSE Append(matches, found)

MatchedTier1(text) ==
    FoldLeft(LAMBDA matches, p : WithMatch(text, matches, p), <<>>, ToolPatterns)

(* firstWord, secondWord and lastWord look past punctuation. *)
WordsOf(s) == Selected(s, {i \in 1..Len(s) : s[i] \notin Marks})

Introducing == {"including", "include", "includes", "with", "have", "has",
                "seeing", "saw", "core"}
States == {"enabled", "available", "live"}
Naming == {"tool", "tools", "skill", "skills"} \cup States

IsDescriptiveReference(text, m) ==
    LET before == WordsOf(SubSeq(text, 1, m.start - 1))
        after  == WordsOf(SubSeq(text, m.end + 1, Len(text)))
    IN \/ before # <<>> /\ Last(before) \in Introducing
       \/ after # <<>> /\ after[1] \in Naming
       \/ Len(after) >= 2 /\ after[1] = "is" /\ after[2] \in States

ClassifyWithReason(raw) ==
    LET text    == NormalizeMessage(raw)
        matches == MatchedTier1(text)
    IN IF matches = <<>> THEN [tool |-> NoTool, reason |-> "no_match"]
       ELSE IF Len(matches) > 1 THEN [tool |-> NoTool, reason |-> "multi_match"]
       ELSE IF IsDescriptiveReference(text, matches[1])
       THEN [tool |-> NoTool, reason |-> "descriptive_reference"]
       ELSE [tool |-> matches[1].canonical, reason |-> "single_match"]
==============================================================================
