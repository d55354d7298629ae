---------------------------- MODULE TextExtraction ----------------------------
(***************************************************************************)
(* What the text pipeline makes of a document: the names of                *)
(* nlp/entity_extractor.py, the events of nlp/event_extractor.py and the   *)
(* relations of nlp/relation_extractor.py.                                 *)
(*                                                                         *)
(* A document is a sequence of sentences, a sentence a sequence of words.  *)
(* A word is a name that the recogniser or a regular expression finds, a   *)
(* trigger phrase, or anything else.  That one text is part of another is  *)
(* a relation between words, so that "met" is also found in "Mehmet".  The *)
(* recogniser takes a word for the same kind wherever it stands; dates,    *)
(* amounts, durations, confidences and the other pure identifiers are left *)
(* out, as no relation depends on them.                                    *)
(***************************************************************************)
EXTENDS Integers, Sequences, SequencesExt

CONSTANTS
    Persons, Locations, Organizations, Phones, Vehicles,    \* kinds of words
    Within,     \* <<a, b>>: the text of a is part of the text of b, a # b
    Offset,     \* Offset[a, b]: the character of b at which its part a starts
    Widest,     \* more than any offset
    Similar,    \* <<a, b>>: fuzz.ratio is at least the threshold, symmetric
    Length      \* len() of each name that is deduplicated

Call == "called"
Transfer == "transferred"
Meeting == "met"
Communication == "contacted"
Presence == "seen near"
Affiliation == "member of"

Unknown == "Unknown"    \* "Unknown Caller", "Unknown Sender" and the like
Nobody == "None"
CaseNode == "case"

-----------------------------------------------------------------------------
(* Names                                                                    *)

\* The words that are of the kind, in their order, each of them unless one that
\* is already kept stands for it: <<word, kept>> in covered.
Kept(words, kind, covered) ==
    FoldLeft(LAMBDA kept, w :
                 IF w \notin kind \/ \E k \in ToSet(kept) : <<w, k>> \in covered THEN kept
                 ELSE Append(kept, w),
             <<>>, words)

\* list(dict.fromkeys(words))
Unique(words) == Kept(words, ToSet(words), {<<w, w>> : w \in ToSet(words)})

\* Line 76: the name is a variation or a part of one that is kept.
Subsumed(name, kept) ==
    name = kept \/ <<name, kept>> \in Similar \cup Within

\* sorted(.., key=len, reverse=True) keeps the order of names of one length.
LongestFirst(names) ==
    LET longer == {p \in (DOMAIN names) \X (DOMAIN names) :
                      \/ Length[names[p[1]]] > Length[names[p[2]]]
                      \/ Length[names[p[1]]] = Length[names[p[2]]] /\ p[1] < p[2]}
        place == [i \in DOMAIN names |->
                     1 + Cardinality({j \in DOMAIN names : <<j, i>> \in longer})]
    IN  [k \in DOMAIN names |-> names[CHOOSE i \in DOMAIN names : place[i] = k]]

Merge(names) ==
    Kept(names, ToSet(names),
         {p \in ToSet(names) \X ToSet(names) : Subsumed(p[1], p[2])})

\* Mutant of deduplicate_entities_fuzzy: the names are taken as they come.
FirstComeFirstServed(entities) == Merge(Unique(entities))

deduplicate_entities_fuzzy(entities) == Merge(LongestFirst(Unique(entities)))

Found(text, kind) == Kept(text, kind, {})

\* The lists that the events and the relations are made from.
extract_entities(text) ==
    [PERSON |-> deduplicate_entities_fuzzy(Found(text, Persons)),
     LOCATION |-> deduplicate_entities_fuzzy(Found(text, Locations)),
     ORGANIZATION |-> deduplicate_entities_fuzzy(Found(text, Organizations)),
     PHONE |-> Unique(Found(text, Phones)),
     VEHICLE |-> Unique(Found(text, Vehicles))]

-----------------------------------------------------------------------------
(* Events: each is <<what, from, to>>                                       *)

\* The first word that is or contains the text, 0 where there is none.
Find(sentence, text) ==
    SelectInSeq(sentence, LAMBDA w : w = text \/ <<text, w>> \in Within)

\* The character at which a text that is or is in the i-th word starts.
Character(i, word, text) ==
    IF word = text THEN i * Widest ELSE i * Widest + Offset[<<text, word>>]

\* sentence_lower.find(text): texts in one word stand in the order of its
\* characters, so that "Mehmet" is before the "met" that is found in it.
Position(sentence, text) ==
    LET i == Find(sentence, text) IN
    IF i = 0 THEN 0 ELSE Character(i, sentence[i], text)

Has(sentence, trigger) == Find(sentence, trigger) > 0

Nth(names, n) == IF Len(names) >= n THEN names[n] ELSE Nobody

Or(a, b) == IF a # Nobody THEN a ELSE b

\* The names closest to the mark before and behind it, by where they are at; of
\* two that start at the same character, the one listed first.
Closest(names, at, mark) ==
    LET before == {n \in ToSet(names) : at[n] < mark}
        after == ToSet(names) \ before
        last == SelectInSeq(names, LAMBDA n : n \in before /\ \A m \in before : at[m] <= at[n])
        first == SelectInSeq(names, LAMBDA n : n \in after /\ \A m \in after : at[n] <= at[m])
        subj == IF before = {} THEN Nth(names, 1) ELSE names[last]
        second == Nth(names, 2)
        obj == IF after # {} THEN names[first]
               ELSE IF second = subj THEN Nobody ELSE second
    IN  <<subj, obj>>

\* _find_entity_before_and_after_trigger.
Ends(sentence, trigger, names) ==
    Closest(names, [n \in ToSet(names) |-> Position(sentence, n)], Position(sentence, trigger))

\* Mutant of People: those of the whole document.
PeopleOfDocument(document, i) == extract_entities(FlattenSeq(document)).PERSON

\* The people an event is made from: those of its sentence.
People(document, i) == extract_entities(document[i]).PERSON

CallEvents(sentence, people, phones) ==
    LET e == Ends(sentence, Call, people) IN
    IF ~ Has(sentence, Call) THEN <<>>
    ELSE <<<<"CALLED", Or(e[1], Unknown), Or(e[2], Or(Nth(phones, 1), Unknown))>>>>

TransactionEvents(sentence, people) ==
    LET e == Ends(sentence, Transfer, people) IN
    IF ~ Has(sentence, Transfer) THEN <<>>
    ELSE <<<<"TRANSACTED_WITH", Or(e[1], Unknown),
             Or(e[2], Or(Nth(people, 2), Unknown))>>>>

\* The two ends, and each of them with the venue.
MeetingEvents(sentence, people, places) ==
    LET e == Ends(sentence, Meeting, people)
        present == Kept(e, ToSet(e) \ {Nobody}, {})
    IN  IF ~ Has(sentence, Meeting) THEN <<>>
        ELSE (IF Len(present) = 2 THEN <<<<"MET_WITH", e[1], e[2]>>>> ELSE <<>>)
             \o [k \in DOMAIN present |->
                    <<"LOCATED_AT", present[k], Or(Nth(places, 1), Unknown)>>]

\* Only where the sentence is not a call.
CommunicationEvents(sentence, people, phones) ==
    LET e == Ends(sentence, Communication, people) IN
    IF Has(sentence, Call) \/ ~ Has(sentence, Communication) THEN <<>>
    ELSE <<<<"COMMUNICATED_WITH", Or(e[1], Unknown),
             Or(e[2], Or(Nth(people, 2), Or(Nth(phones, 1), Unknown)))>>>>

PresenceEvents(sentence, people, places) ==
    IF ~ Has(sentence, Presence) \/ places = <<>> THEN <<>>
    ELSE <<<<"LOCATED_AT", Or(Nth(people, 1), Unknown), places[1]>>>>

\* extract_events_from_text: the lists, in the order in which
\* extract_relationships goes through them.
Events(document) ==
    LET each(F(_, _, _)) ==
            FlattenSeq([i \in DOMAIN document |->
                F(document[i], People(document, i), extract_entities(document[i]))])
    IN  each(LAMBDA s, p, e : CallEvents(s, p, e.PHONE))
        \o each(LAMBDA s, p, e : TransactionEvents(s, p))
        \o each(LAMBDA s, p, e : MeetingEvents(s, p, e.LOCATION \o e.ORGANIZATION))
        \o each(LAMBDA s, p, e : CommunicationEvents(s, p, e.PHONE))
        \o each(LAMBDA s, p, e : PresenceEvents(s, p, e.LOCATION))

-----------------------------------------------------------------------------
(* Relations                                                                *)

Pairs(what, from, to) ==
    FlattenSeq([i \in DOMAIN from |-> [j \in DOMAIN to |-> <<what, from[i], to[j]>>]])

\* Names that stand in one sentence.
CoOccurrences(sentence) ==
    LET e == extract_entities(sentence) IN
    (IF Has(sentence, Affiliation)
     THEN Pairs("AFFILIATED_WITH", e.PERSON, e.ORGANIZATION) ELSE <<>>)
    \o Pairs("OPERATES_VEHICLE", e.PERSON, e.VEHICLE)
    \o Pairs("LOCATED_AT", e.PERSON, e.LOCATION)

CaseScope(document) ==
    LET e == extract_entities(FlattenSeq(document)) IN
    Pairs("MENTIONED_IN", e.PERSON \o e.LOCATION \o e.ORGANIZATION, <<CaseNode>>)

\* _add_rel
Linkable(rel) == rel[2] # rel[3] /\ Unknown \notin {rel[2], rel[3]}

extract_relationships(document) ==
    LET found == Events(document)
                 \o FlattenSeq([i \in DOMAIN document |-> CoOccurrences(document[i])])
                 \o CaseScope(document)
    IN  Unique(Kept(found, {rel \in ToSet(found) : Linkable(rel)}, {}))

=============================================================================
