-------------------------- MODULE PolicyDuplicates -------------------------
(***************************************************************************)
(* The removal of duplicates from a policy.  A value is a scalar, a list or *)
(* an object, whose keys are in their canonical order: two values are equal *)
(* when their canonical JSON is.  A finding is the index of the entry that  *)
(* is removed.                                                              *)
(***************************************************************************)
EXTENDS Naturals, Sequences, SequencesExt, FiniteSetsExt

CONSTANTS
    Scalar,     \* strings, numbers, booleans and null
    Field,      \* keys of objects
    Supported,  \* the documented sections
    Depth,      \* bound: how deep the values of a policy are nested
    Documents,  \* parsed policies
    NoReview    \* nothing is reviewed yet

ListOf(S) == [kind : {"list"}, items : Seq(S)]
ObjectOf(S) == {o \in [kind : {"object"}, keys : Seq(Field), items : Seq(S)] :
                  Len(o.keys) = Len(o.items)}

\* The values that are nested at most n deep.
Nested[n \in 0 .. Depth] ==
    IF n = 0 THEN [kind : {"scalar"}, of : Scalar]
    ELSE Nested[n - 1] \cup ListOf(Nested[n - 1]) \cup ObjectOf(Nested[n - 1])

Value == Nested[Depth]

DuplicatesAssumption == Depth \in Nat /\ Documents \subseteq ObjectOf(Value)
ASSUME DuplicatesAssumption

VARIABLES document, review
duplicateVars == <<document, review>>
-----------------------------------------------------------------------------
\* Mutated: entries are compared before they are cleaned.
FirstsOfRaw(raw, cleaned) == {i \in DOMAIN raw : \A j \in 1 .. i - 1 : raw[j] # raw[i]}
\* Mutated: entries are compared by how their text begins, the preview of a finding.
Preview(v) == IF v.kind = "scalar" THEN v ELSE [kind |-> v.kind]
FirstsByPreview(raw, cleaned) ==
    {i \in DOMAIN cleaned : \A j \in 1 .. i - 1 : Preview(cleaned[j]) # Preview(cleaned[i])}
\* Entries are compared after they are cleaned.
Firsts(raw, cleaned) == {i \in DOMAIN cleaned : \A j \in 1 .. i - 1 : cleaned[j] # cleaned[i]}

Values(parts) == [i \in DOMAIN parts |-> parts[i].value]

\* The values at the places in S, in their order.
Kept(values, S) == FlattenSeq([i \in DOMAIN values |-> IF i \in S THEN <<values[i]>> ELSE <<>>])

Copied(v) == [value |-> v, findings |-> <<>>]

\* A list whose entries were cleaned to parts; what was removed inside of an
\* entry that is itself removed does not count.
CleanedList(v, parts) ==
    LET firsts == Firsts(v.items, Values(parts))
    IN [value |-> [v EXCEPT !.items = Kept(Values(parts), firsts)],
        findings |-> FlattenSeq([i \in DOMAIN parts |->
                                   IF i \in firsts THEN parts[i].findings ELSE <<i>>])]

CleanedObject(v, parts) ==
    [value |-> [v EXCEPT !.items = Values(parts)],
     findings |-> FlattenSeq([i \in DOMAIN parts |-> parts[i].findings])]

\* _deduplicate_value.
Deduplicated[v \in Value] ==
    IF v.kind = "scalar" THEN Copied(v)
    ELSE LET parts == [i \in DOMAIN v.items |-> Deduplicated[v.items[i]]]
         IN IF v.kind = "list" THEN CleanedList(v, parts) ELSE CleanedObject(v, parts)

\* review_policy: sections that are not documented are copied.
DuplicateReview(d) ==
    LET part(i) == IF d.keys[i] \in Supported THEN Deduplicated[d.items[i]] ELSE Copied(d.items[i])
        cleaned == CleanedObject(d, [i \in DOMAIN d.items |-> part(i)])
    IN [duplicates |-> Len(cleaned.findings), changed |-> cleaned.value # d,
        candidate |-> cleaned.value]
-----------------------------------------------------------------------------
DuplicatesInit == document \in Documents /\ review = NoReview

ReadDuplicates ==
    /\ review = NoReview
    /\ review' = DuplicateReview(document)
    /\ UNCHANGED document

DuplicatesSpec == DuplicatesInit /\ [][ReadDuplicates]_duplicateVars
-----------------------------------------------------------------------------
\* What a value says when only the entries of a list count, not how often or in
\* which order they are listed.
Content[v \in Value] ==
    IF v.kind = "scalar" THEN v
    ELSE LET contents == [i \in DOMAIN v.items |-> Content[v.items[i]]]
         IN IF v.kind = "list" THEN [kind |-> v.kind, entries |-> ToSet(contents)]
            ELSE [kind |-> v.kind, keys |-> v.keys, entries |-> contents]

\* A reviewed candidate has nothing left to remove, and what the review counted
\* is why it differs from the source (policy.py:282).
CandidateIsClean ==
    review # NoReview =>
       /\ DuplicateReview(review.candidate).duplicates = 0
       /\ review.changed = (review.duplicates > 0)

\* A candidate says what the source says, and copies the sections that are not
\* documented (docs/POLICY_ENGINE.md:22).
CandidateSaysTheSame ==
    review # NoReview =>
       LET source == document.items
           candidate == review.candidate.items
       IN /\ review.candidate.keys = document.keys /\ DOMAIN candidate = DOMAIN source
          /\ \A i \in DOMAIN source :
                /\ Content[candidate[i]] = Content[source[i]]
                /\ document.keys[i] \notin Supported => candidate[i] = source[i]

\* What a candidate of review_policy promises.
CandidateInv == CandidateIsClean /\ CandidateSaysTheSame
=============================================================================
