------------------------------ MODULE Records ------------------------------
(***************************************************************************)
(* A catalogue's Record of one book as it is built: bounded to what the    *)
(* columns hold, its subjects, headings and name assertions folded once    *)
(* and marked so, then filled from and merged with the Records other       *)
(* catalogues answered.  A flag on the Record says it is folded; whatever  *)
(* sets it without folding leaves every repeat a catalogue sent on a Book. *)
(*                                                                         *)
(* A text is its kind: what fits, what does not, and what is not text.     *)
(* Left out: the fields that behave as the title or the year do, the list  *)
(* of sources, and what a page shows of a Record.                          *)
(***************************************************************************)
EXTENDS Naturals, SequencesExt

CONSTANTS
  Labels, Vocabularies, Identifiers,   \* of subjects
  Classes, Captions,                   \* of headings: scheme and number, caption
  Spoken,     \* the subjects, headings and scalars a catalogue may send
  MaxSaid,    \* bound on the subjects and headings said of the book
  MaxSteps    \* bound on the Records merged and the fields set

VARIABLES
  card,     \* the Record being built, or NoCard
  subjects, \* every subject said of it, in the order they were said
  headings, \* every heading
  filled,   \* whether a Record was only filled from
  steps

vars == <<card, subjects, headings, filled, steps>>

None == "none"
NoCard == [none |-> None]

Subject == [label : Labels, vocabulary : Vocabularies \cup {None},
            identifier : Identifiers \cup {None}]
Heading == [class : Classes, caption : Captions \cup {None}]

(* A title that fits, is cut to fit, is too long or is no text; an address *)
(* of a cover that https makes one too long, one that is refused at the    *)
(* store, and the library's own.                                           *)
Titles == {None, "fits", "cut", "long", "number"}
Covers == {None, "https", "http", "httpFull", "ours", "number"}
Years == {None, "year", "outside", "flag"}

SpokenAreRecords ==
  Spoken \subseteq [title : Titles, cover : Covers, year : Years,
                    subjects : Seq(Subject), headings : Seq(Heading)]

----------------------------------------------------------------------------
(* _drop_unstorable and _drop_claimed_as_ours *)

(* _AS_STORED: https is one character longer than http. *)
Stored(cover) == IF cover = "httpFull" THEN "tooLong" ELSE cover

IsText(value) == value # "number"

Bounded(r) ==
  [r EXCEPT
     !.title = IF @ = "long" \/ ~ IsText(@) THEN None ELSE @,
     !.cover = IF ~ IsText(@) \/ Stored(@) = "tooLong" \/ @ = "ours" THEN None ELSE @,
     !.year = IF @ = "year" THEN @ ELSE None]

----------------------------------------------------------------------------
(* The folds *)

Indices(s) == [i \in DOMAIN s |-> i]
At(s, is) == [k \in DOMAIN is |-> s[is[k]]]

(* The first thing said of it, in the order of s. *)
FirstOf(s, is, Field(_)) ==
  LET said == {i \in is : Field(s[i]) # None}
  IN  IF said = {} THEN None ELSE Field(s[CHOOSE i \in said : \A j \in said : i <= j])

Key(subject) == <<subject.label, subject.vocabulary>>
Identifier(subject) == subject.identifier
Caption(heading) == heading.caption

(* The entries of s, one of each key, at the place of its first. *)
Firsts(s, KeyOf(_)) ==
  SelectSeq(Indices(s), LAMBDA i : \A j \in 1 .. i - 1 : KeyOf(s[j]) # KeyOf(s[i]))

(* An identifier is filled from an occurrence under the same vocabulary,   *)
(* and never overwritten.                                                  *)
Filled(s, i) ==
  [s[i] EXCEPT !.identifier = FirstOf(s, {j \in DOMAIN s : Key(s[j]) = Key(s[i])}, Identifier)]

(* Every label at the place of its first occurrence. *)
ByLabel(s) ==
  LET Place(i) == CHOOSE j \in DOMAIN s :
                    s[j].label = s[i].label /\ \A k \in 1 .. j - 1 : s[k].label # s[i].label
  IN  At(s, SortSeq(Indices(s), LAMBDA i, j :
              Place(i) < Place(j) \/ (Place(i) = Place(j) /\ i < j)))

(* _restates *)
Restates(bare, s) ==
  LET declared == {i \in DOMAIN s : s[i].label = bare.label /\ s[i].vocabulary # None}
  IN  /\ declared # {}
      /\ bare.identifier = None \/ \E i \in declared : s[i].identifier = bare.identifier

(* _folded_subjects *)
FoldedSubjects(s) ==
  LET first == Firsts(s, Key)
      kept == ByLabel([k \in DOMAIN first |-> Filled(s, first[k])])
  IN  SelectSeq(kept, LAMBDA e : e.vocabulary # None \/ ~ Restates(e, kept))

Captioned(s, i) ==
  [s[i] EXCEPT !.caption = FirstOf(s, {j \in DOMAIN s : s[j].class = s[i].class}, Caption)]

(* _union, and _distinct where an entry is its own key *)
Union(s) ==
  LET first == Firsts(s, LAMBDA h : h.class)
  IN  [k \in DOMAIN first |-> Captioned(s, first[k])]

----------------------------------------------------------------------------
(* __post_init__: the bounds always, the folds unless they were made. *)
Built(r) ==
  LET bounded == Bounded(r)
  IN  IF r.folded THEN bounded
      ELSE [bounded EXCEPT !.subjects = FoldedSubjects(@), !.headings = Union(@),
                           !.folded = TRUE]

Answered(sent) == Built(sent @@ [folded |-> FALSE])

(* filled_from *)
FilledFrom(r, other) ==
  Built([r EXCEPT !.title = IF @ = None THEN other.title ELSE @,
                  !.cover = IF @ = None THEN other.cover ELSE @,
                  !.year = IF @ = None THEN other.year ELSE @,
                  !.subjects = IF @ = <<>> THEN other.subjects ELSE @,
                  !.headings = IF @ = <<>> THEN other.headings ELSE @])

(* merged_with concatenates, so it takes the flag off. *)
MustFold == FALSE

MergedWith(r, other) ==
  Built([FilledFrom(r, other) EXCEPT !.subjects = r.subjects \o other.subjects,
                                     !.headings = r.headings \o other.headings,
                                     !.folded = MustFold])

(* from_upload: a file's own text is cut, where a column has a width. *)
Cut(sent) == [sent EXCEPT !.title = IF @ = "long" THEN "cut" ELSE @]

----------------------------------------------------------------------------
Hear(sent) ==
  /\ subjects' = subjects \o sent.subjects /\ headings' = headings \o sent.headings
  /\ Len(subjects') + Len(headings') <= MaxSaid
  /\ steps < MaxSteps /\ steps' = steps + 1

Open(sent, uploaded) ==
  /\ card = NoCard /\ Hear(sent)
  /\ card' = Answered(IF uploaded THEN Cut(sent) ELSE sent)
  /\ UNCHANGED filled

Merge(sent) ==
  /\ card # NoCard /\ Hear(sent)
  /\ card' = MergedWith(card, Answered(sent))
  /\ UNCHANGED filled

Fill(sent) ==
  /\ card # NoCard /\ Hear(sent)
  /\ card' = FilledFrom(card, Answered(sent)) /\ filled' = TRUE

(* with_cover, with the address a cover was found at.  with_scalars sets   *)
(* the other fields so, and refuses the ones that are folded.              *)
WithCover(cover) ==
  /\ card # NoCard /\ steps < MaxSteps /\ steps' = steps + 1
  /\ card' = Built([card EXCEPT !.cover = cover])
  /\ UNCHANGED <<subjects, headings, filled>>

Init == card = NoCard /\ subjects = <<>> /\ headings = <<>> /\ filled = FALSE /\ steps = 0

Next ==
  \/ \E sent \in Spoken : Merge(sent) \/ Fill(sent) \/ \E u \in BOOLEAN : Open(sent, u)
  \/ \E cover \in Covers : WithCover(cover)

Spec == Init /\ [][Next]_vars

----------------------------------------------------------------------------
(* Properties *)

(* A Record is what its columns can hold: nothing too long once it is      *)
(* stored, nothing of another type, no file of the library's own.          *)
TypeOK ==
  card # NoCard =>
    /\ card.title \in {None, "fits", "cut"} /\ card.year \in {None, "year"}
    /\ card.cover \in {None, "https", "http"}
    /\ card.subjects \in Seq(Subject) /\ card.headings \in Seq(Heading)

(* The flag tells the truth: a Record that says it is folded holds nothing *)
(* another fold would find, however it was built.                          *)
FlagIsTrue ==
  card # NoCard /\ card.folded =>
    card.subjects = FoldedSubjects(card.subjects) /\ card.headings = Union(card.headings)

(* No crosswalk: an identifier stands under a vocabulary only if some      *)
(* catalogue put it there, and what is undeclared is given no vocabulary.  *)
NoCrosswalk ==
  card # NoCard => ToSet(card.subjects) \subseteq
    {[s EXCEPT !.identifier = None] : s \in ToSet(subjects)} \cup ToSet(subjects)

(* A label keeps the place of its first occurrence, whichever of its       *)
(* entries survive: categories is read in this order.                      *)
PlacesAreKept ==
  card # NoCard /\ ~ filled =>
    LET Order(s) == At(s, Firsts(s, LAMBDA e : e.label))
        Names(s) == [k \in DOMAIN Order(s) |-> Order(s)[k].label]
    IN  Names(card.subjects) = Names(subjects)

(* Folding costs no label an identifier that only an undeclared entry      *)
(* brought: the label's entries still carry one said so.  And every        *)
(* declared entry is there.                                                *)
NothingIsLost ==
  card # NoCard /\ ~ filled =>
    LET declared == {s \in ToSet(subjects) : s.vocabulary # None}
        brought == {s \in ToSet(subjects) \ declared :
                      /\ s.identifier # None
                      /\ \A d \in declared : d.label = s.label => d.identifier # s.identifier}
    IN  /\ \A d \in declared : \E e \in ToSet(card.subjects) : Key(e) = Key(d)
        /\ \A s \in brought :
             \E e \in ToSet(card.subjects), t \in ToSet(subjects) \ declared :
               e.label = s.label /\ t.label = s.label /\ e.identifier = t.identifier
                 /\ t.identifier # None

(* What a Record says of a class stands through every merge: a caption is  *)
(* filled in and never overwritten, and a heading keeps its place.         *)
CaptionsStand ==
  card # NoCard => \A k \in DOMAIN card.headings :
    /\ card'.headings[k].class = card.headings[k].class
    /\ card.headings[k].caption \in {None, card'.headings[k].caption}
=============================================================================
