---------------------------- MODULE StudySpa_proofs ----------------------------
(***************************************************************************)
(* Theorems about Study and StudySpa, for any finite collection of cards,  *)
(* any tree of decks and any number of changes.                            *)
(***************************************************************************)
EXTENDS StudySpa, SequenceTheorems, FiniteSetTheorems, WellFoundedInduction, TLAPS

(* A set of naturals has a least member.                                   *)
LEMMA MinIsLeast ==
    ASSUME NEW S \in SUBSET Nat, S # {}
    PROVE  Min(S) \in S /\ \A y \in S : Min(S) <= y
<1>1. PICK x \in S : \A y \in S : ~(<<y, x>> \in OpToRel(<, Nat))
  BY NatLessThanWellFounded, WFMin
<1>2. ASSUME NEW y \in S PROVE x <= y
  <2>1. <<y, x>> \in OpToRel(<, Nat) <=> y < x
    BY DEF OpToRel
  <2>2. ~(y < x)
    BY <1>1, <2>1, Zenon
  <2>3. QED
    BY <2>2
<1>3. QED
  BY <1>2, Zenon DEF Min

(* First is one of the cards that are due.                                 *)
LEMMA FirstIsDue ==
    ASSUME NEW d, due \in Seq(Card)
    PROVE  First(d) # None => \E i \in 1 .. Len(due) : First(d) = due[i]
<1> DEFINE I == {i \in 1 .. Len(due) : deckOf[due[i]] \in AtOrBelow[d]}
<1>1. I \in SUBSET Nat
  BY LenProperties
<1>2. I # {} => Min(I) \in I
  BY <1>1, MinIsLeast, Zenon
<1>3. QueueHead(d) = IF I # {} THEN Min(I) ELSE 0
  BY Zenon DEF QueueHead, SelectInSeq
<1>4. QueueHead(d) = 0 \/ QueueHead(d) \in I
  BY <1>2, <1>3, Zenon
<1>5. QED
  BY <1>4, Zenon DEF First

(* What RemoveFirst leaves of a list without repetitions.                  *)
LEMMA RemovedIsGone ==
    ASSUME NEW S, NEW s \in Seq(S), IsInjective(s), NEW e
    PROVE  RemoveFirst(s, e) \in Seq(S \ {e}) /\ IsInjective(RemoveFirst(s, e))
<1>1. CASE \E i \in 1 .. Len(s) : s[i] = e
  <2> DEFINE I == {i \in 1 .. Len(s) : s[i] = e}
             k == Min(I)
             a == SubSeq(s, 1, k - 1)
             b == SubSeq(s, k + 1, Len(s))
  <2>1. Len(s) \in Nat /\ DOMAIN s = 1 .. Len(s) /\ \A i \in 1 .. Len(s) : s[i] \in S
    BY LenProperties, ElementOfSeq
  <2>2. k \in I
    <3>1. I \in SUBSET Nat /\ I # {}
      BY <1>1, <2>1
    <3>2. QED
      BY <3>1, MinIsLeast, Zenon
  <2>3. RemoveFirst(s, e) = a \o b
    <3>1. SelectInSeq(s, LAMBDA v : v = e) = k
      BY <1>1, Zenon DEF SelectInSeq
    <3>2. QED
      BY <1>1, <3>1, Zenon DEF RemoveFirst, RemoveAt
  <2>4. \A i \in 1 .. Len(s) : i # k => s[i] # e
    BY <2>1, <2>2 DEF IsInjective
  <2> HIDE DEF I, k
  <2>5. k \in 1 .. Len(s)
    BY <2>2 DEF I
  <2>6. /\ a \in Seq(S \ {e}) /\ Len(a) = k - 1
        /\ \A i \in 1 .. k - 1 : a[i] = s[i]
    <3>1. \A i \in 1 .. k - 1 : s[i] \in S \ {e}
      BY <2>1, <2>4, <2>5
    <3>2. 1 \in Int /\ k - 1 \in Int
      BY <2>1, <2>5
    <3>3. /\ a \in Seq(S \ {e})
          /\ Len(a) = IF 1 <= k - 1 THEN k - 1 - 1 + 1 ELSE 0
          /\ \A i \in 1 .. k - 1 - 1 + 1 : a[i] = s[1 + i - 1]
      BY <3>1, <3>2, SubSeqProperties
    <3>4. QED
      BY <3>3, <2>1, <2>5
  <2>7. /\ b \in Seq(S \ {e}) /\ Len(b) = Len(s) - k
        /\ \A i \in 1 .. Len(s) - k : b[i] = s[k + i]
    <3>1. \A i \in k + 1 .. Len(s) : s[i] \in S \ {e}
      BY <2>1, <2>4, <2>5
    <3>2. k + 1 \in Int /\ Len(s) \in Int
      BY <2>1, <2>5
    <3>3. /\ b \in Seq(S \ {e})
          /\ Len(b) = IF k + 1 <= Len(s) THEN Len(s) - (k + 1) + 1 ELSE 0
          /\ \A i \in 1 .. Len(s) - (k + 1) + 1 : b[i] = s[k + 1 + i - 1]
      BY <3>1, <3>2, SubSeqProperties
    <3>4. k \in Int /\ Len(s) \in Int /\ k <= Len(s)
      BY <2>1, <2>5
    <3>5. Len(b) = Len(s) - k
      BY <3>3, <3>4
    <3>6. ASSUME NEW i \in 1 .. Len(s) - k PROVE b[i] = s[k + i]
      <4>1. i \in 1 .. Len(s) - (k + 1) + 1 /\ k + 1 + i - 1 = k + i
        BY <3>4
      <4>2. QED
        BY <3>3, <4>1
    <3>7. QED
      BY <3>3, <3>5, <3>6
  <2> HIDE DEF a, b
  <2>8. /\ a \o b \in Seq(S \ {e})
        /\ Len(a \o b) = Len(s) - 1
        /\ \A i \in 1 .. Len(s) - 1 : (a \o b)[i] = s[IF i < k THEN i ELSE i + 1]
    <3>1. /\ a \o b \in Seq(S \ {e})
          /\ Len(a \o b) = Len(a) + Len(b)
          /\ \A i \in 1 .. Len(a) + Len(b) :
                (a \o b)[i] = IF i <= Len(a) THEN a[i] ELSE b[i - Len(a)]
      BY <2>6, <2>7, ConcatProperties
    <3>2. Len(s) \in Int /\ k \in Int /\ Len(a) + Len(b) = Len(s) - 1
      BY <2>1, <2>5, <2>6, <2>7
    <3>3. ASSUME NEW i \in 1 .. Len(s) - 1
          PROVE  (a \o b)[i] = s[IF i < k THEN i ELSE i + 1]
      <4>1. CASE i < k
        <5>1. i <= Len(a) /\ i \in 1 .. k - 1
          BY <4>1, <2>6, <3>2
        <5>2. QED
          BY <5>1, <4>1, <3>1, <3>2, <2>6
      <4>2. CASE ~(i < k)
        <5>1. ~(i <= Len(a)) /\ i - Len(a) \in 1 .. Len(s) - k /\ k + (i - Len(a)) = i + 1
          BY <4>2, <2>6, <3>2
        <5>2. (a \o b)[i] = b[i - Len(a)]
          BY <5>1, <3>1, <3>2
        <5>3. b[i - Len(a)] = s[k + (i - Len(a))]
          BY <5>1, <2>7, Zenon
        <5>4. QED
          BY <5>1, <5>2, <5>3, <4>2
      <4>3. QED
        BY <4>1, <4>2
    <3>4. QED
      BY <3>1, <3>2, <3>3
  <2>9. IsInjective(a \o b)
    <3>1. DOMAIN (a \o b) = 1 .. Len(s) - 1
      BY <2>8, LenProperties
    <3>2. ASSUME NEW i \in 1 .. Len(s) - 1, NEW j \in 1 .. Len(s) - 1,
                 (a \o b)[i] = (a \o b)[j]
          PROVE  i = j
      <4> DEFINE m == IF i < k THEN i ELSE i + 1
                 n == IF j < k THEN j ELSE j + 1
      <4>1. m \in 1 .. Len(s) /\ n \in 1 .. Len(s)
        BY <2>1, <2>5
      <4>2. s[m] = s[n]
        BY <2>8, <3>2, Zenon
      <4>3. m = n
        BY <2>1, <4>1, <4>2, Zenon DEF IsInjective
      <4>4. QED
        BY <4>3, <2>1, <2>5
    <3>3. QED
      BY <3>1, <3>2, Zenon DEF IsInjective
  <2>10. QED
    BY <2>3, <2>8, <2>9
<1>2. CASE ~ \E i \in 1 .. Len(s) : s[i] = e
  <2>1. RemoveFirst(s, e) = s
    BY <1>2, Zenon DEF RemoveFirst
  <2>2. \A i \in 1 .. Len(s) : s[i] \in S \ {e}
    BY <1>2, ElementOfSeq
  <2>3. s \in Seq(S \ {e})
    BY <2>2, LenProperties
  <2>4. QED
    BY <2>1, <2>3
<1>3. QED
  BY <1>1, <1>2

(* A card that is put after the others is still due once.                  *)
LEMMA AppendedOnce ==
    ASSUME NEW S, NEW e \in S, NEW s \in Seq(S \ {e}), IsInjective(s)
    PROVE  Append(s, e) \in Seq(S) /\ IsInjective(Append(s, e))
<1>1. s \in Seq(S)
  BY SeqMonotonic
<1>2. /\ Len(s) \in Nat /\ DOMAIN s = 1 .. Len(s)
      /\ \A i \in 1 .. Len(s) : s[i] # e
  BY LenProperties, ElementOfSeq
<1>3. /\ Append(s, e) \in Seq(S)
      /\ Len(Append(s, e)) = Len(s) + 1
      /\ \A i \in 1 .. Len(s) : Append(s, e)[i] = s[i]
      /\ Append(s, e)[Len(s) + 1] = e
  BY <1>1, AppendProperties
<1>4. DOMAIN Append(s, e) = 1 .. Len(s) + 1
  BY <1>3, LenProperties
<1>5. QED
  BY <1>2, <1>3, <1>4 DEF IsInjective

-----------------------------------------------------------------------------
(* What the collection may be, now and in what Anki saved to undo a        *)
(* change: a due card exists and is due once.                              *)
Existing(of) == {c \in Card : of[c] # None}

Collections(colors) ==
    {h \in [deckOf : [Card -> Deck \cup {None}], due : Seq(Card),
            flag : [Card -> colors], marked : SUBSET Card] :
        h.due \in Seq(Existing(h.deckOf)) /\ IsInjective(h.due)}

Sound(colors) ==
    /\ deckOf \in [Card -> Deck \cup {None}]
    /\ due \in Seq(Existing(deckOf)) /\ IsInjective(due)
    /\ flag \in [Card -> colors]
    /\ marked \in SUBSET Card
    /\ selected \in Deck
    /\ undo \in Seq(Collections(colors))

LEMMA DueAreCards == ASSUME NEW colors, Sound(colors) PROVE due \in Seq(Card)
BY SeqMonotonic DEF Sound, Existing

(* A change that can be undone is on the stack, which stays sound.         *)
LEMMA UndoableStep ==
    ASSUME NEW colors, Sound(colors), Undoable
    PROVE  /\ undo' \in Seq(Collections(colors))
           /\ Len(undo') = Len(undo) + 1
           /\ undo' # undo
<1> DEFINE h == [deckOf |-> deckOf, due |-> due, flag |-> flag, marked |-> marked]
<1>1. h \in Collections(colors)
  BY DueAreCards DEF Sound, Collections
<1> HIDE DEF h
<1>2. <<h>> \in Seq(Collections(colors)) /\ Len(<<h>>) = 1
  BY <1>1
<1>3. undo \in Seq(Collections(colors)) /\ undo' = <<h>> \o undo
  BY DEF Sound, Undoable, h
<1>4. undo' \in Seq(Collections(colors)) /\ Len(undo') = Len(<<h>>) + Len(undo)
  BY <1>2, <1>3, ConcatProperties
<1>5. Len(undo) \in Nat
  BY <1>3, LenProperties
<1>6. QED
  BY <1>2, <1>4, <1>5

LEMMA AnswerSound ==
    ASSUME NEW colors, Sound(colors),
           NEW d \in Deck, NEW c \in Card, NEW rate, AnswerIn(d, c, rate)
    PROVE  Sound(colors)' /\ (undo' # undo <=> First(d) = c)
<1>0. selected' = d /\ Queued = First(d) /\ BackendAnswer(c, rate)
  BY Zenon DEF AnswerIn, QueuedCardFor, Queued
<1>1. CASE First(d) = c /\ Schedule(c, rate)
  <2>1. undo' \in Seq(Collections(colors)) /\ undo' # undo
    BY <1>1, UndoableStep DEF Schedule
  <2>2. c \in Existing(deckOf) /\ selected' = d
    BY <1>0 DEF AnswerIn, Exists, Existing
  <2>3. /\ deckOf' \in [Card -> Deck \cup {None}]
        /\ Existing(deckOf') = Existing(deckOf)
    BY <1>1, <2>2, DeckAssumption, NoneAssumption DEF Schedule, Sound, Existing
  <2>4. due \in Seq(Existing(deckOf)) /\ IsInjective(due)
    BY DEF Sound
  <2>5. /\ RemoveFirst(due, c) \in Seq(Existing(deckOf) \ {c})
        /\ IsInjective(RemoveFirst(due, c))
    BY <2>4, RemovedIsGone
  <2>6. RemoveFirst(due, c) \in Seq(Existing(deckOf))
    BY <2>5, SeqMonotonic, Zenon
  <2>7. /\ Append(RemoveFirst(due, c), c) \in Seq(Existing(deckOf))
        /\ IsInjective(Append(RemoveFirst(due, c), c))
    BY <2>2, <2>5, AppendedOnce
  <2>8. due' \in Seq(Existing(deckOf)) /\ IsInjective(due')
    BY <1>1, <2>5, <2>6, <2>7, Zenon DEF Schedule
  <2>9. due' \in Seq(Existing(deckOf'))
    BY <2>3, <2>8, Zenon
  <2>10. QED
    BY <1>1, <2>1, <2>2, <2>3, <2>8, <2>9 DEF Schedule, Sound
<1>2. CASE First(d) # c /\ UNCHANGED <<data, undo>>
  BY <1>0, <1>2 DEF Sound, data
<1>3. QED
  BY <1>0, <1>1, <1>2, Zenon DEF BackendAnswer

LEMMA DeleteSound ==
    ASSUME NEW colors, Sound(colors), NEW d \in Deck, NEW c \in Card, DeleteNoteByCard(d, c)
    PROVE  Sound(colors)'
<1>1. undo' \in Seq(Collections(colors))
  BY UndoableStep DEF DeleteNoteByCard
<1>2. /\ deckOf' \in [Card -> Deck \cup {None}]
      /\ Existing(deckOf') = Existing(deckOf) \ {c}
  BY DEF DeleteNoteByCard, Sound, Existing
<1>3. due' \in Seq(Existing(deckOf) \ {c}) /\ IsInjective(due')
  BY RemovedIsGone DEF DeleteNoteByCard, Sound
<1>4. due' \in Seq(Existing(deckOf'))
  BY <1>2, <1>3, Zenon
<1>5. QED
  BY <1>1, <1>2, <1>3, <1>4 DEF DeleteNoteByCard, Sound

LEMMA UndoSound ==
    ASSUME NEW colors, Sound(colors), UndoLastOp
    PROVE  Sound(colors)'
<1>1. CASE undo # <<>>
  <2>1. Head(undo) \in Collections(colors) /\ Tail(undo) \in Seq(Collections(colors))
    BY <1>1, HeadTailProperties DEF Sound
  <2>2. /\ Head(undo).deckOf \in [Card -> Deck \cup {None}]
        /\ Head(undo).due \in Seq(Existing(Head(undo).deckOf))
        /\ IsInjective(Head(undo).due)
        /\ Head(undo).flag \in [Card -> colors]
        /\ Head(undo).marked \in SUBSET Card
    BY <2>1 DEF Collections
  <2>3. QED
    BY <1>1, <2>1, <2>2, Zenon DEF UndoLastOp, Sound
<1>2. CASE undo = <<>>
  BY <1>2, Zenon DEF UndoLastOp, Sound, data
<1>3. QED
  BY <1>1, <1>2

LEMMA FlagSound ==
    ASSUME NEW colors, 0..4 \subseteq colors, Sound(colors),
           NEW c \in Card, NEW f, SetCardFlag(c, f)
    PROVE  Sound(colors)'
<1>1. undo' \in Seq(Collections(colors))
  BY UndoableStep DEF SetCardFlag, SetFlag, Sound
<1>2. QED
  BY <1>1 DEF SetCardFlag, SetFlag, Sound

LEMMA MarkSound ==
    ASSUME NEW colors, Sound(colors), NEW c \in Card, NEW mark, SetCardMarked(c, mark)
    PROVE  Sound(colors)'
<1>1. undo' \in Seq(Collections(colors))
  BY UndoableStep DEF SetCardMarked, Sound
<1>2. QED
  BY <1>1 DEF SetCardMarked, Sound

LEMMA FilteredSound ==
    ASSUME NEW colors, Sound(colors), NEW d \in Deck, NEW found,
           RebuildFilteredDeck(d, found) \/ EmptyFilteredDeck(d)
    PROVE  Sound(colors)'
<1>1. undo' \in Seq(Collections(colors))
  BY UndoableStep DEF RebuildFilteredDeck, EmptyFilteredDeck
<1>2. /\ deckOf' \in [Card -> Deck \cup {None}]
      /\ Existing(deckOf') = Existing(deckOf)
  BY DeckAssumption, NoneAssumption
     DEF RebuildFilteredDeck, EmptyFilteredDeck, Sound, Existing, Exists
<1>3. due' \in Seq(Existing(deckOf')) /\ IsInjective(due')
  BY <1>2 DEF RebuildFilteredDeck, EmptyFilteredDeck, Sound
<1>4. QED
  BY <1>1, <1>2, <1>3 DEF RebuildFilteredDeck, EmptyFilteredDeck, Sound

(* Whatever other requests call, the collection stays sound.               *)
LEMMA CallSound ==
    ASSUME NEW colors, 0..4 \subseteq colors, Sound(colors), AnyCall
    PROVE  Sound(colors)'
<1>1. ASSUME NEW d \in Deck, NEW c \in Card, NEW rate \in Ratings, AnswerIn(d, c, rate)
      PROVE  Sound(colors)'
  BY <1>1, AnswerSound
<1>2. ASSUME NEW d \in Deck, NEW c \in Card, AnswerDeleted(d, c) PROVE Sound(colors)'
  BY <1>2 DEF AnswerDeleted, QueuedCardFor, Sound, data
<1>3. ASSUME NEW d \in Deck, NEW c \in Card, DeleteNoteByCard(d, c) PROVE Sound(colors)'
  BY <1>3, DeleteSound
<1>4. ASSUME UndoLastOp PROVE Sound(colors)'
  BY <1>4, UndoSound
<1>5. ASSUME NEW c \in Card, NEW f, SetCardFlag(c, f) PROVE Sound(colors)'
  BY <1>5, FlagSound
<1>6. ASSUME NEW c \in Card, NEW mark, SetCardMarked(c, mark) PROVE Sound(colors)'
  BY <1>6, MarkSound
<1>7. ASSUME NEW d \in Deck, NEW found, RebuildFilteredDeck(d, found) \/ EmptyFilteredDeck(d)
      PROVE  Sound(colors)'
  BY <1>7, FilteredSound
<1>8. ASSUME NEW d \in Deck, Look(d) PROVE Sound(colors)'
  BY <1>8 DEF Look, QueuedCardFor, Sound, data
<1>9. CASE Close
  BY <1>9, EmptySeq DEF Close, Sound, data
<1>10. QED
  BY <1>1, <1>2, <1>3, <1>4, <1>5, <1>6, <1>7, <1>8, <1>9, Zenon DEF AnyCall

(* Anki's cards in any order, each once.                                   *)
LEMMA AllDue ==
    ASSUME deckOf = Home, due \in SetToSeqs(Card)
    PROVE  due \in Seq(Existing(deckOf)) /\ IsInjective(due)
<1>1. Existing(deckOf) = Card
  BY DeckAssumption, NoneAssumption DEF Existing
<1>2. Cardinality(Card) \in Nat
  BY CardAssumption, FS_CardinalityType
<1>3. /\ due \in [1 .. Cardinality(Card) -> Card]
      /\ \A i, j \in 1 .. Cardinality(Card) : i # j => due[i] # due[j]
  BY DEF SetToSeqs
<1>4. due \in Seq(Card) /\ IsInjective(due)
  BY <1>2, <1>3 DEF IsInjective
<1>5. QED
  BY <1>1, <1>4

-----------------------------------------------------------------------------
(* Study: what the user's tab shows, and what it was told of its answers.  *)
Shows ==
    /\ studied \in Deck
    /\ page \in Pages
    /\ card \in Card \cup {None}
    /\ page \in {"front", "reveal", "back"} => card \in Card
    /\ changes \in 0 .. MaxChanges

Reports == disturbed \in BOOLEAN /\ answered \in Answers \cup {None}

(* Until somebody changes a queue, the card on the page is the first of    *)
(* the deck.                                                               *)
ShownFirst ==
    page \in {"front", "reveal", "back"} /\ ~disturbed => card = First(studied)

LEMMA SameFirst ==
    ASSUME NEW d, UNCHANGED <<due, deckOf>>
    PROVE  First(d) = IF QueueHead(d)' = 0 THEN None ELSE due'[QueueHead(d)']
BY Zenon DEF First, QueueHead, SelectInSeq

LEMMA SoundStep ==
    ASSUME Sound(0..4), Shows, [Next]_vars
    PROVE  Sound(0..4)'
<1> USE DEF Pages
<1>1. CASE NextCard
  BY <1>1 DEF NextCard, QueuedCardFor, Sound, Shows, data
<1>2. CASE Reveal
  BY <1>2 DEF Reveal, QueuedCardFor, Sound, Shows, data
<1>3. ASSUME NEW rate, Answer(rate) PROVE Sound(0..4)'
  BY <1>3, AnswerSound DEF Answer, Shows
<1>4. CASE AnswerFails
  BY <1>4 DEF AnswerFails, AnswerDeleted, QueuedCardFor, Sound, Shows, data
<1>5. ASSUME NEW from, Open(from) PROVE Sound(0..4)'
  BY <1>5 DEF Open, Sound, data
<1>6. CASE MarkOrFlag
  <2>1. card \in Card
    BY <1>6 DEF MarkOrFlag, Shows
  <2>2. ASSUME NEW f, SetCardFlag(card, f) PROVE Sound(0..4)'
    BY <2>1, <2>2, FlagSound
  <2>3. ASSUME NEW mark, SetCardMarked(card, mark) PROVE Sound(0..4)'
    BY <2>1, <2>3, MarkSound
  <2>4. CASE UNCHANGED <<data, selected, undo>>
    BY <2>4 DEF Sound, data
  <2>5. QED
    BY <1>6, <2>2, <2>3, <2>4, Zenon DEF MarkOrFlag
<1>7. CASE AnyCall
  BY <1>7, CallSound
<1>8. CASE UNCHANGED vars
  BY <1>8 DEF Sound, vars, data
<1>9. QED
  BY <1>1, <1>2, <1>3, <1>4, <1>5, <1>6, <1>7, <1>8, Zenon DEF Next, Pass, Change

LEMMA ShowsStep ==
    ASSUME Sound(0..4), Shows, [Next]_vars
    PROVE  Shows'
<1> USE MaxChangesAssumption, NoneAssumption DEF Shows, Pages
<1>1. CASE NextCard
  <2>1. First(studied) \in Card \cup {None} /\ Queued = First(studied)
    BY <1>1, DueAreCards, FirstIsDue, ElementOfSeq DEF NextCard, QueuedCardFor, Queued
  <2>2. QED
    BY <1>1, <2>1 DEF NextCard, Show
<1>2. CASE Reveal
  BY <1>2 DEF Reveal, Show
<1>3. ASSUME NEW rate, Answer(rate), changes' \in 0 .. MaxChanges PROVE Shows'
  BY <1>3 DEF Answer, AfterAnswer, Show
<1>4. CASE AnswerFails
  BY <1>4 DEF AnswerFails, Show
<1>5. ASSUME NEW from, Open(from) PROVE Shows'
  BY <1>5 DEF Open, Show
<1>6. CASE Change
  <2>1. changes' \in 0 .. MaxChanges
    BY <1>6 DEF Change
  <2>2. CASE UNCHANGED tab
    BY <2>1, <2>2 DEF tab
  <2>3. CASE Answer("again")
    BY <1>3, <2>1, <2>3
  <2>4. CASE MarkOrFlag
    BY <2>1, <2>4 DEF MarkOrFlag
  <2>5. CASE Show("loading", None)
    BY <2>1, <2>5 DEF Show
  <2>6. QED
    BY <1>6, <2>2, <2>3, <2>4, <2>5, Zenon DEF Change
<1>7. CASE Pass
  BY <1>3, <1>7 DEF Pass
<1>8. CASE UNCHANGED vars
  BY <1>8 DEF vars, tab
<1>9. QED
  BY <1>1, <1>2, <1>4, <1>5, <1>6, <1>7, <1>8, Zenon DEF Next

(* Only a change of a queue makes the first card another, and that         *)
(* disturbs the tab until it asks for a page again.                        *)
LEMMA ShownFirstStep ==
    ASSUME Shows, Reports, ShownFirst, [Next]_vars
    PROVE  ShownFirst'
<1> DEFINE Shown == {"front", "reveal", "back"}
<1>1. CASE NextCard
  <2>1. Queued = First(studied) /\ card' = Queued /\ studied' = studied
    BY <1>1, Zenon DEF NextCard, Show, QueuedCardFor, Queued
  <2>2. UNCHANGED <<due, deckOf>>
    BY <1>1 DEF NextCard, data
  <2>3. QED
    BY <2>1, <2>2, SameFirst, Zenon DEF ShownFirst, First
<1>2. ASSUME UNCHANGED <<due, deckOf, studied, card, disturbed>>,
             page' \in Shown => page \in Shown
      PROVE  ShownFirst'
  BY <1>2, SameFirst, Zenon DEF ShownFirst, First
<1>3. ASSUME page' \notin Shown PROVE ShownFirst'
  BY <1>3, Zenon DEF ShownFirst
<1>4. CASE Reveal
  <2>1. CASE Exists(card)
    BY <1>2, <1>4, <2>1 DEF Reveal, Show, data, observed
  <2>2. CASE ~Exists(card)
    BY <1>3, <1>4, <2>2 DEF Reveal, Show
  <2>3. QED
    BY <2>1, <2>2
<1>5. ASSUME NEW rate, Answer(rate) PROVE ShownFirst'
  BY <1>3, <1>5 DEF Answer, AfterAnswer, Show
<1>6. CASE AnswerFails
  BY <1>3, <1>6 DEF AnswerFails, Show
<1>7. ASSUME NEW from, Open(from) PROVE ShownFirst'
  BY <1>3, <1>7 DEF Open, Show
<1>8. CASE MarkOrFlag /\ UNCHANGED observed
  <2>1. UNCHANGED <<due, deckOf>>
    BY <1>8, Zenon DEF MarkOrFlag, SetCardFlag, SetFlag, SetCardMarked, data
  <2>2. QED
    BY <1>2, <1>8, <2>1 DEF MarkOrFlag, observed
<1>9. CASE Show("loading", None)
  BY <1>3, <1>9 DEF Show
<1>10. CASE Disturb /\ UNCHANGED tab
  <2>1. CASE UNCHANGED <<due, deckOf>>
    <3>1. disturbed' = disturbed
      BY <1>10, <2>1 DEF Disturb, Reports
    <3>2. QED
      BY <1>2, <1>10, <2>1, <3>1 DEF tab
  <2>2. CASE ~ UNCHANGED <<due, deckOf>>
    BY <1>10, <2>2 DEF Disturb, ShownFirst
  <2>3. QED
    BY <2>1, <2>2
<1>11. CASE UNCHANGED vars
  BY <1>2, <1>11 DEF vars, data, tab, observed
<1>12. QED
  BY <1>1, <1>4, <1>5, <1>6, <1>7, <1>8, <1>9, <1>10, <1>11, Zenon
     DEF Next, Pass, Change

(* The one step that reports an answer tells what became of it: Anki takes *)
(* it for the deck selected by then, which the call has made the form's.   *)
LEMMA ReportStep ==
    ASSUME Sound(0..4), Shows, Reports, ShownFirst, AnswersFirstOfItsDeck, [Next]_vars
    PROVE  Reports' /\ AnswersFirstOfItsDeck'
<1>1. ASSUME NEW rate, Answer(rate) PROVE Reports' /\ AnswersFirstOfItsDeck'
  <2>1. card \in Card /\ studied \in Deck
    BY <1>1 DEF Answer, Shows
  <2>2. First(studied) \in Card \cup {None}
    BY DueAreCards, FirstIsDue, ElementOfSeq
  <2>3. (undo' = undo) <=> First(studied) # card
    BY <1>1, <2>1, AnswerSound, Zenon DEF Answer
  <2> DEFINE stale == undo' = undo
  <2>4. /\ stale \in BOOLEAN
        /\ answered' = [card |-> card, first |-> First(studied), stale |-> stale,
                        disturbed |-> disturbed]
        /\ disturbed' = disturbed
    BY <1>1, Zenon DEF Answer, Report
  <2>5. stale <=> First(studied) # card
    BY <2>3
  <2>6. stale => disturbed
    BY <1>1, <2>5 DEF Answer, Reports, ShownFirst
  <2> HIDE DEF stale
  <2>7. answered' \in Answers
    BY <2>1, <2>2, <2>4 DEF Answers, Reports
  <2>8. /\ answered'.stale = stale /\ answered'.disturbed = disturbed
        /\ answered'.first = First(studied) /\ answered'.card = card
    BY <2>4
  <2>9. QED
    BY <2>4, <2>5, <2>6, <2>7, <2>8, Zenon DEF Reports, AnswersFirstOfItsDeck
<1>2. ASSUME UNCHANGED answered, disturbed' \in BOOLEAN
      PROVE  Reports' /\ AnswersFirstOfItsDeck'
  BY <1>2, Zenon DEF Reports, AnswersFirstOfItsDeck
<1>3. CASE UNCHANGED observed
  BY <1>2, <1>3 DEF observed, Reports
<1>4. CASE Disturb /\ UNCHANGED answered
  BY <1>2, <1>4 DEF Disturb, Reports
<1>5. CASE NextCard
  BY <1>2, <1>5 DEF NextCard
<1>6. QED
  BY <1>1, <1>3, <1>4, <1>5, Zenon
     DEF Next, Reveal, Pass, Open, AnswerFails, Change, vars

StudyInv == Sound(0..4) /\ Shows /\ Reports /\ ShownFirst /\ AnswersFirstOfItsDeck

LEMMA StudyInitInv == Init => StudyInv
<1> SUFFICES ASSUME Init PROVE StudyInv
  OBVIOUS
<1>1. due \in Seq(Existing(deckOf)) /\ IsInjective(due)
  BY AllDue DEF Init
<1>2. Sound(0..4)
  <2>1. deckOf \in [Card -> Deck \cup {None}]
    BY DeckAssumption DEF Init
  <2>2. undo \in Seq(Collections(0..4))
    BY EmptySeq DEF Init
  <2>3. QED
    BY <1>1, <2>1, <2>2 DEF Init, Sound
<1>3. Shows
  BY MaxChangesAssumption DEF Init, Shows, Pages
<1>4. Reports /\ ShownFirst /\ AnswersFirstOfItsDeck
  BY DEF Init, Reports, ShownFirst, AnswersFirstOfItsDeck
<1>5. QED
  BY <1>2, <1>3, <1>4 DEF StudyInv

LEMMA StudyInductiveInv == Spec => []StudyInv
<1>1. StudyInv /\ [Next]_vars => StudyInv'
  BY SoundStep, ShowsStep, ShownFirstStep, ReportStep, Zenon DEF StudyInv
<1>2. QED
  BY StudyInitInv, <1>1, PTL DEF Spec

(* Every variable keeps its type; whatever is answered, deleted, moved or  *)
(* undone, a due card exists and is due once.                              *)
THEOREM StudyTypeCorrect == Spec => []TypeOK
<1>1. StudyInv => TypeOK
  BY DEF StudyInv, Sound, Existing, Shows, Reports, TypeOK
<1>2. QED
  BY StudyInductiveInv, <1>1, PTL

(* Whatever decks other requests select between a page and its answer, an  *)
(* answer is discarded only if somebody changed a queue in between, and    *)
(* one that counts is to the first card of the deck its form names.        *)
THEOREM AlwaysAnswersFirstOfItsDeck == Spec => []AnswersFirstOfItsDeck
BY StudyInductiveInv, PTL DEF StudyInv

-----------------------------------------------------------------------------
(* StudySpa.                                                               *)

(* What the client keeps.                                                  *)
Kept ==
    /\ studied \in Deck
    /\ page \in Pages \cup {"away"}
    /\ card \in Card \cup {None}
    /\ confirm \in BOOLEAN
    /\ state \in Looks
    /\ buttons \in Looks
    /\ label \in Nat
    /\ req \in Request \cup {None}
    /\ failed \in BOOLEAN
    /\ fresh \in BOOLEAN /\ owed \in BOOLEAN /\ twice \in BOOLEAN

(* A request is about the card on the screen, which stays there until the  *)
(* request has ended; so does the page it was sent from.                   *)
AboutTheScreen ==
    /\ confirm => page = "back" /\ req = None
    /\ req # None =>
          /\ req.card = card
          /\ req.op \in {"answer", "delete"} => page = "back"
          /\ req.op = "reveal" => page = "front"
          /\ req.op \in {"flag", "mark"} => page \in {"front", "back"}
          /\ req.at = "front" => req.op \in {"reveal", "answer", "undo", "delete"}

Saving == req # None /\ req.op \in {"flag", "mark"}

(* The server has read what a front or back is to show.                    *)
Collected ==
    /\ req # None /\ req.at \in {"viewed", "ready"}
    /\ req.op \notin {"flag", "mark", "rebuild", "empty"}

(* A front and a back have a card.                                         *)
CardShown ==
    /\ page \in {"front", "back"} => card \in Card
    /\ Collected /\ req.page \in {"front", "back"} => req.view \in Card

(* The user owes an answer to the back on the screen, unless the request   *)
(* that answers it has been served.                                        *)
AnswerOwed ==
    page = "back" => owed \/ (req # None /\ req.op = "answer" /\ req.at # "sent")

(* While nothing has changed, the screen shows what is stored; the buttons *)
(* are ahead of it only while a flag or a mark is saved.                   *)
ScreenKept ==
    page \in {"front", "back", "done"} =>
        /\ fresh => label = Len(undo) /\ (card # None => state = LookOf(card))
        /\ ~Saving => buttons = state

(* What a request is going to show is what is stored, unless the collection*)
(* has changed since the server looked.                                    *)
AnswerKept ==
    /\ Collected /\ req.fresh /\ req.view # None => req.look = LookOf(req.view)
    /\ Saving /\ req.at \in {"viewed", "ready"} /\ req.fresh => Patched(req) = LookOf(card)
    /\ (Collected \/ Saving) /\ req.at = "ready" /\ req.fresh => req.undo = Len(undo)

(* What the steps of the client and the server are to the invariant.       *)
Goes(stage) ==
    /\ req # None
    /\ req' \in Request
    /\ req'.op = req.op /\ req'.card = req.card /\ req'.at = stage

Collecting == UNCHANGED <<fixed, screen, failed>>
Looking    == UNCHANGED <<flag, marked, undo, observer>>

Asks ==
    /\ req = None
    /\ confirm' = FALSE
    /\ req' \in Request
    /\ req'.card = card /\ req'.at = "sent"
    /\ req'.op \in {"answer", "delete"} => page = "back"
    /\ req'.op = "reveal" => page = "front"
    /\ req'.op \in {"flag", "mark"} => page \in {"front", "back"}
    /\ req'.op \in {"flag", "mark"} \/ buttons' = buttons
    /\ buttons' \in Looks
    /\ UNCHANGED <<server, fixed, page, card, state, label, failed, observer>>

Redraws ==
    /\ req = None
    /\ confirm' \in BOOLEAN
    /\ confirm' => page = "back"
    /\ Redraw
    /\ UNCHANGED <<server, fixed, req, failed, observer>>

(* The collection changes, and the next card is to be shown.               *)
Turns ==
    /\ Collecting
    /\ Goes("front")
    /\ req.at = "sent" /\ req.op \in {"answer", "undo", "delete"}
    /\ fresh' = FALSE
    /\ IF req.op = "answer"
       THEN owed' \in BOOLEAN /\ twice' \in BOOLEAN /\ (twice' => twice \/ ~owed)
       ELSE UNCHANGED <<owed, twice>>

Refuses ==
    /\ Collecting /\ Looking
    /\ Goes("refused")

Saves ==
    /\ Collecting
    /\ Saving /\ req.at = "sent"
    /\ Goes("viewed")
    /\ req'.look = req.look /\ req'.fresh = fresh
    /\ fresh' = FALSE
    /\ card \in Card =>
          LookOf(card)' = IF req.op = "flag"
                          THEN [LookOf(card) EXCEPT !.flag = req.look.flag]
                          ELSE [LookOf(card) EXCEPT !.mark = req.look.mark]
    /\ UNCHANGED <<owed, twice>>

Refills ==
    /\ Collecting
    /\ Goes("ready") /\ req.op \in {"rebuild", "empty"}
    /\ fresh' = FALSE
    /\ UNCHANGED <<owed, twice>>

Reads ==
    /\ Collecting /\ Looking
    /\ Goes("viewed")
    /\ ~Saving /\ req.op \notin {"rebuild", "empty"}
    /\ req.op = "answer" => req.at = "front"
    /\ req'.page \in {"front", "back"} => req'.view \in Card
    /\ req'.look = LookOf(req'.view)

Skips ==
    /\ Collecting /\ Looking
    /\ Goes("front") /\ req.op = "reveal"

Stamps ==
    /\ Collecting /\ Looking
    /\ req.at = "viewed"
    /\ Goes("ready")
    /\ req'.page = req.page /\ req'.view = req.view
    /\ req'.look = req.look /\ req'.fresh = req.fresh
    /\ req'.undo = Len(undo)

Renders ==
    /\ Collected /\ req.at = "ready"
    /\ Render(req)
    /\ req' = None
    /\ UNCHANGED <<server, fixed>>

Confirms ==
    /\ Saving /\ req.at = "ready"
    /\ Saved(req)
    /\ req' = None
    /\ UNCHANGED <<server, fixed>>

Fails ==
    /\ req # None
    /\ Rollback
    /\ Unanswered
    /\ UNCHANGED <<server, fixed, confirm, fresh, twice>>

Leaves ==
    /\ req # None
    /\ page' \in {"failed", "away"}
    /\ failed' \in BOOLEAN
    /\ req' = None
    /\ UNCHANGED <<server, fixed, card, confirm, state, buttons, label, observer>>

Reloads ==
    /\ req = None
    /\ page' = "loading" /\ card' = None /\ confirm' = FALSE
    /\ state' = Plain /\ buttons' = Plain /\ label' = 0
    /\ req' \in Request
    /\ req'.card = None /\ req'.op = "state" /\ req'.at = "sent"
    /\ failed' = FALSE /\ owed' = FALSE
    /\ UNCHANGED <<server, fixed, fresh, twice>>

(* Another request changes the collection.                                 *)
Disturbs ==
    /\ Collecting
    /\ fresh' = FALSE
    /\ IF req = None THEN req' = None
       ELSE /\ Goes(req.at)
            /\ req'.page = req.page /\ req'.view = req.view
            /\ req'.fresh = FALSE
    /\ UNCHANGED <<owed, twice>>

Effects ==
    \/ Asks    \/ Redraws
    \/ Turns   \/ Refuses \/ Saves    \/ Refills \/ Reads \/ Skips \/ Stamps
    \/ Renders \/ Confirms \/ Fails   \/ Leaves
    \/ Reloads \/ Disturbs
    \/ UNCHANGED spaVars

LEMMA SentFields ==
    ASSUME NEW op \in Ops, NEW c \in Card \cup {None}, NEW rate \in Ratings, NEW look \in Looks
    PROVE  /\ Sent(op, c, rate, look) \in Request
           /\ Sent(op, c, rate, look).op = op
           /\ Sent(op, c, rate, look).card = c
           /\ Sent(op, c, rate, look).at = "sent"
BY DEF Sent, Request, Stages, Pages

LEMMA PlainLook == Plain \in Looks
BY DEF Plain, Looks

LEMMA AskFields ==
    /\ AskState \in Request
    /\ AskState.card = None /\ AskState.op = "state" /\ AskState.at = "sent"
<1>1. "state" \in Ops /\ None \in Card \cup {None} /\ "good" \in Ratings
  BY DEF Ops, Ratings
<1>2. QED
  BY <1>1, PlainLook, SentFields DEF AskState

LEMMA ReachFields ==
    ASSUME NEW stage \in Stages, req \in Request, Reach(stage)
    PROVE  Goes(stage)
BY RequestAssumption DEF Reach, Goes, Request

LEMMA PatchedLook ==
    ASSUME NEW r \in Request, state \in Looks
    PROVE  Patched(r) \in Looks
BY DEF Patched, Request, Looks

(* The card a front is to show.                                            *)
LEMMA ViewedFields ==
    ASSUME Sound(0..7), req \in Request, NEW c \in Card \cup {None}, NEW what \in Pages,
           what \in {"front", "back"} => c # None, Viewed(what, c)
    PROVE  \/ Goes("refused")
           \/ /\ Goes("viewed")
              /\ req'.page = what /\ req'.view = c /\ req'.look = LookOf(c)
<1>1. LookOf(c) \in Looks
  BY DEF LookOf, Looks, Plain, Sound
<1>2. CASE c # None /\ flag[c] > 4
  BY <1>2, ReachFields DEF Viewed, Stages
<1>3. CASE ~(c # None /\ flag[c] > 4)
  <2>1. req' = [req EXCEPT !.at = "viewed", !.page = what, !.view = c, !.look = LookOf(c),
                           !.fresh = TRUE]
    BY <1>3 DEF Viewed
  <2> HIDE DEF LookOf, Looks
  <2>2. QED
    BY <1>1, <2>1, RequestAssumption DEF Goes, Request, Stages
<1>4. QED
  BY <1>2, <1>3

LEMMA AsksStep ==
    ASSUME Kept, AboutTheScreen,
           NEW op \in Ops, NEW rate \in Ratings, NEW look \in Looks,
           WithBusy, req' = Sent(op, card, rate, look),
           confirm' = FALSE, buttons' \in Looks,
           op \in {"answer", "delete"} => page = "back",
           op = "reveal" => page = "front",
           op \in {"flag", "mark"} => page \in {"front", "back"},
           op \in {"flag", "mark"} \/ buttons' = buttons,
           UNCHANGED <<server, fixed, page, card, state, label, failed, observer>>
    PROVE  Effects
<1>1. card \in Card \cup {None}
  BY DEF Kept
<1>2. req' \in Request /\ req'.op = op /\ req'.card = card /\ req'.at = "sent"
  BY <1>1, SentFields
<1>3. Asks
  BY <1>2 DEF Asks, WithBusy
<1>4. QED
  BY <1>3 DEF Effects

LEMMA ClickEffect ==
    ASSUME Kept, AboutTheScreen,
           \/ ClickReveal \/ ClickPass \/ ClickOther \/ ClickMark \/ ConfirmDelete
           \/ \E f \in 1..2 : ClickFlag(f)
    PROVE  Effects
<1> USE DEF Kept, AboutTheScreen
<1>1. Plain \in Looks
  BY DEF Plain, Looks
<1>2. ASSUME NEW op \in Ops, NEW rate \in Ratings, Send(op, rate), confirm = FALSE,
             op # "delete", op \notin {"flag", "mark"},
             op = "answer" => page = "back", op = "reveal" => page = "front"
      PROVE  Effects
  BY <1>1, <1>2, AsksStep DEF Send, screen
<1>3. CASE ClickReveal
  BY <1>2, <1>3 DEF ClickReveal, Send, WithBusy, Ops, Ratings
<1>4. CASE ClickPass
  BY <1>2, <1>4 DEF ClickPass, Ops, Ratings
<1>5. CASE ClickOther
  BY <1>2, <1>5 DEF ClickOther, Ops, Ratings
<1>6. ASSUME NEW op \in {"flag", "mark"}, NEW target \in Looks, Optimistic(op, target)
      PROVE  Effects
  BY <1>6, AsksStep DEF Optimistic, Ops, Ratings
<1>7. ASSUME NEW f \in 1..2, ClickFlag(f) PROVE Effects
  <2>1. [buttons EXCEPT !.flag = IF state.flag = f THEN 0 ELSE f] \in Looks
    BY DEF Looks
  <2>2. QED
    BY <1>6, <1>7, <2>1 DEF ClickFlag
<1>8. CASE ClickMark
  <2>1. [buttons EXCEPT !.mark = ~state.mark] \in Looks
    BY DEF Looks
  <2>2. QED
    BY <1>6, <1>8, <2>1 DEF ClickMark
<1>9. CASE ConfirmDelete
  BY <1>1, <1>9, AsksStep DEF ConfirmDelete, Ops, Ratings
<1>10. QED
  BY <1>3, <1>4, <1>5, <1>7, <1>8, <1>9

LEMMA ServeEffect ==
    ASSUME Sound(0..7), Kept, AboutTheScreen, CardShown, Serve
    PROVE  Effects
<1>1. req \in Request /\ req # None /\ Collecting
  BY RequestAssumption
     DEF Kept, Serve, Collecting, ServeAnswer, ServeUndo, ServeDelete, ServeFlagOrMark,
         ServeFiltered, BuildFront, BuildBack, ReadUndo, At
<1>2. \A stage \in Stages : Reach(stage) => Goes(stage)
  BY <1>1, ReachFields
<1> USE <1>1 DEF At, Stages, server, data, observer
<1>3. CASE ServeAnswer
  <2>1. owed \in BOOLEAN /\ twice \in BOOLEAN
    BY DEF Kept
  <2>2. CASE /\ Changed
             /\ owed' = (owed /\ undo' = undo)
             /\ twice' = (twice \/ (~owed /\ undo' # undo))
    <3>1. owed' \in BOOLEAN /\ twice' \in BOOLEAN /\ (twice' => twice \/ ~owed)
      BY <2>1, <2>2, Zenon
    <3>2. QED
      BY <1>2, <1>3, <2>2, <3>1 DEF ServeAnswer, Changed, Turns, Effects
  <2>3. CASE AnswerDeleted(studied, req.card) /\ Reach("refused") /\ UNCHANGED observer
    BY <1>2, <2>3 DEF AnswerDeleted, Refuses, Looking, Effects
  <2>4. QED
    BY <1>3, <2>2, <2>3, Zenon DEF ServeAnswer
<1>4. CASE ServeUndo
  BY <1>2, <1>4 DEF ServeUndo, Changed, Turns, Effects
<1>5. CASE ServeDelete
  BY <1>2, <1>5 DEF ServeDelete, Changed, Refuse, Turns, Refuses, Looking, Effects
<1>6. CASE ServeFlagOrMark
  <2>1. CASE ~Exists(req.card) /\ Refuse
    BY <1>2, <2>1 DEF Refuse, Refuses, Looking, Effects
  <2>2. CASE /\ IF req.op = "flag" THEN SetCardFlag(req.card, req.look.flag)
                                   ELSE SetCardMarked(req.card, req.look.mark)
             /\ req' = [req EXCEPT !.at = "viewed", !.fresh = fresh]
             /\ fresh' = FALSE
             /\ UNCHANGED <<owed, twice>>
    <3>1. Saving /\ req.at = "sent" /\ card \in Card /\ req.card = card /\ card' = card
      BY <1>6 DEF ServeFlagOrMark, Saving, AboutTheScreen, CardShown, Collecting, screen
    <3>2. Goes("viewed") /\ req'.look = req.look /\ req'.fresh = fresh
      BY <2>2, RequestAssumption DEF Kept, Goes, Request
    <3>3. LookOf(card)' = [flag |-> flag'[card], mark |-> card \in marked']
      BY <3>1, NoneAssumption DEF LookOf
    <3>4. LookOf(card) = [flag |-> flag[card], mark |-> card \in marked]
      BY <3>1, NoneAssumption DEF LookOf
    <3>5. CASE req.op = "flag"
      <4>1. flag'[card] = req.look.flag /\ marked' = marked
        BY <2>2, <3>1, <3>5 DEF SetCardFlag, SetFlag, Sound
      <4>2. LookOf(card)' = [LookOf(card) EXCEPT !.flag = req.look.flag]
        BY <3>3, <3>4, <4>1
      <4>3. QED
        BY <2>2, <3>1, <3>2, <3>5, <4>2 DEF Saves, Effects
    <3>6. CASE req.op # "flag"
      <4>1. flag' = flag /\ (card \in marked' <=> req.look.mark) /\ req.look.mark \in BOOLEAN
        BY <2>2, <3>1, <3>6 DEF SetCardMarked, Request, Looks
      <4>2. LookOf(card)' = [LookOf(card) EXCEPT !.mark = req.look.mark]
        BY <3>3, <3>4, <4>1
      <4>3. QED
        BY <2>2, <3>1, <3>2, <3>6, <4>2 DEF Saves, Effects
    <3>7. QED
      BY <3>5, <3>6
  <2>3. QED
    BY <1>6, <2>1, <2>2, Zenon DEF ServeFlagOrMark
<1>7. CASE ServeFiltered
  BY <1>2, <1>7 DEF ServeFiltered, Refills, Refuses, Looking, Effects
<1>8. CASE BuildFront
  <2>1. First(studied) \in Card \cup {None}
    BY DueAreCards, FirstIsDue, ElementOfSeq
  <2> DEFINE what == IF First(studied) = None THEN "done" ELSE "front"
  <2>2. what \in Pages /\ (what \in {"front", "back"} => First(studied) # None)
    BY DEF Pages
  <2>3. Viewed(what, First(studied)) /\ Looking
    <3>1. Queued = First(studied)
      BY <1>8, Zenon DEF BuildFront, QueuedCardFor, Queued
    <3>2. QED
      BY <1>8, <3>1, Zenon DEF BuildFront, Looking, data
  <2>4. /\ req.op \notin {"flag", "mark", "rebuild", "empty"}
        /\ req.op = "answer" => req.at = "front"
    BY <1>8 DEF BuildFront, AboutTheScreen
  <2> HIDE DEF what
  <2>5. \/ Goes("refused")
        \/ /\ Goes("viewed")
           /\ req'.page = what /\ req'.view = First(studied) /\ req'.look = LookOf(First(studied))
    BY <2>1, <2>2, <2>3, ViewedFields, Zenon
  <2>6. QED
    BY <2>1, <2>2, <2>3, <2>4, <2>5 DEF Saving, Reads, Refuses, Effects
<1>9. CASE BuildBack
  <2>1. req.op = "reveal" /\ req.card \in Card /\ Looking
    BY <1>9 DEF BuildBack, AboutTheScreen, CardShown, Looking
  <2>2. CASE Exists(req.card)
    <3>1. Viewed("back", req.card) /\ "back" \in Pages /\ req.card # None
      BY <1>9, <2>1, <2>2, NoneAssumption DEF BuildBack, Pages
    <3>2. \/ Goes("refused")
          \/ /\ Goes("viewed")
             /\ req'.page = "back" /\ req'.view = req.card /\ req'.look = LookOf(req.card)
      BY <2>1, <3>1, ViewedFields
    <3>3. QED
      BY <2>1, <3>2 DEF Saving, Reads, Refuses, Effects
  <2>3. CASE ~Exists(req.card)
    BY <1>2, <1>9, <2>1, <2>3 DEF BuildBack, Skips, Effects
  <2>4. QED
    BY <2>2, <2>3
<1>10. CASE ReadUndo
  <2>1. Len(undo) \in Nat
    BY LenProperties DEF Sound
  <2>2. /\ Goes("ready") /\ req'.page = req.page /\ req'.view = req.view
        /\ req'.look = req.look /\ req'.fresh = req.fresh /\ req'.undo = Len(undo)
    BY <1>10, <2>1, RequestAssumption DEF ReadUndo, Goes, Request
  <2>3. QED
    BY <1>10, <2>2 DEF ReadUndo, Looking, Stamps, Effects
<1>11. QED
  BY <1>3, <1>4, <1>5, <1>6, <1>7, <1>8, <1>9, <1>10, Zenon DEF Serve

LEMMA StepEffect ==
    ASSUME Sound(0..7), Kept, AboutTheScreen, CardShown, [SpaNext]_spaVars
    PROVE  Effects
<1>1. CASE \/ ClickReveal \/ ClickPass \/ ClickOther \/ ClickMark \/ ConfirmDelete
           \/ \E f \in 1..2 : ClickFlag(f)
  BY <1>1, ClickEffect, Zenon
<1>2. CASE ShowDeleteConfirm \/ CancelDelete
  BY <1>2 DEF ShowDeleteConfirm, CancelDelete, WithBusy, AboutTheScreen, Redraws, Effects
<1>3. CASE Serve
  BY <1>3, ServeEffect, Zenon
<1>4. CASE Receive
  <2>1. CASE req.op \in {"flag", "mark"}
    BY <1>4, <2>1 DEF Receive, Saving, Confirms, Effects
  <2>2. CASE req.op \in {"rebuild", "empty"}
    BY <1>4, <2>2 DEF Receive, Leave, Leaves, Effects, Kept
  <2>3. CASE req.op \notin {"flag", "mark", "rebuild", "empty"}
    BY <1>4, <2>3 DEF Receive, Collected, Renders, Effects
  <2>4. QED
    BY <2>1, <2>2, <2>3
<1>5. CASE ReceiveRefusal \/ Lose
  BY <1>5 DEF ReceiveRefusal, Lose, Fails, Effects
<1>6. ASSUME NEW to \in {"failed", "away"}, Expel(to) PROVE Effects
  BY <1>6 DEF Expel, Leaves, Effects
<1>7. CASE Reopen
  BY <1>7, AskFields DEF Reopen, Reloads, Effects
<1>8. CASE Others
  <2>1. CASE req = None
    BY <1>8, <2>1 DEF Others, Collecting, Disturbs, Effects
  <2>2. CASE req # None
    <3>1. req \in Request /\ req' = [req EXCEPT !.fresh = FALSE]
      BY <1>8, <2>2 DEF Others, Kept
    <3>2. /\ Goes(req.at) /\ req'.page = req.page /\ req'.view = req.view
          /\ req'.fresh = FALSE
      BY <2>2, <3>1 DEF Goes, Request
    <3>3. QED
      BY <1>8, <2>2, <3>2 DEF Others, Collecting, Disturbs, Effects
  <2>3. QED
    BY <2>1, <2>2
<1>9. CASE UNCHANGED spaVars
  BY <1>9 DEF Effects
<1>10. QED
  BY <1>1, <1>2, <1>3, <1>4, <1>5, <1>6, <1>7, <1>8, <1>9, Zenon DEF SpaNext, Reload

(* Every step keeps the collection and its history sound.                  *)
LEMMA SpaSoundStep ==
    ASSUME Sound(0..7), Kept, AboutTheScreen, CardShown, [SpaNext]_spaVars
    PROVE  Sound(0..7)'
<1> USE DEF Kept, AboutTheScreen, CardShown, server, data
<1>1. CASE UNCHANGED server
  BY <1>1 DEF Sound
<1>2. CASE ServeAnswer
  BY <1>2, AnswerSound DEF ServeAnswer, At, AnswerDeleted, QueuedCardFor, Sound
<1>3. CASE ServeUndo
  BY <1>3, UndoSound DEF ServeUndo
<1>4. CASE ServeDelete
  BY <1>1, <1>4, DeleteSound DEF ServeDelete, At, Refuse
<1>5. CASE ServeFlagOrMark
  BY <1>1, <1>5, FlagSound, MarkSound DEF ServeFlagOrMark, At, Refuse
<1>6. CASE ServeFiltered
  BY <1>1, <1>6, FilteredSound DEF ServeFiltered
<1>7. CASE BuildFront
  BY <1>7 DEF BuildFront, QueuedCardFor, Sound
<1>8. CASE BuildBack \/ ReadUndo
  BY <1>1, <1>8, Zenon DEF BuildBack, ReadUndo
<1>9. CASE Others
  BY <1>9, CallSound DEF Others
<1>10. CASE UNCHANGED spaVars
  BY <1>1, <1>10 DEF spaVars, vars
<1>11. QED
  BY <1>1, <1>2, <1>3, <1>4, <1>5, <1>6, <1>7, <1>8, <1>9, <1>10, Zenon
     DEF SpaNext, Serve, ClickReveal, ClickPass, ClickOther, ClickFlag, ClickMark, Send,
         Optimistic, ShowDeleteConfirm, CancelDelete, ConfirmDelete, Receive, ReceiveRefusal,
         Lose, Expel, Reload, Reopen

-----------------------------------------------------------------------------

LEMMA KeptStep ==
    ASSUME Kept, Effects
    PROVE  Kept'
<1> USE NoneAssumption DEF Kept, Goes, Pages, spaVars, vars, tab, data,
            server, fixed, screen, observer, Collecting, Looking
<1>1. ASSUME Asks PROVE Kept'
  BY <1>1 DEF Asks
<1>2. ASSUME Redraws PROVE Kept'
  BY <1>2 DEF Redraws, Redraw
<1>3. ASSUME Turns PROVE Kept'
  BY <1>3 DEF Turns
<1>4. ASSUME Refuses PROVE Kept'
  BY <1>4 DEF Refuses
<1>5. ASSUME Saves PROVE Kept'
  BY <1>5 DEF Saves
<1>6. ASSUME Refills PROVE Kept'
  BY <1>6 DEF Refills
<1>7. ASSUME Reads PROVE Kept'
  BY <1>7 DEF Reads
<1>8. ASSUME Skips PROVE Kept'
  BY <1>8 DEF Skips
<1>9. ASSUME Stamps PROVE Kept'
  BY <1>9 DEF Stamps
<1>10. ASSUME Renders PROVE Kept'
  BY <1>10 DEF Renders, Render, Collected, Request
<1>11. ASSUME Confirms PROVE Kept'
  BY <1>11, PatchedLook DEF Confirms, Saved, Saving, Request
<1>12. ASSUME Fails PROVE Kept'
  BY <1>12 DEF Fails, Rollback, Unanswered, Redraw
<1>13. ASSUME Leaves PROVE Kept'
  BY <1>13 DEF Leaves
<1>14. ASSUME Reloads PROVE Kept'
  BY <1>14, PlainLook DEF Reloads
<1>15. ASSUME Disturbs PROVE Kept'
  BY <1>15 DEF Disturbs
<1>16. CASE UNCHANGED spaVars
  BY <1>16
<1>17. QED
  BY <1>1, <1>2, <1>3, <1>4, <1>5, <1>6, <1>7, <1>8, <1>9, <1>10, <1>11,
     <1>12, <1>13, <1>14, <1>15, <1>16
     DEF Effects

LEMMA AboutStep ==
    ASSUME Kept, AboutTheScreen, Effects
    PROVE  AboutTheScreen'
<1> USE RequestAssumption DEF AboutTheScreen, Collected, Goes, Saving, Kept,
            spaVars, vars, tab, data, server, fixed, screen, observer,
            Collecting, Looking
<1>1. ASSUME Asks PROVE AboutTheScreen'
  BY <1>1 DEF Asks
<1>2. ASSUME Redraws PROVE AboutTheScreen'
  BY <1>2 DEF Redraws, Redraw
<1>3. ASSUME Turns PROVE AboutTheScreen'
  BY <1>3 DEF Turns
<1>4. ASSUME Refuses PROVE AboutTheScreen'
  BY <1>4 DEF Refuses
<1>5. ASSUME Saves PROVE AboutTheScreen'
  BY <1>5 DEF Saves
<1>6. ASSUME Refills PROVE AboutTheScreen'
  BY <1>6 DEF Refills
<1>7. ASSUME Reads PROVE AboutTheScreen'
  BY <1>7 DEF Reads
<1>8. ASSUME Skips PROVE AboutTheScreen'
  BY <1>8 DEF Skips
<1>9. ASSUME Stamps PROVE AboutTheScreen'
  BY <1>9 DEF Stamps
<1>10. ASSUME Renders PROVE AboutTheScreen'
  BY <1>10 DEF Renders, Render
<1>11. ASSUME Confirms PROVE AboutTheScreen'
  BY <1>11 DEF Confirms, Saved
<1>12. ASSUME Fails PROVE AboutTheScreen'
  BY <1>12 DEF Fails, Rollback, Unanswered, Redraw
<1>13. ASSUME Leaves PROVE AboutTheScreen'
  BY <1>13 DEF Leaves
<1>14. ASSUME Reloads PROVE AboutTheScreen'
  BY <1>14 DEF Reloads
<1>15. ASSUME Disturbs PROVE AboutTheScreen'
  BY <1>15 DEF Disturbs
<1>16. CASE UNCHANGED spaVars
  BY <1>16
<1>17. QED
  BY <1>1, <1>2, <1>3, <1>4, <1>5, <1>6, <1>7, <1>8, <1>9, <1>10, <1>11,
     <1>12, <1>13, <1>14, <1>15, <1>16
     DEF Effects

LEMMA CardStep ==
    ASSUME Kept, AboutTheScreen, CardShown, Effects
    PROVE  CardShown'
<1> USE RequestAssumption DEF AboutTheScreen, CardShown, Collected, Goes,
            Saving, spaVars, vars, tab, data, server, fixed, screen,
            observer, Collecting, Looking
<1>1. ASSUME Asks PROVE CardShown'
  BY <1>1 DEF Asks
<1>2. ASSUME Redraws PROVE CardShown'
  BY <1>2 DEF Redraws, Redraw
<1>3. ASSUME Turns PROVE CardShown'
  BY <1>3 DEF Turns
<1>4. ASSUME Refuses PROVE CardShown'
  BY <1>4 DEF Refuses
<1>5. ASSUME Saves PROVE CardShown'
  BY <1>5 DEF Saves
<1>6. ASSUME Refills PROVE CardShown'
  BY <1>6 DEF Refills
<1>7. ASSUME Reads PROVE CardShown'
  BY <1>7 DEF Reads
<1>8. ASSUME Skips PROVE CardShown'
  BY <1>8 DEF Skips
<1>9. ASSUME Stamps PROVE CardShown'
  BY <1>9 DEF Stamps
<1>10. ASSUME Renders PROVE CardShown'
  BY <1>10 DEF Renders, Render
<1>11. ASSUME Confirms PROVE CardShown'
  BY <1>11 DEF Confirms, Saved
<1>12. ASSUME Fails PROVE CardShown'
  BY <1>12 DEF Fails, Rollback, Unanswered, Redraw
<1>13. ASSUME Leaves PROVE CardShown'
  BY <1>13 DEF Leaves
<1>14. ASSUME Reloads PROVE CardShown'
  BY <1>14 DEF Reloads
<1>15. ASSUME Disturbs PROVE CardShown'
  BY <1>15 DEF Disturbs
<1>16. CASE UNCHANGED spaVars
  BY <1>16
<1>17. QED
  BY <1>1, <1>2, <1>3, <1>4, <1>5, <1>6, <1>7, <1>8, <1>9, <1>10, <1>11,
     <1>12, <1>13, <1>14, <1>15, <1>16
     DEF Effects

LEMMA OwedStep ==
    ASSUME Kept, AboutTheScreen, AnswerOwed, CountsOnce, Effects
    PROVE  AnswerOwed' /\ CountsOnce'
<1> USE RequestAssumption DEF AboutTheScreen, AnswerOwed, CountsOnce,
            Collected, Goes, Saving, spaVars, vars, tab, data, server,
            fixed, screen, observer, Collecting, Looking
<1>1. ASSUME Asks PROVE AnswerOwed' /\ CountsOnce'
  BY <1>1 DEF Asks
<1>2. ASSUME Redraws PROVE AnswerOwed' /\ CountsOnce'
  BY <1>2 DEF Redraws, Redraw
<1>3. ASSUME Turns PROVE AnswerOwed' /\ CountsOnce'
  BY <1>3 DEF Turns
<1>4. ASSUME Refuses PROVE AnswerOwed' /\ CountsOnce'
  BY <1>4 DEF Refuses
<1>5. ASSUME Saves PROVE AnswerOwed' /\ CountsOnce'
  BY <1>5 DEF Saves
<1>6. ASSUME Refills PROVE AnswerOwed' /\ CountsOnce'
  BY <1>6 DEF Refills
<1>7. ASSUME Reads PROVE AnswerOwed' /\ CountsOnce'
  BY <1>7 DEF Reads
<1>8. ASSUME Skips PROVE AnswerOwed' /\ CountsOnce'
  BY <1>8 DEF Skips
<1>9. ASSUME Stamps PROVE AnswerOwed' /\ CountsOnce'
  BY <1>9 DEF Stamps
<1>10. ASSUME Renders PROVE AnswerOwed' /\ CountsOnce'
  BY <1>10 DEF Renders, Render
<1>11. ASSUME Confirms PROVE AnswerOwed' /\ CountsOnce'
  BY <1>11 DEF Confirms, Saved
<1>12. ASSUME Fails PROVE AnswerOwed' /\ CountsOnce'
  BY <1>12 DEF Fails, Rollback, Unanswered, Redraw
<1>13. ASSUME Leaves PROVE AnswerOwed' /\ CountsOnce'
  BY <1>13 DEF Leaves
<1>14. ASSUME Reloads PROVE AnswerOwed' /\ CountsOnce'
  BY <1>14 DEF Reloads
<1>15. ASSUME Disturbs PROVE AnswerOwed' /\ CountsOnce'
  BY <1>15 DEF Disturbs
<1>16. CASE UNCHANGED spaVars
  BY <1>16
<1>17. QED
  BY <1>1, <1>2, <1>3, <1>4, <1>5, <1>6, <1>7, <1>8, <1>9, <1>10, <1>11,
     <1>12, <1>13, <1>14, <1>15, <1>16
     DEF Effects

LEMMA ScreenStep ==
    ASSUME Kept, AboutTheScreen, CardShown, ScreenKept, AnswerKept, Effects
    PROVE  ScreenKept'
<1> USE RequestAssumption DEF AboutTheScreen, Collected, Saving, ScreenKept,
            AnswerKept, LookOf, Goes, spaVars, vars, tab, data, server,
            fixed, screen, observer, Collecting, Looking
<1>1. ASSUME Asks PROVE ScreenKept'
  BY <1>1 DEF Asks
<1>2. ASSUME Redraws PROVE ScreenKept'
  BY <1>2 DEF Redraws, Redraw
<1>3. ASSUME Turns PROVE ScreenKept'
  BY <1>3 DEF Turns
<1>4. ASSUME Refuses PROVE ScreenKept'
  BY <1>4 DEF Refuses
<1>5. ASSUME Saves PROVE ScreenKept'
  BY <1>5 DEF Saves
<1>6. ASSUME Refills PROVE ScreenKept'
  BY <1>6 DEF Refills
<1>7. ASSUME Reads PROVE ScreenKept'
  BY <1>7 DEF Reads
<1>8. ASSUME Skips PROVE ScreenKept'
  BY <1>8 DEF Skips
<1>9. ASSUME Stamps PROVE ScreenKept'
  BY <1>9 DEF Stamps
<1>10. ASSUME Renders PROVE ScreenKept'
  BY <1>10 DEF Renders, Render
<1>11. ASSUME Confirms PROVE ScreenKept'
  BY <1>11 DEF Confirms, Saved
<1>12. ASSUME Fails PROVE ScreenKept'
  BY <1>12 DEF Fails, Rollback, Unanswered, Redraw
<1>13. ASSUME Leaves PROVE ScreenKept'
  BY <1>13 DEF Leaves
<1>14. ASSUME Reloads PROVE ScreenKept'
  BY <1>14 DEF Reloads
<1>15. ASSUME Disturbs PROVE ScreenKept'
  BY <1>15 DEF Disturbs
<1>16. CASE UNCHANGED spaVars
  BY <1>16
<1>17. QED
  BY <1>1, <1>2, <1>3, <1>4, <1>5, <1>6, <1>7, <1>8, <1>9, <1>10, <1>11,
     <1>12, <1>13, <1>14, <1>15, <1>16
     DEF Effects

LEMMA AnswerKeptStep ==
    ASSUME Kept, AboutTheScreen, CardShown, ScreenKept, AnswerKept, Effects
    PROVE  AnswerKept'
<1> USE RequestAssumption DEF AboutTheScreen, CardShown, Collected, Saving,
            ScreenKept, AnswerKept, LookOf, Patched, Goes, spaVars, vars,
            tab, data, server, fixed, screen, observer, Collecting, Looking
<1>1. ASSUME Asks PROVE AnswerKept'
  BY <1>1 DEF Asks
<1>2. ASSUME Redraws PROVE AnswerKept'
  BY <1>2 DEF Redraws, Redraw
<1>3. ASSUME Turns PROVE AnswerKept'
  BY <1>3 DEF Turns
<1>4. ASSUME Refuses PROVE AnswerKept'
  BY <1>4 DEF Refuses
<1>5. ASSUME Saves PROVE AnswerKept'
  <2>1. ~Collected' /\ req'.at = "viewed"
    BY <1>5 DEF Saves
  <2>2. ASSUME fresh PROVE Patched(req)' = LookOf(card)'
    <3>1. card \in Card /\ page \in {"front", "back"}
      BY <1>5 DEF Saves
    <3>2. /\ state = LookOf(card) /\ state' = state /\ card' = card
          /\ req'.op = req.op /\ req'.look = req.look
      BY <1>5, <2>2, <3>1, NoneAssumption DEF Saves
    <3> HIDE DEF LookOf
    <3>3. LookOf(card)' = IF req.op = "flag" THEN [LookOf(card) EXCEPT !.flag = req.look.flag]
                                             ELSE [LookOf(card) EXCEPT !.mark = req.look.mark]
      BY <1>5, <3>1, Zenon DEF Saves
    <3>4. QED
      BY <3>2, <3>3
  <2>3. QED
    BY <1>5, <2>1, <2>2 DEF Saves
<1>6. ASSUME Refills PROVE AnswerKept'
  BY <1>6 DEF Refills
<1>7. ASSUME Reads PROVE AnswerKept'
  BY <1>7 DEF Reads
<1>8. ASSUME Skips PROVE AnswerKept'
  BY <1>8 DEF Skips
<1>9. ASSUME Stamps PROVE AnswerKept'
  BY <1>9 DEF Stamps
<1>10. ASSUME Renders PROVE AnswerKept'
  BY <1>10 DEF Renders, Render
<1>11. ASSUME Confirms PROVE AnswerKept'
  BY <1>11 DEF Confirms, Saved
<1>12. ASSUME Fails PROVE AnswerKept'
  BY <1>12 DEF Fails, Rollback, Unanswered, Redraw
<1>13. ASSUME Leaves PROVE AnswerKept'
  BY <1>13 DEF Leaves
<1>14. ASSUME Reloads PROVE AnswerKept'
  BY <1>14 DEF Reloads
<1>15. ASSUME Disturbs PROVE AnswerKept'
  BY <1>15 DEF Disturbs
<1>16. CASE UNCHANGED spaVars
  BY <1>16
<1>17. QED
  BY <1>1, <1>2, <1>3, <1>4, <1>5, <1>6, <1>7, <1>8, <1>9, <1>10, <1>11,
     <1>12, <1>13, <1>14, <1>15, <1>16
     DEF Effects

-----------------------------------------------------------------------------
SpaInv ==
    /\ Sound(0..7) /\ Kept /\ AboutTheScreen /\ CardShown
    /\ AnswerOwed /\ CountsOnce
    /\ ScreenKept /\ AnswerKept

LEMMA SpaInitInv == SpaInit => SpaInv
<1> SUFFICES ASSUME SpaInit PROVE SpaInv
  OBVIOUS
<1>1. due \in Seq(Existing(deckOf)) /\ IsInjective(due)
  BY AllDue DEF SpaInit
<1>2. Sound(0..7)
  <2>1. deckOf \in [Card -> Deck \cup {None}] /\ flag \in [Card -> 0..7]
    BY DeckAssumption, FlagsAssumption DEF SpaInit
  <2>2. undo \in Seq(Collections(0..7))
    BY EmptySeq DEF SpaInit
  <2>3. QED
    BY <1>1, <2>1, <2>2 DEF SpaInit, Sound
<1>3. AskState \in Request /\ AskState.card = None /\ AskState.op = "state" /\ AskState.at = "sent"
  BY AskFields
<1>4. Kept
  BY <1>3, PlainLook DEF SpaInit, Kept, Pages
<1>5. QED
  BY <1>2, <1>3, <1>4
     DEF SpaInit, SpaInv, AboutTheScreen, CardShown, Collected, Saving, AnswerOwed, CountsOnce,
         ScreenKept, AnswerKept

LEMMA SpaInductiveInv == SpaSpec => []SpaInv
<1>1. SpaInv /\ [SpaNext]_spaVars => SpaInv'
  <2> SUFFICES ASSUME SpaInv, [SpaNext]_spaVars PROVE SpaInv'
    OBVIOUS
  <2>1. Sound(0..7) /\ Kept /\ AboutTheScreen /\ CardShown
    BY DEF SpaInv
  <2>2. Effects
    BY <2>1, StepEffect, Zenon
  <2>3. Sound(0..7)'
    BY <2>1, SpaSoundStep, Zenon
  <2>4. QED
    BY <2>2, <2>3, KeptStep, AboutStep, CardStep, OwedStep, ScreenStep, AnswerKeptStep,
       Zenon DEF SpaInv
<1>2. QED
  BY SpaInitInv, <1>1, PTL DEF SpaSpec

(* Every variable of the client keeps its type.                            *)
THEOREM SpaTypeCorrect == SpaSpec => []SpaTypeOK
<1>1. SpaInv => SpaTypeOK
  BY DEF SpaInv, Sound, Kept, SpaTypeOK
<1>2. QED
  BY SpaInductiveInv, <1>1, PTL

(* A back shown once counts once, unless its user was told nothing.        *)
THEOREM AlwaysCountsOnce == SpaSpec => []CountsOnce
BY SpaInductiveInv, PTL DEF SpaInv

(* With no request in flight, and nothing changed since the server looked, *)
(* the screen shows the stored flag and mark of its card, and the button   *)
(* names what Undo would revert.                                           *)
THEOREM AlwaysScreenIsCurrent == SpaSpec => []ScreenIsCurrent
<1>1. SpaInv => ScreenIsCurrent
  BY DEF SpaInv, ScreenKept, Saving, ScreenIsCurrent
<1>2. QED
  BY SpaInductiveInv, <1>1, PTL
=============================================================================
