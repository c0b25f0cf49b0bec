-------------------------------- MODULE Study --------------------------------
(***************************************************************************)
(* Reviewing a deck: what the handlers of web/routes/study.py do to the    *)
(* collection through domain/scheduler.py, while other requests of the     *)
(* account (other tabs, a form sent twice, the single-page client) do the  *)
(* same.                                                                   *)
(*                                                                         *)
(* Every step is one call of Account.run, which holds the account's lock:  *)
(* AccountCollection says when that excludes the others.  The user's tab   *)
(* is followed from page to page; any other request is a call of a         *)
(* function of scheduler.py with any arguments.                            *)
(*                                                                         *)
(* Anki itself is external: its queue is the due cards of the selected     *)
(* deck and of the decks below it, it answers the first card only, and     *)
(* each change can be undone.  A note has one card.                        *)
(*                                                                         *)
(* Left out: the intervals, numbers and names a page shows beside the card.*)
(***************************************************************************)
EXTENDS Integers, SequencesExt

CONSTANTS
    Card,
    Deck,
    Filtered,     \* the filtered decks
    AtOrBelow,    \* of each deck, the deck and its descendants
    Home,         \* of each card, the deck it belongs to
    None,
    MaxChanges    \* bound: what other requests and the user's whims do

ASSUME CardAssumption == IsFiniteSet(Card)
ASSUME DeckAssumption ==
    /\ Filtered \subseteq Deck
    /\ AtOrBelow \in [Deck -> SUBSET Deck]
    /\ \A d \in Deck : d \in AtOrBelow[d]
    /\ Home \in [Card -> Deck \ Filtered]
ASSUME NoneAssumption == None \notin Card \cup Deck
ASSUME MaxChangesAssumption == MaxChanges \in Nat

VARIABLES
    deckOf,     \* the deck a card is in, None when its note was deleted
    due,        \* the due cards in the order of the scheduler
    flag,       \* the user flag of a card
    marked,     \* the cards whose note has the tag "marked"
    selected,   \* curDeck
    undo,       \* Anki's undo stack, the last change first
    studied,    \* the user's tab: its deck,
    page, card, \* the page it shows or waits for, the card on it
    disturbed,  \* observer: a queue has changed since that page was asked for
    answered,   \* observer: its last answer, and what became of it
    changes     \* bound

data     == <<deckOf, due, flag, marked>>
tab      == <<studied, page, card>>
observed == <<disturbed, answered>>
vars     == <<data, selected, undo, tab, observed, changes>>

Ratings == {"again", "good"}
Pages == {"loading", "front", "reveal", "back", "done", "failed"}
Answers == [card : Card, first : Card \cup {None}, stale : BOOLEAN, disturbed : BOOLEAN]

(* The types of the variables; a due card exists and is due once.          *)
TypeOK ==
    /\ deckOf \in [Card -> Deck \cup {None}]
    /\ due \in Seq({c \in Card : deckOf[c] # None})
    /\ IsInjective(due)
    /\ flag \in [Card -> 0..4]
    /\ marked \subseteq Card
    /\ selected \in Deck
    /\ studied \in Deck
    /\ page \in Pages
    /\ card \in Card \cup {None}
    /\ disturbed \in BOOLEAN
    /\ answered \in Answers \cup {None}
    /\ changes \in 0..MaxChanges

Init ==
    /\ deckOf = Home
    /\ due \in SetToSeqs(Card)
    /\ flag = [c \in Card |-> 0]
    /\ marked = {}
    /\ selected \in Deck
    /\ undo = <<>>
    /\ studied \in Deck
    /\ page = "loading"
    /\ card = None
    /\ disturbed = FALSE
    /\ answered = None
    /\ changes = 0

-----------------------------------------------------------------------------
(* Where the first card of a deck is in the order, 0 if it has none due.   *)
QueueHead(d) == SelectInSeq(due, LAMBDA c : deckOf[c] \in AtOrBelow[d])
First(d) == IF QueueHead(d) = 0 THEN None ELSE due[QueueHead(d)]

(* _queued_card_for selects the deck it is asked for ... *)
QueuedCardFor(d) == selected' = d

(* ... because Anki's queue is the one of the deck selected by then. *)
Queued == First(selected')

(* Anki saves what a change replaces. *)
Undoable ==
    undo' = <<[deckOf |-> deckOf, due |-> due, flag |-> flag, marked |-> marked]>> \o undo

Exists(c) == deckOf[c] # None

(* An answer to the first card of the selected deck: the card is due again *)
(* after the others, or on another day; a filtered deck then gives it up.  *)
Schedule(c, rate) ==
    /\ due' = IF rate = "again" THEN Append(RemoveFirst(due, c), c) ELSE RemoveFirst(due, c)
    /\ deckOf' = IF rate = "good" THEN [deckOf EXCEPT ![c] = Home[c]] ELSE deckOf
    /\ UNCHANGED <<flag, marked>>
    /\ Undoable

(* Anki discards the answer unless the card is the first of its queue. *)
BackendAnswer(c, rate) ==
    \/ Queued = c /\ Schedule(c, rate)
    \/ Queued # c /\ UNCHANGED <<data, undo>>

AnswerIn_Unselected(d, c, rate) ==
    /\ Exists(c)
    /\ UNCHANGED selected
    /\ BackendAnswer(c, rate)

(* answer_card for a card that exists. *)
AnswerIn(d, c, rate) ==
    /\ Exists(c)
    /\ QueuedCardFor(d)
    /\ BackendAnswer(c, rate)

(* For a deleted card get_scheduling_states raises NotFoundError. *)
AnswerDeleted(d, c) ==
    /\ ~Exists(c)
    /\ QueuedCardFor(d)
    /\ UNCHANGED <<data, undo>>

-----------------------------------------------------------------------------
(* The user's tab.                                                         *)

Show(what, c) == page' = what /\ card' = c /\ UNCHANGED studied

(* GET /study, or the redirect to it: the first card, or "done". *)
NextCard ==
    /\ page = "loading"
    /\ QueuedCardFor(studied)
    /\ Show(IF Queued = None THEN "done" ELSE "front", Queued)
    /\ disturbed' = FALSE
    /\ UNCHANGED <<data, undo, answered, changes>>

(* POST /study, and after a flag or a mark on the back: the back, unless   *)
(* the card was deleted.                                                   *)
Reveal ==
    /\ page \in {"front", "reveal"}
    /\ IF Exists(card) THEN Show("back", card) ELSE Show("loading", None)
    /\ QueuedCardFor(IF Exists(card) THEN studied ELSE selected)
    /\ UNCHANGED <<data, undo, observed, changes>>

AfterAnswer_StaleStays(stale) == IF stale THEN Show("back", card) ELSE Show("loading", None)

(* Stale or not, the answer leads to the current first card. *)
AfterAnswer(stale) == Show("loading", None)

(* AnswerOutcome, and what it is to be compared with. *)
Report(d, c) ==
    /\ answered' = [card |-> c, first |-> First(d), stale |-> undo' = undo,
                    disturbed |-> disturbed]
    /\ UNCHANGED disturbed

Answer(rate) ==
    /\ page = "back"
    /\ AnswerIn(studied, card, rate)
    /\ Report(studied, card)
    /\ AfterAnswer(answered'.stale)

(* The exception is not handled: HTTP 500. *)
AnswerFails ==
    /\ page = "back"
    /\ AnswerDeleted(studied, card)
    /\ Show("failed", None)
    /\ UNCHANGED <<observed, changes>>

Pass == Answer("good") /\ UNCHANGED changes

(* The user opens the deck again. *)
Open(from) ==
    /\ page = from
    /\ Show("loading", None)
    /\ UNCHANGED <<data, selected, undo, observed, changes>>

-----------------------------------------------------------------------------
(* What any request may do, the user's own on another form included.       *)

UndoLastOp ==
    /\ \/ /\ undo # <<>>
          /\ deckOf' = Head(undo).deckOf
          /\ due' = Head(undo).due
          /\ flag' = Head(undo).flag
          /\ marked' = Head(undo).marked
          /\ undo' = Tail(undo)
       \/ undo = <<>> /\ UNCHANGED <<data, undo>>
    /\ UNCHANGED selected

DeleteNoteByCard(d, c) ==
    /\ Exists(c) /\ deckOf[c] \in AtOrBelow[d]
    /\ deckOf' = [deckOf EXCEPT ![c] = None]
    /\ due' = RemoveFirst(due, c)
    /\ Undoable
    /\ UNCHANGED <<flag, marked, selected>>

SetFlag(c, f) ==
    /\ flag' = [flag EXCEPT ![c] = f]
    /\ IF flag[c] = f THEN UNCHANGED undo ELSE Undoable
    /\ UNCHANGED <<deckOf, due, marked, selected>>

(* A number that is no flag and a card that is gone are refused. *)
SetCardFlag(c, f) == Exists(c) /\ f \in 0..4 /\ SetFlag(c, f)

SetCardMarked(c, mark) ==
    /\ Exists(c)
    /\ marked' = IF mark THEN marked \cup {c} ELSE marked \ {c}
    /\ IF mark = (c \in marked) THEN UNCHANGED undo ELSE Undoable
    /\ UNCHANGED <<deckOf, due, flag, selected>>

(* Anki fills a filtered deck with cards its search finds. *)
RebuildFilteredDeck(d, found) ==
    /\ d \in Filtered
    /\ deckOf' = [c \in Card |-> IF c \in found /\ Exists(c) THEN d
                                 ELSE IF deckOf[c] = d THEN Home[c] ELSE deckOf[c]]
    /\ Undoable
    /\ UNCHANGED <<due, flag, marked, selected>>

EmptyFilteredDeck(d) ==
    /\ d \in Filtered
    /\ deckOf' = [c \in Card |-> IF deckOf[c] = d THEN Home[c] ELSE deckOf[c]]
    /\ Undoable
    /\ UNCHANGED <<due, flag, marked, selected>>

(* get_deck_due_breakdown, get_next_card *)
Look(d) == QueuedCardFor(d) /\ UNCHANGED <<data, undo>>

(* The sweeper closes the collection, which forgets what can be undone. *)
Close == undo' = <<>> /\ UNCHANGED <<data, selected>>

AnyCall ==
    \/ \E d \in Deck, c \in Card : \/ \E rate \in Ratings : AnswerIn(d, c, rate)
                                   \/ AnswerDeleted(d, c)
                                   \/ DeleteNoteByCard(d, c)
    \/ UndoLastOp
    \/ \E c \in Card : \/ \E f \in {0, 1, 5} : SetCardFlag(c, f)
                       \/ \E mark \in BOOLEAN : SetCardMarked(c, mark)
    \/ \E d \in Deck : \/ \E found \in SUBSET Card : RebuildFilteredDeck(d, found)
                       \/ EmptyFilteredDeck(d)
                       \/ Look(d)
    \/ Close

(* The flag and mark forms of the back: a card that is gone is reported.   *)
MarkOrFlag ==
    /\ page = "back"
    /\ \/ \E f \in 0..1 : SetCardFlag(card, f)
       \/ \E mark \in BOOLEAN : SetCardMarked(card, mark)
       \/ ~Exists(card) /\ UNCHANGED <<data, selected, undo>>
    /\ page' = "reveal"
    /\ UNCHANGED <<studied, card>>

(* What a call does to the order or the decks of the cards disturbs the    *)
(* user's tab; the deck it selects does not.                               *)
Disturb == disturbed' = (disturbed \/ <<due, deckOf>>' # <<due, deckOf>>)

Change ==
    /\ changes < MaxChanges
    /\ changes' = changes + 1
    /\ \/ AnyCall /\ Disturb /\ UNCHANGED <<tab, answered>>
       \/ Answer("again")
       \/ MarkOrFlag /\ UNCHANGED observed
       \/ /\ AnyCall /\ page \in {"front", "back", "done"}
          /\ Show("loading", None)
          /\ UNCHANGED observed

Next ==
    \/ NextCard \/ Reveal \/ Pass
    \/ \E from \in {"failed", "done"} : Open(from)
    \/ AnswerFails
    \/ Change

Spec == Init /\ [][Next]_vars

(* A user who keeps revealing and passing cards, and gets off error pages; *)
(* the property it serves is about such a user.                            *)
KeepsStudying ==
    WF_vars(\/ NextCard \/ Reveal \/ Pass \/ Open("failed")
            \/ AnswerFails)

StudyingSpec == Spec /\ KeepsStudying
-----------------------------------------------------------------------------
(* Whatever decks other requests select between the page and its answer, a *)
(* discarded answer is one whose queue was changed by somebody in between, *)
(* and an answer that counts is one to the first card of the deck its form *)
(* names, not of the deck that was selected last.                          *)
AnswersFirstOfItsDeck ==
    answered # None =>
        /\ answered.stale  => answered.disturbed
        /\ ~answered.stale => answered.first = answered.card

(* A user who keeps studying gets to "Session complete", whatever a        *)
(* bounded number of other calls does to the collection in between.        *)
SessionCompletes == page # "done" ~> page = "done"
=============================================================================
