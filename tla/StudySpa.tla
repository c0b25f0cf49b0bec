------------------------------ MODULE StudySpa ------------------------------
(***************************************************************************)
(* Reviewing a deck in the single-page client: static/js/study_spa and the *)
(* JSON endpoints of web/routes/study_spa.py, over the collection of Study *)
(* and beside the same other requests.                                     *)
(*                                                                         *)
(* A click sends one request.  The endpoint changes the collection in one  *)
(* call of Account.run and collects what it answers in further ones, with  *)
(* other requests between any two; then the answer reaches the client, or  *)
(* is lost.  The client draws a flag or a mark before it has been saved.   *)
(*                                                                         *)
(* page, card and studied of Study are here what the client shows.         *)
(*                                                                         *)
(* Left out: numbers, texts and the sync indicator; a 404, which no route  *)
(* gives.                                                                  *)
(***************************************************************************)
EXTENDS Study

CONSTANT Flags      \* the flags cards come with from Anki

ASSUME FlagsAssumption == Flags \subseteq 0..7

VARIABLES
    confirm,        \* the client asks whether to delete the note
    state,          \* flag and mark of ctx.state.card,
    buttons,        \* and as the buttons show them
    label,          \* the change the Undo button names: its place in the
                    \* stack, 0 when there is no button
    req,            \* the request in flight
    failed,         \* the last request brought nothing to show
    fresh,          \* observer: nothing has changed since the server
                    \* collected what the client shows
    owed, twice     \* observers: as far as the client was told, the back on
                    \* the screen is not answered; one that was, counted again

screen   == <<page, card, confirm, state, buttons, label>>
observer == <<fresh, owed, twice>>
server   == <<data, selected, undo>>
fixed    == <<studied, observed>>     \* observed is not used here
spaVars  == <<vars, confirm, state, buttons, label, req, failed, observer>>

Ops == {"state", "reveal", "answer", "undo", "flag", "mark", "delete",
        "rebuild", "empty"}

(* Where a request is: on its way, served and to be answered with the next *)
(* card, with the card read, complete, refused.                            *)
Stages == {"sent", "front", "viewed", "ready", "refused"}
Looks == [flag : 0..7, mark : BOOLEAN]
Plain == [flag |-> 0, mark |-> FALSE]
Request == [op : Ops, card : Card \cup {None}, rate : Ratings, look : Looks,
            at : Stages, page : Pages, view : Card \cup {None}, undo : Nat,
            fresh : BOOLEAN]

ASSUME RequestAssumption == None \notin Request

SpaTypeOK ==
    /\ flag \in [Card -> 0..7]
    /\ marked \subseteq Card
    /\ page \in Pages \cup {"away"}
    /\ card \in Card \cup {None}
    /\ confirm \in BOOLEAN
    /\ state \in Looks
    /\ buttons \in Looks
    /\ label \in Nat
    /\ req \in Request \cup {None}
    /\ failed \in BOOLEAN
    /\ fresh \in BOOLEAN /\ owed \in BOOLEAN /\ twice \in BOOLEAN

(* look is the flag or the mark asked for, later what to show.             *)
Sent(op, c, rate, look) ==
    [op |-> op, card |-> c, rate |-> rate, look |-> look, at |-> "sent",
     page |-> "loading", view |-> None, undo |-> 0, fresh |-> TRUE]

AskState == Sent("state", None, "good", Plain)

SpaInit ==
    /\ deckOf = Home
    /\ due \in SetToSeqs(Card)
    /\ flag \in [Card -> Flags]
    /\ marked = {}
    /\ selected \in Deck
    /\ undo = <<>>
    /\ studied \in Deck
    /\ page = "loading" /\ card = None
    /\ disturbed = FALSE /\ answered = None
    /\ changes = 0
    /\ confirm = FALSE
    /\ state = Plain /\ buttons = Plain
    /\ label = 0
    /\ req = AskState
    /\ failed = FALSE
    /\ fresh = FALSE /\ owed = FALSE /\ twice = FALSE

-----------------------------------------------------------------------------
(* Clicks.                                                                 *)

WithBusy_NoGuard == page \in {"front", "back", "done"}

(* A click does nothing while a request is in flight, or before the first  *)
(* state has come.                                                         *)
WithBusy == req = None /\ page \in {"front", "back", "done"}

Counts == changes < MaxChanges /\ changes' = changes + 1

(* The client sends a request and leaves the screen as it is.              *)
Send(op, rate) ==
    /\ WithBusy
    /\ req' = Sent(op, card, rate, Plain)
    /\ UNCHANGED <<server, fixed, screen, failed, observer>>

ClickReveal == page = "front" /\ Send("reveal", "good") /\ UNCHANGED changes

ClickPass == page = "back" /\ ~confirm /\ Send("answer", "good") /\ UNCHANGED changes

ClickOther ==
    /\ Counts
    /\ \/ page = "back" /\ ~confirm /\ Send("answer", "again")
       \/ label # 0 /\ ~confirm /\ Send("undo", "good")
       \/ studied \in Filtered /\ ~confirm /\ \E op \in {"rebuild", "empty"} : Send(op, "good")

(* The button is lit at once.                                              *)
Optimistic(op, target) ==
    /\ WithBusy /\ Counts
    /\ page \in {"front", "back"} /\ ~confirm
    /\ buttons' = target
    /\ req' = Sent(op, card, "good", target)
    /\ UNCHANGED <<server, fixed, page, card, confirm, state, label, failed, observer>>

(* A click on the flag that is set clears it.                              *)
ClickFlag(f) ==
    Optimistic("flag", [buttons EXCEPT !.flag = IF state.flag = f THEN 0 ELSE f])

ClickMark == Optimistic("mark", [buttons EXCEPT !.mark = ~state.mark])

(* render(ctx.state): the screen is drawn from the last state again.       *)
Redraw == buttons' = state /\ UNCHANGED <<page, card, state, label>>

ShowDeleteConfirm ==
    /\ WithBusy /\ page = "back" /\ ~confirm
    /\ confirm' = TRUE
    /\ Redraw
    /\ UNCHANGED <<server, fixed, changes, req, failed, observer>>

CancelDelete ==
    /\ WithBusy /\ confirm
    /\ confirm' = FALSE
    /\ Redraw
    /\ UNCHANGED <<server, fixed, changes, req, failed, observer>>

(* The question is gone before the note is.                                *)
ConfirmDelete ==
    /\ WithBusy /\ Counts /\ confirm
    /\ confirm' = FALSE
    /\ req' = Sent("delete", card, "good", Plain)
    /\ UNCHANGED <<server, fixed, page, card, state, buttons, label, failed, observer>>

-----------------------------------------------------------------------------
(* The endpoints.                                                          *)

At(op, stage) == req # None /\ req.op = op /\ req.at = stage

(* The request goes on to its next stage.                                  *)
Reach(stage) == req' = [req EXCEPT !.at = stage]

(* The collection changed; what the client shows is old.                   *)
Changed == Reach("front") /\ fresh' = FALSE

Refuse ==
    /\ Reach("refused")
    /\ UNCHANGED <<server, observer>>

ServeAnswer ==
    /\ At("answer", "sent")
    /\ \/ /\ AnswerIn(studied, req.card, req.rate)
          /\ Changed
          /\ owed' = (owed /\ undo' = undo)
          /\ twice' = (twice \/ (~owed /\ undo' # undo))
       \/ /\ AnswerDeleted(studied, req.card)
          /\ Reach("refused")
          /\ UNCHANGED observer

ServeUndo ==
    /\ At("undo", "sent")
    /\ UndoLastOp
    /\ Changed
    /\ UNCHANGED <<owed, twice>>

ServeDelete ==
    /\ At("delete", "sent")
    /\ \/ DeleteNoteByCard(studied, req.card) /\ Changed /\ UNCHANGED <<owed, twice>>
       \/ ~(Exists(req.card) /\ deckOf[req.card] \in AtOrBelow[studied]) /\ Refuse

(* The answer repeats what was asked for, and says nothing of the rest.    *)
ServeFlagOrMark ==
    /\ At("flag", "sent") \/ At("mark", "sent")
    /\ \/ /\ IF req.op = "flag" THEN SetCardFlag(req.card, req.look.flag)
                               ELSE SetCardMarked(req.card, req.look.mark)
          /\ req' = [req EXCEPT !.at = "viewed", !.fresh = fresh]
          /\ fresh' = FALSE
          /\ UNCHANGED <<owed, twice>>
       \/ ~Exists(req.card) /\ Refuse

(* Anki may refuse to rebuild a deck.                                      *)
ServeFiltered ==
    /\ \/ /\ \/ At("rebuild", "sent") /\ \E found \in SUBSET Card : RebuildFilteredDeck(studied, found)
             \/ At("empty", "sent") /\ EmptyFilteredDeck(studied)
          /\ Reach("ready")
          /\ fresh' = FALSE
       \/ At("rebuild", "sent") /\ Reach("refused") /\ UNCHANGED <<server, fresh>>
    /\ UNCHANGED <<owed, twice>>

LookOf(c) == IF c = None THEN Plain ELSE [flag |-> flag[c], mark |-> c \in marked]

(* StudyCardPayload takes flags up to 4: any other is an error (HTTP 500), *)
(* after whatever the endpoint has done.                                   *)
Viewed(what, c) ==
    IF c # None /\ flag[c] > 4
    THEN Reach("refused")
    ELSE req' = [req EXCEPT !.at = "viewed", !.page = what, !.view = c, !.look = LookOf(c),
                            !.fresh = TRUE]

(* _build_front_payload: the next card, or done.                           *)
BuildFront ==
    /\ \/ At("state", "sent")
       \/ req # None /\ req.at = "front"
    /\ QueuedCardFor(studied)
    /\ Viewed(IF Queued = None THEN "done" ELSE "front", Queued)
    /\ UNCHANGED <<data, undo, observer>>

(* _build_back_payload: the back of the card, or the next card if it is    *)
(* gone.                                                                   *)
BuildBack ==
    /\ At("reveal", "sent")
    /\ IF Exists(req.card) THEN Viewed("back", req.card) ELSE Reach("front")
    /\ UNCHANGED <<server, observer>>

(* get_undo_status, in a call of its own.                                  *)
ReadUndo ==
    /\ req # None /\ req.at = "viewed"
    /\ req' = [req EXCEPT !.at = "ready", !.undo = Len(undo)]
    /\ UNCHANGED <<server, observer>>

Serve ==
    /\ \/ ServeAnswer \/ ServeUndo \/ ServeDelete \/ ServeFlagOrMark \/ ServeFiltered
       \/ BuildFront  \/ BuildBack \/ ReadUndo
    /\ UNCHANGED <<fixed, screen, failed, changes>>

-----------------------------------------------------------------------------
(* Answers.                                                                *)

Render_HandlersOfTheFirstCard(r) ==
    /\ page' = r.page
    /\ card' = IF card = None THEN r.view ELSE card
    /\ state' = r.look
    /\ buttons' = r.look
    /\ label' = r.undo
    /\ failed' = FALSE
    /\ fresh' = r.fresh
    /\ owed' = (r.page = "back")
    /\ UNCHANGED <<confirm, twice>>

(* render(p), with ctx.state = p *)
Render(r) ==
    /\ page' = r.page
    /\ card' = r.view
    /\ state' = r.look
    /\ buttons' = r.look
    /\ label' = r.undo
    /\ failed' = FALSE
    /\ fresh' = r.fresh
    /\ owed' = (r.page = "back")
    /\ UNCHANGED <<confirm, twice>>

(* card.flag = r.flag, or card.is_marked = r.is_marked *)
Patched(r) == IF r.op = "flag" THEN [state EXCEPT !.flag = r.look.flag]
                               ELSE [state EXCEPT !.mark = r.look.mark]

Saved_ButtonOnly(r) ==
    /\ buttons' = Patched(r)
    /\ label' = r.undo
    /\ failed' = FALSE
    /\ fresh' = r.fresh
    /\ UNCHANGED <<page, card, confirm, state, owed, twice>>

Saved(r) ==
    /\ state' = Patched(r)
    /\ buttons' = Patched(r)
    /\ label' = r.undo
    /\ failed' = FALSE
    /\ fresh' = r.fresh
    /\ UNCHANGED <<page, card, confirm, owed, twice>>

(* location.assign *)
Leave ==
    /\ page' = "away"
    /\ UNCHANGED <<card, confirm, state, buttons, label, failed, observer>>

Receive ==
    /\ req # None /\ req.at = "ready"
    /\ CASE req.op \in {"flag", "mark"} -> Saved(req)
         [] req.op \in {"rebuild", "empty"} -> Leave
         [] OTHER -> Render(req)
    /\ req' = None
    /\ UNCHANGED <<server, fixed, changes>>

(* What the client does about a request that failed: it clears the page if *)
(* it has no state yet, and takes back what it drew.                       *)
Rollback ==
    CASE req.op = "state" -> page' = "failed" /\ UNCHANGED <<card, state, buttons, label>>
      [] req.op \in {"flag", "mark", "delete"} -> Redraw
      [] OTHER -> UNCHANGED <<page, card, state, buttons, label>>

(* The user of a client that was told nothing has still to answer the card.*)
Unanswered ==
    /\ failed' = TRUE
    /\ owed' = (page = "back")
    /\ req' = None

ReceiveRefusal ==
    /\ req # None /\ req.at = "refused"
    /\ Rollback
    /\ Unanswered
    /\ UNCHANGED <<server, fixed, changes, confirm, fresh, twice>>

(* The request does not reach the server, or its answer not the client.    *)
Lose ==
    /\ req # None /\ Counts
    /\ Rollback
    /\ Unanswered
    /\ UNCHANGED <<server, fixed, confirm, fresh, twice>>

(* 403: another account has signed in.  The page is cleared and loaded     *)
(* again, but a deletion draws the last state over it: that is Lose, and a *)
(* Reopen some time later.  401: the user signed out, the client leaves.   *)
Expel(to) ==
    /\ req # None /\ req.at = "sent" /\ Counts
    /\ to = "failed" => req.op # "delete"
    /\ page' = to
    /\ failed' = TRUE
    /\ req' = None
    /\ UNCHANGED <<server, fixed, card, confirm, state, buttons, label, observer>>

(* The client is opened or loaded again, at any time.                      *)
Reopen ==
    /\ req = None
    /\ page' = "loading" /\ card' = None
    /\ confirm' = FALSE
    /\ state' = Plain /\ buttons' = Plain
    /\ label' = 0
    /\ req' = AskState
    /\ failed' = FALSE
    /\ owed' = FALSE
    /\ UNCHANGED <<server, fixed, fresh, twice>>

(* The user does so in any case if it did nothing.                         *)
Reload == Reopen /\ (failed \/ page \in {"away", "done"}) /\ UNCHANGED changes

(* Another tab, or the sweeper.                                            *)
Others ==
    /\ Counts
    /\ AnyCall
    /\ fresh' = FALSE
    /\ req' = IF req = None THEN None ELSE [req EXCEPT !.fresh = FALSE]
    /\ UNCHANGED <<fixed, screen, failed, owed, twice>>

SpaNext ==
    \/ ClickReveal \/ ClickPass \/ ClickOther
    \/ \E f \in 1..2 : ClickFlag(f)
    \/ ClickMark
    \/ ShowDeleteConfirm \/ CancelDelete \/ ConfirmDelete
    \/ Serve
    \/ Receive \/ ReceiveRefusal \/ Lose
    \/ \E to \in {"failed", "away"} : Expel(to)
    \/ Reload
    \/ Counts /\ Reopen
    \/ Others

SpaSpec == SpaInit /\ [][SpaNext]_spaVars

(* The server answers; the user reveals and passes cards, takes back an    *)
(* offer to delete, and reloads a page that keeps failing.                 *)
KeepsClicking ==
    /\ WF_spaVars(Serve \/ Receive \/ ReceiveRefusal)
    /\ WF_spaVars(CancelDelete)
    /\ SF_spaVars(ClickReveal \/ ClickPass)
    /\ SF_spaVars(Reload)

ClickingSpec == SpaSpec /\ KeepsClicking
-----------------------------------------------------------------------------
(* With no request in flight the screen tells what is stored, and names    *)
(* what Undo would revert, unless someone else changed the collection or   *)
(* the answer to a change was lost: in particular a flag or a mark that    *)
(* was drawn and not saved is taken back.                                  *)
ScreenIsCurrent ==
    req = None /\ fresh /\ page \in {"front", "back", "done"} =>
        /\ label = Len(undo)
        /\ card # None => state = LookOf(card) /\ buttons = LookOf(card)

(* A back shown once counts once, however the user clicks; only a user who *)
(* was told nothing, and answers again, may count twice.                   *)
CountsOnce == ~twice

(* A user who keeps clicking gets to the end of the deck, if no card has a *)
(* flag the client's payload cannot carry.                                 *)
ClientCompletes ==
    [](\A c \in Card : flag[c] <= 4) => (page # "done" ~> page = "done")
-----------------------------------------------------------------------------
(* study_spa.py:82: /spa/state "Returns the next front-phase payload (or   *)
(* done) for the deck."                                                    *)
StateIsReturned == ~At("state", "refused")
=============================================================================
