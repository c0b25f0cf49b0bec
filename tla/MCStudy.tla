------------------------------ MODULE MCStudy ------------------------------
(* An instance of Study and of StudySpa for TLC: a deck and a filtered     *)
(* deck below it, studied in a tab or in a single-page client.             *)
EXTENDS StudySpa

CONSTANTS deck, cram, c1, c2,
    MaxSpaChanges   \* bound: MaxChanges for the single-page client

Decks   == {deck, cram}
Cards   == {c1, c2}
Tree    == [d \in Decks |-> IF d = deck THEN Decks ELSE {d}]
Origins == [c \in Cards |-> deck]

VARIABLE way        \* how the user studies

ways == <<way, spaVars>>

(* What the tab does not use. *)
spaOnly == <<confirm, state, buttons, label, req, failed, observer>>

ByTab == way = "tab" /\ UNCHANGED <<way, spaOnly>>
ByClient == way = "client" /\ changes' <= MaxSpaChanges /\ UNCHANGED way

(* The cards are alike: an execution with the other order of them is one   *)
(* with this order and their names exchanged.                              *)
StudyingInit ==
    /\ due = <<c1, c2>>
    /\ \/ /\ way = "tab" /\ Init
          /\ confirm = FALSE
          /\ state = Plain /\ buttons = Plain
          /\ label = 0
          /\ req = None
          /\ failed = FALSE
          /\ fresh = FALSE /\ owed = FALSE /\ twice = FALSE
       \/ way = "client" /\ SpaInit

StudyingNext ==
    \/ Next /\ ByTab
    \/ SpaNext /\ ByClient

(* KeepsStudying and KeepsClicking, each of its own way to study.          *)
EitherSpec ==
    /\ StudyingInit /\ [][StudyingNext]_ways
    /\ WF_ways((NextCard \/ Reveal \/ Pass \/ Open("failed") \/ AnswerFails) /\ ByTab)
    /\ WF_ways((Serve \/ Receive \/ ReceiveRefusal) /\ ByClient)
    /\ WF_ways(CancelDelete /\ ByClient)
    /\ SF_ways((ClickReveal \/ ClickPass) /\ ByClient)
    /\ SF_ways(Reload /\ ByClient)

(* In a tab, a user who keeps studying gets to "Session complete".        *)
TabCompletes == way = "tab" => SessionCompletes

(* In the client, a user who keeps clicking gets to the end of the deck.   *)
SpaCompletes == way = "client" => ClientCompletes
=============================================================================
