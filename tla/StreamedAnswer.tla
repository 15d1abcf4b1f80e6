--------------------------- MODULE StreamedAnswer ---------------------------
(***************************************************************************)
(* What a streamed reply promises the people who read it, without the      *)
(* scheduler: text arrives, and shows on one page after another.  Only the *)
(* last page changes; a page that is sealed stays; the next page takes up  *)
(* the text where the last one stopped.  The answer is delivered when all  *)
(* pages are sealed and they show everything, or the cut is admitted.  An  *)
(* answer that failed, or whose writer died, may be taken up again by a    *)
(* writer that remembers less of it, or more, and rewrites its page.  Two  *)
(* things are not promised.  A writer that goes astray between two pages   *)
(* may put text from further on over the last page, sealed or not, but the *)
(* answer then fails.  And an answer of several pages that is taken up     *)
(* again is muddled: anything may become of it.                            *)
(***************************************************************************)
EXTENDS Integers, Sequences

VARIABLES
  received,   \* characters received from the model
  cut,        \* the end of the text was left out, and the reader told
  pages,      \* a sequence of [from, upto, sealed]
  outcome     \* "open", "delivered", "astray", "failed" or "muddled"

answerVars == <<received, cut, pages, outcome>>

Page == [from : Nat, upto : Nat, sealed : BOOLEAN]

LastPage == pages[Len(pages)]

Init ==
  /\ received = 0 /\ cut = FALSE
  /\ pages = <<[from |-> 0, upto |-> 0, sealed |-> FALSE]>>
  /\ outcome = "open"

Receive ==
  /\ outcome = "open"
  /\ received' >= received
  /\ cut' \in BOOLEAN
  /\ UNCHANGED <<pages, outcome>>

(* The open page is rewritten, for the last time if it is sealed.          *)
Write ==
  /\ ~LastPage.sealed
  /\ \E sealed \in BOOLEAN, upto \in LastPage.from .. received :
       pages' = [pages EXCEPT ![Len(pages)] =
                   [from |-> @.from, upto |-> upto, sealed |-> sealed]]

Turn ==
  /\ LastPage.sealed
  /\ \E blank \in {0, 1} :
       /\ LastPage.upto + blank <= received
       /\ pages' = Append(pages, [from |-> LastPage.upto + blank,
                                  upto |-> LastPage.upto + blank,
                                  sealed |-> FALSE])

Show ==
  /\ outcome = "open"
  /\ Write \/ Turn
  /\ UNCHANGED <<received, cut, outcome>>

Deliver ==
  /\ outcome = "open" /\ outcome' = "delivered"
  /\ \A i \in DOMAIN pages : pages[i].sealed
  /\ cut \/ LastPage.upto = received
  /\ UNCHANGED <<received, cut, pages>>

(* A failure may hide that the last write reached the reader.              *)
Fail ==
  /\ outcome = "open" /\ outcome' = "failed"
  /\ Write \/ Turn \/ UNCHANGED pages
  /\ UNCHANGED <<received, cut>>

GoAstray ==
  /\ outcome = "open" /\ outcome' = "astray"
  /\ cut' \in BOOLEAN
  /\ UNCHANGED <<received, pages>>

(* The last page is lost for text that belongs further on.                 *)
Overwrite ==
  \E from \in LastPage.from .. received, sealed \in BOOLEAN :
    \E upto \in from .. received :
      /\ LastPage.sealed => sealed /\ from >= LastPage.upto
      /\ pages' = [pages EXCEPT ![Len(pages)] =
                     [from |-> from, upto |-> upto, sealed |-> sealed]]

FailAstray ==
  /\ outcome = "astray" /\ outcome' = "failed"
  /\ Overwrite \/ UNCHANGED pages
  /\ UNCHANGED <<received, cut>>

SinglePage == Len(pages) = 1 /\ LastPage.from = 0

TakeUpAgain ==
  /\ outcome \notin {"delivered", "muddled"} /\ SinglePage
  /\ outcome' = "open"
  /\ received' \in Nat /\ cut' \in BOOLEAN
  /\ pages' = <<[from |-> 0, upto |-> LastPage.upto, sealed |-> FALSE]>>

TakeUpMuddled ==
  /\ outcome # "delivered" /\ ~SinglePage
  /\ outcome' = "muddled"

StayMuddled == outcome = "muddled" /\ outcome' = "muddled"

Next ==
  \/ Receive \/ Show \/ Deliver \/ Fail
  \/ GoAstray \/ FailAstray
  \/ TakeUpAgain \/ TakeUpMuddled \/ StayMuddled

Spec == Init /\ [][Next]_answerVars
=============================================================================
