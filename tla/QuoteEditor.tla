----------------------------- MODULE QuoteEditor -----------------------------
(***************************************************************************)
(* The page on which a quote is written, at the office and on a telephone.  *)
(* The lines exist in the page alone; a debounced call prices them, which   *)
(* stores them at the server, and Send commits what is stored there.  The   *)
(* page aborts a call before it makes the next, which stops the page from   *)
(* listening and not the server from working.  Calls overtake each other.   *)
(***************************************************************************)
EXTENDS Platform, FiniteSetsExt

CONSTANTS
  LineLists, Blank,     \* what the lines may say; no line that can be priced
  MaxWire, MaxTyping    \* bounds on the calls and on the edits

VARIABLES
  form,       \* "office" or "phone"
  net,        \* what the telephone believes; the office does not look
  page,       \* the state of the React component
  wire,       \* the calls the page made, oldest first
  unheard,    \* those it stopped listening to or whose answer was lost
  quote,      \* the row and its line items
  document,   \* the lines the supplier has under the quote's key
  typing      \* edits so far

editorVars == <<form, net, page, wire, unheard, quote, document, typing>>

(* No lines are what the supplier has before it has any. *)
ASSUME EditorAssumption ==
  None \notin LineLists /\ MaxWire \in Nat /\ MaxTyping \in Nat

Lists == LineLists \cup {Blank}

(* awaited and sending are the places in wire of the calls waited for, or 0; *)
(* spared says that the timer left the awaited call as it was.              *)
Pages ==
  [draft : {"none", "asked", "made", "failed"}, lines : Lists, shown : Lists,
   waiting : BOOLEAN, awaited : 0..MaxWire, sending : 0..MaxWire,
   failed : BOOLEAN, stale : BOOLEAN, spared : BOOLEAN, known : BOOLEAN]

(* A commit has the lines that were shown when it was sent, and carries the *)
(* lines that it found.                                                     *)
WireCalls ==
  [does : {"price", "commit"}, lines : Lists, carries : Lists,
   step : {"sent", "read", "placed", "done", "refused", "unrecorded"}]

EditorInit ==
  /\ form \in {"office", "phone"} /\ net = TRUE
  /\ page = [draft |-> "none", lines |-> Blank, shown |-> Blank, waiting |-> FALSE,
             awaited |-> 0, sending |-> 0, failed |-> FALSE, stale |-> FALSE,
             spared |-> FALSE, known |-> FALSE]
  /\ wire = <<>> /\ unheard = {} /\ quote = [status |-> "none", lines |-> Blank]
  /\ document = None /\ typing = 0

-----------------------------------------------------------------------------
(* The page *)

(* Once a page: draftCreateAttempted. *)
AskDraft ==
  /\ page.draft = "none" /\ net
  /\ page' = [page EXCEPT !.draft = "asked"]
  /\ UNCHANGED <<form, net, wire, unheard, quote, document, typing>>

DraftMade ==
  /\ page.draft = "asked"
  /\ quote' = [quote EXCEPT !.status = "draft"]
  /\ page' = [page EXCEPT !.draft = "made", !.waiting = TRUE]
  /\ UNCHANGED <<form, net, wire, unheard, document, typing>>

DraftFails ==
  /\ page.draft = "asked" /\ page' = [page EXCEPT !.draft = "failed"]
  /\ UNCHANGED <<form, net, wire, unheard, quote, document, typing>>

Edit(ls) ==
  /\ typing < MaxTyping /\ typing' = typing + 1 /\ ls # page.lines
  /\ page' = [page EXCEPT !.lines = ls, !.waiting = page.draft = "made"]
  /\ UNCHANGED <<form, net, wire, unheard, quote, document>>

(* On the telephone the price depends on the network: the timer starts anew. *)
NetChanges ==
  /\ form = "phone" /\ typing < MaxTyping /\ typing' = typing + 1
  /\ net' = ~net /\ page' = [page EXCEPT !.waiting = page.draft = "made"]
  /\ UNCHANGED <<form, wire, unheard, quote, document>>

Awaited(p) == {p.awaited} \ {0}

(* doPrice and repriceNow: abort the call before, then make the next. *)
StartPrice(p) ==
  /\ Len(wire) < MaxWire
  /\ wire' = Append(wire, [does |-> "price", lines |-> p.lines, carries |-> Blank,
                           step |-> "sent"])
  /\ page' = [p EXCEPT !.awaited = Len(wire'), !.failed = FALSE, !.spared = FALSE]
  /\ unheard' = unheard \cup Awaited(p)
  /\ UNCHANGED <<form, net, quote, document, typing>>

Fired == [page EXCEPT !.waiting = FALSE]

(* Neither this nor the next aborts the call before.                        *)
TimerOffline ==
  /\ page.waiting /\ ~net
  /\ page' = [Fired EXCEPT !.stale = TRUE, !.spared = page.awaited # 0]
  /\ UNCHANGED <<form, net, wire, unheard, quote, document, typing>>

TimerEmpty ==
  /\ page.waiting /\ net /\ page.lines = Blank
  /\ page' = [Fired EXCEPT !.shown = Blank, !.spared = page.awaited # 0]
  /\ UNCHANGED <<form, net, wire, unheard, quote, document, typing>>

TimerPrices ==
  page.waiting /\ net /\ page.lines # Blank /\ StartPrice(Fired)

(* The office asks for a price even of no line. *)
Retry ==
  /\ page.failed /\ page.draft = "made" /\ net
  /\ form = "phone" => page.lines # Blank
  /\ StartPrice(page)

(* Mutant: every answer is listened to. *)
Mutant_ListensToAll(c) == page.awaited # 0 /\ wire[c].does = "price"

Listens(c) == c = page.awaited

PriceShown(c) ==
  /\ Listens(c) /\ wire[c].step = "done"
  /\ page' = [page EXCEPT !.shown = wire[c].lines, !.awaited = 0, !.stale = FALSE]
  /\ UNCHANGED <<form, net, wire, unheard, quote, document, typing>>

PriceFailed(c) ==
  /\ Listens(c) /\ wire[c].step = "refused"
  /\ page' = [page EXCEPT !.awaited = 0, !.failed = TRUE]
  /\ UNCHANGED <<form, net, wire, unheard, quote, document, typing>>

(* The network fails under the call, which may arrive nevertheless. *)
PriceLost ==
  /\ page.awaited # 0 /\ unheard' = unheard \cup Awaited(page)
  /\ page' = [page EXCEPT !.awaited = 0, !.failed = TRUE]
  /\ UNCHANGED <<form, net, wire, quote, document, typing>>

(* Mutant: the button stays enabled while a price is awaited. *)
Mutant_CanSendUnpriced ==
  page.draft = "made" /\ page.shown # Blank /\ ~page.known /\ net

(* canCommit: nothing keeps it from the lines that wait for the timer. *)
CanSend ==
  /\ page.draft = "made" /\ page.shown # Blank /\ ~page.known /\ net
  /\ page.awaited = 0

Send ==
  /\ CanSend /\ page.sending = 0 /\ Len(wire) < MaxWire
  /\ wire' = Append(wire, [does |-> "commit", lines |-> page.shown, carries |-> Blank,
                           step |-> "sent"])
  /\ page' = [page EXCEPT !.sending = Len(wire'),
                          !.failed = IF form = "phone" THEN FALSE ELSE @]
  /\ UNCHANGED <<form, net, unheard, quote, document, typing>>

(* The telephone looks for the reference where the answer does not have it, *)
(* and never learns that the quote was sent.                                *)
SentHeard ==
  /\ page.sending # 0 /\ wire[page.sending].step = "done"
  /\ page' = [page EXCEPT !.sending = 0, !.known = form = "office"]
  /\ UNCHANGED <<form, net, wire, unheard, quote, document, typing>>

SendFailed ==
  /\ page.sending # 0 /\ wire[page.sending].step \in {"refused", "unrecorded"}
  /\ page' = [page EXCEPT !.sending = 0, !.failed = TRUE]
  /\ UNCHANGED <<form, net, wire, unheard, quote, document, typing>>

(* The telephone stops waiting; the office shows Sending for good. *)
SendLost ==
  /\ page.sending # 0 /\ form = "phone" /\ page' = [page EXCEPT !.sending = 0]
  /\ UNCHANGED <<form, net, wire, unheard, quote, document, typing>>

AcceptPressed ==
  /\ page.known /\ quote.status = "committed"
  /\ quote' = [quote EXCEPT !.status = "accepted"]
  /\ UNCHANGED <<form, net, page, wire, unheard, document, typing>>

-----------------------------------------------------------------------------
(* The server: /price and /commit *)

Step(c, step) == wire' = [wire EXCEPT ![c].step = step]

At(c, does, step) == wire[c].does = does /\ wire[c].step = step

PriceBegins(c) ==
  /\ At(c, "price", "sent") /\ quote.status \in {"draft", "priced"}
  /\ wire[c].lines # Blank /\ Step(c, "read")
  /\ UNCHANGED <<form, net, page, unheard, quote, document, typing>>

(* The status, no line, the margin bounds or the supplier; the call never    *)
(* arrives; or another stored its lines, at the same positions, meanwhile.  *)
PriceRefused(c) ==
  /\ \E step \in {"sent", "read"} : At(c, "price", step)
  /\ Step(c, "refused")
  /\ UNCHANGED <<form, net, page, unheard, quote, document, typing>>

PriceStored(c) ==
  /\ At(c, "price", "read") /\ Step(c, "done")
  /\ quote' = [status |-> "priced", lines |-> wire[c].lines]
  /\ UNCHANGED <<form, net, page, unheard, document, typing>>

CommitBegins(c) ==
  /\ At(c, "commit", "sent") /\ quote.status = "priced"
  /\ wire' = [wire EXCEPT ![c].step = "read", ![c].carries = quote.lines]
  /\ UNCHANGED <<form, net, page, unheard, quote, document, typing>>

CommitRefused(c) ==
  /\ At(c, "commit", "sent") /\ Step(c, "refused")
  /\ UNCHANGED <<form, net, page, unheard, quote, document, typing>>

(* The supplier keeps the document it has under the key. *)
CommitPlaced(c) ==
  /\ At(c, "commit", "read") /\ Step(c, "placed")
  /\ document' = IF document = None THEN wire[c].carries ELSE document
  /\ UNCHANGED <<form, net, page, unheard, quote, typing>>

CommitStored(c) ==
  /\ At(c, "commit", "placed") /\ Step(c, "done")
  /\ quote' = [quote EXCEPT !.status = "committed"]
  /\ UNCHANGED <<form, net, page, unheard, document, typing>>

(* The supplier's answer is lost, or the transaction is rolled back. *)
CommitUnrecorded(c) ==
  /\ At(c, "commit", "placed") /\ Step(c, "unrecorded")
  /\ UNCHANGED <<form, net, page, unheard, quote, document, typing>>

EditorNext ==
  \/ AskDraft \/ DraftMade \/ DraftFails
  \/ \E ls \in Lists : Edit(ls)
  \/ NetChanges \/ TimerOffline \/ TimerEmpty \/ TimerPrices \/ Retry
  \/ \E c \in DOMAIN wire : PriceShown(c)
  \/ \E c \in DOMAIN wire : PriceFailed(c)
  \/ PriceLost \/ Send \/ SentHeard \/ SendFailed \/ SendLost \/ AcceptPressed
  \/ \E c \in DOMAIN wire : PriceBegins(c)
  \/ \E c \in DOMAIN wire : PriceRefused(c)
  \/ \E c \in DOMAIN wire : PriceStored(c)
  \/ \E c \in DOMAIN wire : CommitBegins(c)
  \/ \E c \in DOMAIN wire : CommitRefused(c)
  \/ \E c \in DOMAIN wire : CommitPlaced(c)
  \/ \E c \in DOMAIN wire : CommitStored(c)
  \/ \E c \in DOMAIN wire : CommitUnrecorded(c)

EditorSpec == EditorInit /\ [][EditorNext]_editorVars
-----------------------------------------------------------------------------
(* Every page, call and row is one the two pages can produce. *)
EditorTypeOK ==
  /\ form \in {"office", "phone"} /\ net \in BOOLEAN /\ page \in Pages
  /\ wire \in Seq(WireCalls) /\ Len(wire) <= MaxWire /\ unheard \subseteq DOMAIN wire
  /\ page.awaited \in {0} \cup DOMAIN wire /\ page.sending \in {0} \cup DOMAIN wire
  /\ quote \in [status : {"none", "draft", "priced", "committed", "accepted"},
                lines : Lists]
  /\ document \in LineLists \cup {None} /\ typing \in 0..MaxTyping

CallsThat(does) == {c \in DOMAIN wire : wire[c].does = does}

(* A page at rest, whose last price was answered, shows the price of its     *)
(* lines and of no older ones, unless every line was taken away, or the      *)
(* network, while a price was on its way.                                   *)
ShowsNewest ==
  CallsThat("price") # {} /\ ~page.waiting /\ page.awaited = 0
  /\ ~page.stale /\ ~page.spared =>
    LET last == Max(CallsThat("price")) IN
    wire[last].step = "done" /\ last \notin unheard => page.shown = page.lines

(* The prices of a call that the page did not listen to, or made after it   *)
(* had sent the quote.                                                      *)
BehindThePage(c, lines) ==
  \E p \in CallsThat("price") :
    wire[p].step = "done" /\ wire[p].lines = lines /\ (p \in unheard \/ p > c)

(* What a commit agrees with the supplier is what the page showed when Send *)
(* was pressed, whichever price calls overtake each other, but for those the *)
(* page did not hear of.                                                    *)
AgreedAsShown ==
  \A c \in CallsThat("commit") :
    wire[c].step = "done" =>
      wire[c].carries = wire[c].lines \/ BehindThePage(c, wire[c].carries)

(* A quote the page calls sent does not go back to priced, but for the same *)
(* calls.                                                                   *)
KnownStaysSent ==
  page.known /\ quote.status = "priced" =>
    \E c \in CallsThat("commit") :
      wire[c].step = "done" /\ BehindThePage(c, quote.lines)

(* The supplier's document has the lines of the quote, unless another commit *)
(* reached the supplier before and its end was not recorded.                *)
DocumentAsAgreed ==
  \A c \in CallsThat("commit") :
    wire[c].step = "done" /\ document # wire[c].carries =>
      \E d \in CallsThat("commit") \ {c} :
        wire[d].step \in {"unrecorded", "placed", "done"} /\ wire[d].carries = document

(* What the author of a quote sees is what is agreed. *)
EditorSound ==
  /\ ShowsNewest
  /\ AgreedAsShown
  /\ KnownStaysSent
  /\ DocumentAsAgreed
=============================================================================
