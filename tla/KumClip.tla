------------------------------ MODULE KumClip ------------------------------
(***************************************************************************)
(* The clipboard daemon, src/kumclip/src/main.c: it reads every selection  *)
(* an application makes and sets the selection again itself, so that the   *)
(* content outlives the application.  It talks to the compositor through   *)
(* two streams, events in and requests out, and blocks in read() while an  *)
(* application writes the content; applications and the compositor go on   *)
(* meanwhile.                                                              *)
(***************************************************************************)
EXTENDS Naturals, Sequences

CONSTANTS
    Copies,         \* every copy an application may ever make
    Foreign,        \* the copies offered neither as text nor as an image
    Blank,          \* the copies of no bytes
    Flavours,       \* the names one format is asked under, in turn
    NoCopy, Kumclip

ASSUME KumClipAssumption ==
    /\ Foreign \cup Blank \subseteq Copies
    /\ {NoCopy, Kumclip} \cap Copies = {} /\ NoCopy # Kumclip
    /\ Flavours \in Nat \ {0}

VARIABLES
    clipboard,  \* whose source the seat's selection is
    last,       \* the last copy an application made
    made,       \* the copies made so far
    events,     \* on the way to kumclip
    requests,   \* on the way to the compositor
    isOwner,    \* app.is_owner
    held,       \* app.held
    reading     \* the clip_read() that dd_selection() is in

clipVars == <<clipboard, last, made, events, requests, isOwner, held, reading>>

apps == <<last, made>>

Event(k, c) == [kind |-> k, of |-> c]
Request(k, c) == [kind |-> k, of |-> c]
NotReading == [of |-> NoCopy, left |-> 0, answer |-> "none"]

(* Every variable has its type; dd_selection() asks under as many names as *)
(* there are.                                                              *)
KumClipTypeOK ==
    /\ clipboard \in Copies \cup {NoCopy, Kumclip}
    /\ last \in Copies \cup {NoCopy}
    /\ made \subseteq Copies
    /\ events \in Seq([kind : {"offer", "selection", "cancelled"},
                       of : Copies \cup {NoCopy, Kumclip}])
    /\ requests \in Seq([kind : {"receive", "set_selection"},
                         of : Copies \cup {NoCopy, Kumclip}])
    /\ isOwner \in BOOLEAN
    /\ held \in Copies \cup {NoCopy}
    /\ reading \in [of : Copies \cup {NoCopy, Kumclip}, left : 0..Flavours,
                    answer : {"none", "asked", "granted", "data", "eof"}]

(* wlroots tells a data-control client of a selection by a data_offer, its *)
(* mime types and the selection; the end of one is a selection of NULL.    *)
(* A primary selection is never set: kumde does not listen to the requests *)
(* for one (server.c:186), so that dd_primary_selection() does nothing.    *)
Told(owner) == IF owner = NoCopy THEN <<Event("selection", NoCopy)>>
               ELSE <<Event("offer", owner), Event("selection", owner)>>

(* main() connects, and is told of the selection there is. *)
KumClipInit ==
    /\ clipboard \in Copies \cup {NoCopy}
    /\ last = clipboard
    /\ made = Copies \cap {clipboard}
    /\ events = Told(clipboard)
    /\ requests = << >>
    /\ isOwner = FALSE
    /\ held = NoCopy
    /\ reading = NotReading
-----------------------------------------------------------------------------
(* kum_request_set_selection(): the source that owned the selection is     *)
(* cancelled, and every data-control client is told of the new one.        *)
SetSelection(owner) ==
    /\ clipboard' = owner
    /\ events' = events
         \o (IF clipboard = Kumclip THEN <<Event("cancelled", NoCopy)>> ELSE << >>)
         \o Told(owner)

Copy(c) ==
    /\ c \notin made
    /\ made' = made \cup {c}
    /\ last' = c
    /\ SetSelection(c)
    /\ UNCHANGED <<requests, isOwner, held, reading>>

(* An application quits: its selection ends, and so does what it writes.   *)
Quit(c) ==
    /\ clipboard = c \/ (reading.of = c /\ reading.answer = "granted")
    /\ IF clipboard = c THEN SetSelection(NoCopy)
       ELSE UNCHANGED <<clipboard, events>>
    /\ reading' = IF reading.of = c /\ reading.answer = "granted"
                  THEN [reading EXCEPT !.answer = "eof"] ELSE reading
    /\ UNCHANGED <<apps, requests, isOwner, held>>

(* The compositor takes a request.  The file descriptor of a receive goes  *)
(* to the application, or is closed when its selection is over.            *)
TakeRequest ==
    /\ requests # << >>
    /\ requests' = Tail(requests)
    /\ \/ /\ Head(requests).kind = "set_selection"
          /\ SetSelection(Kumclip)
          /\ UNCHANGED reading
       \/ /\ Head(requests).kind = "receive"
          /\ reading' = [reading EXCEPT
                !.answer = IF clipboard = Head(requests).of THEN "granted" ELSE "eof"]
          /\ UNCHANGED <<clipboard, events>>
    /\ UNCHANGED <<apps, isOwner, held>>

(* The application writes its content, or nothing when it does not have it *)
(* under the name it is asked for.                                         *)
Answer ==
    /\ reading.answer = "granted"
    /\ \E a \in {"data", "eof"} :
          /\ reading.of \in Blank => a = "eof"
          /\ reading.of \notin Blank /\ reading.left = 0 => a = "data"
          /\ reading' = [reading EXCEPT !.answer = a]
    /\ UNCHANGED <<clipboard, apps, events, requests, isOwner, held>>
-----------------------------------------------------------------------------
(* Mutant of SourceCancelled: is_owner is not cleared. *)
CancelledStillOwner ==
    UNCHANGED <<clipboard, apps, requests, isOwner, held, reading>>

(* source_cancelled() *)
SourceCancelled ==
    /\ isOwner' = FALSE
    /\ UNCHANGED <<clipboard, apps, requests, held, reading>>

(* dd_data_offer() and offer_mime(): what they note of an offer in         *)
(* pending, dd_selection() reads when the selection that follows comes.    *)
DataOffer == UNCHANGED <<clipboard, apps, requests, isOwner, held, reading>>

Ask(c) == requests' = Append(requests, Request("receive", c))

(* Mutant of DdSelection: kumclip's own selection is not left alone. *)
DdSelectionAlways(c) ==
    /\ IF c \in Foreign \cup {NoCopy} THEN UNCHANGED <<requests, reading>>
       ELSE /\ Ask(c)
            /\ reading' = [of |-> c, left |-> Flavours - 1, answer |-> "asked"]
    /\ UNCHANGED <<clipboard, apps, isOwner, held>>

(* dd_selection(), up to its first read() *)
DdSelection(c) ==
    /\ IF isOwner \/ c \in Foreign \cup {NoCopy} THEN UNCHANGED <<requests, reading>>
       ELSE /\ Ask(c)
            /\ reading' = [of |-> c, left |-> Flavours - 1, answer |-> "asked"]
    /\ UNCHANGED <<clipboard, apps, isOwner, held>>

(* wl_display_dispatch(): one event; none while dd_selection() reads. *)
Dispatch ==
    /\ events # << >>
    /\ reading = NotReading
    /\ events' = Tail(events)
    /\ LET e == Head(events) IN
          \/ e.kind = "offer" /\ DataOffer
          \/ e.kind = "selection" /\ DdSelection(e.of)
          \/ e.kind = "cancelled" /\ SourceCancelled

(* Mutant of Claim: what was claimed once is never claimed again. *)
ClaimOnce(c) ==
    /\ IF held = NoCopy
       THEN /\ requests' = Append(requests, Request("set_selection", NoCopy))
            /\ isOwner' = TRUE
       ELSE UNCHANGED <<requests, isOwner>>
    /\ held' = c

(* claim(), after app.held has become c *)
Claim(c) ==
    /\ IF isOwner THEN UNCHANGED <<requests, isOwner>>
       ELSE /\ requests' = Append(requests, Request("set_selection", NoCopy))
            /\ isOwner' = TRUE
    /\ held' = c

(* Mutant of ReadReturns: the names to ask under never run out. *)
ReadReturnsAgain ==
    /\ reading.answer \in {"data", "eof"}
    /\ IF reading.answer = "eof"
       THEN /\ Ask(reading.of)
            /\ reading' = [reading EXCEPT !.left = @ - 1, !.answer = "asked"]
            /\ UNCHANGED <<isOwner, held>>
       ELSE /\ reading' = NotReading
            /\ Claim(reading.of)
    /\ UNCHANGED <<clipboard, apps, events>>

(* clip_read() returns to dd_selection(), which asks again under the next  *)
(* name, gives up, or claims the selection with what it read.              *)
ReadReturns ==
    /\ reading.answer \in {"data", "eof"}
    /\ IF reading.answer = "eof" /\ reading.left > 0
       THEN /\ Ask(reading.of)
            /\ reading' = [reading EXCEPT !.left = @ - 1, !.answer = "asked"]
            /\ UNCHANGED <<isOwner, held>>
       ELSE /\ reading' = NotReading
            /\ IF reading.answer = "data" THEN Claim(reading.of)
               ELSE UNCHANGED <<requests, isOwner, held>>
    /\ UNCHANGED <<clipboard, apps, events>>
-----------------------------------------------------------------------------
Applications == Answer \/ \E c \in Copies : Copy(c) \/ Quit(c)

KumClipNext == Applications \/ TakeRequest \/ Dispatch \/ ReadReturns

(* kumclip and the compositor run; an application writes what it is asked  *)
(* for.  Nobody has to copy or to quit.                                    *)
KumClipSpec ==
    /\ KumClipInit /\ [][KumClipNext]_clipVars
    /\ WF_clipVars(TakeRequest)
    /\ WF_clipVars(Dispatch)
    /\ WF_clipVars(ReadReturns)
    /\ WF_clipVars(Answer)
-----------------------------------------------------------------------------
(* source_send(): what pasting gives. *)
Pasted == IF clipboard = Kumclip THEN held ELSE clipboard

Settled == events = << >> /\ requests = << >> /\ reading = NotReading

(* is_owner (main.c:93, main.c:118) is kumclip's guess of what the         *)
(* compositor knows: when nothing is on its way, the guess is right, and   *)
(* there is content behind the selection that kumclip owns.                *)
OwnershipAgrees ==
    /\ Settled => (isOwner <=> clipboard = Kumclip)
    /\ clipboard = Kumclip => held # NoCopy

(* dd_selection() never reads the selection kumclip itself owns            *)
(* (main.c:152): it would wait in read() for its own source_send().        *)
NeverReadsItself == reading.answer # "none" => reading.of \in made

(* Whatever is copied as text or as an image does not stay with the        *)
(* application for ever: kumclip takes it over, unless another copy        *)
(* replaces it or its application quits first.                             *)
TakenOver ==
    \A c \in Copies \ (Foreign \cup Blank) :
        clipboard = c ~> clipboard # c

(* README.md:295: kumclip keeps "the last copied content alive".  When     *)
(* nothing is on its way, pasting gives the last copy, not an older one.   *)
LastCopyPastes == Settled /\ clipboard = Kumclip => Pasted = last
=============================================================================
