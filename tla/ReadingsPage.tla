---------------------------- MODULE ReadingsPage ----------------------------
(***************************************************************************)
(* /api/readings: send_readings of tasks/web_server_task.rs streaming one  *)
(* page of a sensor's history while the sensor task keeps publishing into  *)
(* the ring it is read from.                                               *)
(*                                                                         *)
(* The executor is cooperative and the history mutex is never held across  *)
(* an await, so the code between two socket writes is one step: the status *)
(* snapshot with the page bounds worked out from it, and the copy of each  *)
(* reading with the start of its write.  The sensor task runs while a      *)
(* write waits.  Any write can fail, which ends the response, and the      *)
(* board can reboot at any point.                                          *)
(*                                                                         *)
(* A reading is identified by the number it was published under, so that   *)
(* the page can be compared with what was asked for.                       *)
(***************************************************************************)
EXTENDS Integers, Sequences

CONSTANTS Capacity,   \* readings retained
          MaxPushed,  \* bound on the readings published between two boots
          MaxPage,    \* MAX_PAGE_READINGS
          Null        \* None in the ring, null in the page

ASSUME PageAssumption ==
  /\ Capacity \in Nat \ {0}
  /\ MaxPushed \in Nat
  /\ MaxPage \in Nat \ {0}
  /\ Null \notin Nat

VARIABLES entries, next, len, pushed,   \* the ring
          reserved,   \* shared_state::init found room for the histories
          pc,         \* where send_readings is
          request,    \* the parsed query: from and limit
          page,       \* the bounds announced before the first element
          body        \* the elements sent so far

ringVars == <<entries, next, len, pushed>>
serverVars == <<pc, request, page, body>>
pageVars == <<entries, next, len, pushed, reserved, pc, request, page, body>>

History == INSTANCE MeasurementHistory
             WITH Value <- 0 .. MaxPushed, NoValue <- Null

NoRequest == [from |-> 0, limit |-> 0]
NoPage == [from |-> 0, count |-> 0, next |-> 0]

Smaller(a, b) == IF a < b THEN a ELSE b
Larger(a, b) == IF a > b THEN a ELSE b

-----------------------------------------------------------------------------
(***************************************************************************)
(* shared_state: a history that was not reserved takes nothing and reports *)
(* an empty status; its readings are None.  Whether the PSRAM has room for *)
(* the histories is the same at every boot of one board.                   *)
(***************************************************************************)
StatusFirst == IF reserved THEN History!FirstSequence ELSE 0
StatusNext == IF reserved THEN History!NextSequence ELSE 0
Reading(seq) == IF reserved THEN History!Get(seq) ELSE Null

Publish ==
  /\ reserved
  /\ History!Push(pushed)
  /\ UNCHANGED <<reserved, pc, request, page, body>>

Reboot ==
  /\ History!Reboot
  /\ pc' = "idle"
  /\ request' = NoRequest
  /\ page' = NoPage
  /\ body' = << >>
  /\ UNCHANGED reserved

-----------------------------------------------------------------------------
(***************************************************************************)
(* The page the server settles on before it writes anything.               *)
(***************************************************************************)

\* Mutant of PageFrom: one retained reading is skipped when the page is
\* raised.
PageFromPastOldest(from) ==
  IF from < StatusFirst THEN StatusFirst + 1 ELSE from

PageFrom(from) == Larger(from, StatusFirst)

\* Mutant of PageCount: the page is not cut to the readings there are.
PageCountUncut(from, limit) == limit

PageCount(from, limit) == Smaller(Larger(StatusNext - from, 0), limit)

(***************************************************************************)
(* A request arrives.  A missing or unparsable from is 0, a missing or     *)
(* unparsable limit is MaxPage, and a larger one is cut to it.             *)
(***************************************************************************)
Request(from, limit) ==
  /\ pc = "idle"
  /\ request' = [from |-> from, limit |-> Smaller(limit, MaxPage)]
  /\ page' = [from  |-> PageFrom(from),
              count |-> PageCount(PageFrom(from), Smaller(limit, MaxPage)),
              next  |-> StatusNext]
  /\ body' = << >>
  /\ pc' = "preamble"
  /\ UNCHANGED <<ringVars, reserved>>

(***************************************************************************)
(* The header and the page bounds are on their way.                        *)
(***************************************************************************)
SendPreamble ==
  /\ pc = "preamble"
  /\ pc' = "elements"
  /\ UNCHANGED <<ringVars, reserved, request, page, body>>

\* Mutant of SendElement: the reading is looked up by its offset in the page.
SendElementByOffset ==
  /\ pc = "elements"
  /\ Len(body) < page.count
  /\ body' = Append(body, Reading(StatusFirst + Len(body)))
  /\ UNCHANGED <<ringVars, reserved, pc, request, page>>

(***************************************************************************)
(* One turn of the element loop: copy the reading out, write it or null.   *)
(***************************************************************************)
SendElement ==
  /\ pc = "elements"
  /\ Len(body) < page.count
  /\ body' = Append(body, Reading(page.from + Len(body)))
  /\ UNCHANGED <<ringVars, reserved, pc, request, page>>

(***************************************************************************)
(* The closing bracket, after the last element.                            *)
(***************************************************************************)
SendTail ==
  /\ pc = "elements"
  /\ Len(body) = page.count
  /\ pc' = "sent"
  /\ UNCHANGED <<ringVars, reserved, request, page, body>>

(***************************************************************************)
(* A write failed: the response ends where it was.                         *)
(***************************************************************************)
CutOff ==
  /\ pc \in {"preamble", "elements"}
  /\ pc' = "cut"
  /\ UNCHANGED <<ringVars, reserved, request, page, body>>

(***************************************************************************)
(* The connection is closed and the server accepts the next one.           *)
(***************************************************************************)
HangUp ==
  /\ pc \in {"sent", "cut"}
  /\ pc' = "idle"
  /\ request' = NoRequest
  /\ page' = NoPage
  /\ body' = << >>
  /\ UNCHANGED <<ringVars, reserved>>

PageInit ==
  /\ History!Init
  /\ reserved \in BOOLEAN
  /\ pc = "idle"
  /\ request = NoRequest
  /\ page = NoPage
  /\ body = << >>

(***************************************************************************)
(* The client may ask for any number up to one past the highest published, *)
(* and for pages up to one larger than the server allows.                  *)
(***************************************************************************)
PageNext ==
  \/ Publish
  \/ Reboot
  \/ \E from \in 0 .. MaxPushed + 1, limit \in 0 .. MaxPage + 1 :
        Request(from, limit)
  \/ SendPreamble
  \/ SendElement
  \/ SendTail
  \/ CutOff
  \/ HangUp

PageSpec == PageInit /\ [][PageNext]_pageVars

-----------------------------------------------------------------------------
PageTypeOK ==
  /\ History!TypeOK
  /\ reserved \in BOOLEAN
  /\ pc \in {"idle", "preamble", "elements", "sent", "cut"}
  /\ request \in [from : Nat, limit : 0 .. MaxPage]
  /\ page \in [from : Nat, count : 0 .. MaxPage, next : 0 .. MaxPushed]
  /\ body \in Seq(0 .. MaxPushed \cup {Null})

(***************************************************************************)
(* Element i of a page is the reading numbered from + i or null, whatever  *)
(* was published while the page was being sent.  A client maps elements to *)
(* sequence numbers by their place alone.                                  *)
(***************************************************************************)
ElementsKeepTheirPlace ==
  \A i \in 1 .. Len(body) : body[i] \in {page.from + i - 1, Null}

(***************************************************************************)
(* An element is null only for a reading the ring has overwritten: the     *)
(* page bounds promise no reading that was not there, and a reading still  *)
(* retained is never withheld.                                             *)
(***************************************************************************)
NullOnlyIfOverwritten ==
  \A i \in 1 .. Len(body) :
    body[i] = Null => page.from + i - 1 < History!FirstSequence

(***************************************************************************)
(* A page that was sent to its end holds exactly the count it announced,   *)
(* so a client can step its cursor by the number of elements.              *)
(***************************************************************************)
SentPageIsWhole == pc = "sent" => Len(body) = page.count

(***************************************************************************)
(* A page that starts later than it was asked to tells of lost readings:   *)
(* every number it skipped has been overwritten.                           *)
(***************************************************************************)
RaisedOnlyPastLostReadings ==
  \A seq \in request.from .. page.from - 1 : seq < History!FirstSequence

(***************************************************************************)
(* What a client may build on when it maps a page to sequence numbers:     *)
(* page and ring keep to their types, every element keeps its place, and a *)
(* page sent to its end is whole.                                          *)
(***************************************************************************)
PageIsAligned == PageTypeOK /\ ElementsKeepTheirPlace /\ SentPageIsWhole
=============================================================================
