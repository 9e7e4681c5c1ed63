----------------------------- MODULE PagedListing -----------------------------
(***************************************************************************)
(* Lists page by page: observe_webhook_subscriptions with its evidence and *)
(* its cursor, its surface query, and observe_charges, of an account that  *)
(* others change between two pages.  A caller asks for a first page and    *)
(* follows the cursor until it is empty.  The provider numbers and counts  *)
(* what lies in the requested window of creation times; any one thing in   *)
(* an answer of its may be wrong, missing or of another type.              *)
(*                                                                         *)
(* Abstracted: dates, keys and URLs (a row is sound or it is not), query   *)
(* encoding, redaction, the two failures of an exchange (the walk ends).   *)
(***************************************************************************)
EXTENDS Integers, Sequences, FiniteSets, SequencesExt

CONSTANTS
  Keys,        \* identities of rows
  None,        \* no page, no size, no cursor
  Resources,   \* what is listed: "webhooks", "surface_webhooks", "charges"
  Times,       \* creation times
  Start, End,  \* the requested window, both inclusive
  DefaultSize, \* the provider's page size when none is given
  MaxPageSize, \* largest size a caller may ask for (1000)
  MaxInt32,    \* largest counter that is believed
  MaxChanges,  \* bound of the changes of the account by others
  MaxFaults    \* bound of the wrong answers in a walk

Row == [key : Keys, at : Times, sound : BOOLEAN]

\* Rows of an account have one key each.
Accounts ==
  {s \in SeqOf([key : Keys, at : Times, sound : {TRUE}], Cardinality(Keys)) :
     \A i, j \in DOMAIN s : s[i].key = s[j].key => i = j}

\* A counter of an answer: a JSON number, digits in a string, or anything else.
Forms == {"number", "text", "other"}
AnyCounter == [form : Forms, n : Nat]
Counter == [form : Forms, n : 0 .. MaxInt32 + 1]
Counters == {"current", "size", "pages", "total"}
Number(n) == [form |-> "number", n |-> n]

\* An answer to a list: whether it names the requested window, counters, rows.
Answer ==
  [window : BOOLEAN, current : AnyCounter, size : AnyCounter, pages : AnyCounter,
   total : AnyCounter, rows : Seq(Row)]

ASSUME ListingAssumption ==
  /\ {Start, End, DefaultSize, MaxPageSize, MaxInt32, MaxChanges, MaxFaults} \subseteq Nat
  /\ DefaultSize > 0 /\ Times \subseteq Nat
  /\ MaxPageSize <= MaxInt32
  /\ IsFiniteSet(Keys)
  /\ None \notin Nat /\ None \notin Answer
  /\ Resources \subseteq {"webhooks", "surface_webhooks", "charges"}

VARIABLES
  account,   \* the rows of the account, in the provider's order
  changes,   \* number of changes so far
  resource,  \* what is listed
  first,     \* the caller's page, if it gave one
  size,      \* the caller's page size, if it gave one
  pc,        \* next step of the walk
  page,      \* page asked for next
  response,  \* the latest answer
  evidence,  \* page_provenance of the latest page
  collected, \* rows of all pages of the walk
  stable,    \* history: the account did not change since the first page
  faults,    \* number of wrong answers so far
  proved     \* history: every page was validated

vars == <<account, changes, resource, first, size, pc, page, response, evidence,
          collected, stable, faults, proved>>

NoEvidence == [validated |-> FALSE, complete |-> FALSE]

------------------------------------------------------------------------------
(* The provider *)

InWindow(row) == row.at \in Start .. End

\* The rows of an account that lie in the window, in its order.
InWindowOf(rows) ==
  LET kept[n \in 0 .. Len(rows)] ==
        IF n = 0 THEN <<>>
        ELSE IF InWindow(rows[n]) THEN Append(kept[n - 1], rows[n]) ELSE kept[n - 1]
  IN  kept[Len(rows)]

Window == InWindowOf(account)

\* A provider that does not refuse a size out of range takes its own.
Asked == IF size \in 1 .. MaxPageSize THEN size ELSE DefaultSize

\* Pages of s rows that n rows fill.
PageCount(n, s) == (n + s - 1) \div s

Slice(rows, p, s) == SubSeq(rows, p * s + 1, Min({p * s + s, Len(rows)}))

\* An empty list has no page or one empty page.
HonestAnswer(p, s, empty) ==
  [window |-> TRUE, current |-> Number(p), size |-> Number(s),
   pages |-> Number(IF Window = <<>> THEN empty ELSE PageCount(Len(Window), s)),
   total |-> Number(Len(Window)), rows |-> Slice(Window, p, s)]

\* What one fault makes of an answer: a row is lost, repeated in another's
\* place, repeated, unsound or from outside the window; a counter is anything.
Faulty(r) ==
  LET I == 1 .. Len(r.rows) IN
  {[r EXCEPT !.window = FALSE]}
    \cup {[r EXCEPT ![f] = c] : f \in Counters, c \in Counter}
    \cup {[r EXCEPT !.rows = RemoveAt(@, i)] : i \in I}
    \cup {[r EXCEPT !.rows[i] = r.rows[j]] : i, j \in I}
    \cup {[r EXCEPT !.rows = Append(@, r.rows[j])] : j \in I}
    \cup {[r EXCEPT !.rows[i].sound = FALSE] : i \in I}
    \cup {[r EXCEPT !.rows[i].at = t] : i \in I, t \in Times \ (Start .. End)}

------------------------------------------------------------------------------
(* The observer *)

\* The surface query passes page, size and cursor on, and hands the cursor back.
Webhooks == resource \in {"webhooks", "surface_webhooks"}

SizeInRange == size = None \/ size \in 1 .. MaxPageSize

\* Mutant: one more than the largest page size is let through.
AdmittedOneMore == ~ Webhooks \/ size = None \/ size \in 1 .. MaxPageSize + 1

\* The sizes that are sent: observe_charges sends any.
Admitted == ~ Webhooks \/ SizeInRange

\* Provider counters are whole JSON numbers within bounds, never coerced.
webhookPageInteger(c) == c.form = "number" /\ c.n <= MaxInt32

\* Mutant: rows need not be as many as the counters say.
RowsCountUnchecked(r) == TRUE

\* The page is full, or the last one and as long as what is left.
RowsCount(r) ==
  LET left == r.total.n - r.current.n * r.size.n IN
  Len(r.rows) = IF left > r.size.n THEN r.size.n ELSE left

\* Mutant: a last page that is not full is not counted.
PagesCountFloor(r) ==
  IF r.total.n = 0 THEN r.current.n = 0 /\ r.pages.n \in {0, 1} /\ r.rows = <<>>
  ELSE r.pages.n = r.total.n \div r.size.n /\ r.current.n < r.pages.n

PagesCount(r) ==
  IF r.total.n = 0 THEN r.current.n = 0 /\ r.pages.n \in {0, 1} /\ r.rows = <<>>
  ELSE r.pages.n = PageCount(r.total.n, r.size.n) /\ r.current.n < r.pages.n

RowsSound(rows) ==
  /\ \A i \in DOMAIN rows : rows[i].sound /\ InWindow(rows[i])
  /\ \A i, j \in DOMAIN rows : rows[i].key = rows[j].key => i = j

webhookPageProvenance(p, r) ==
  LET validated ==
        /\ size # None
        /\ r.window
        /\ \A f \in Counters : webhookPageInteger(r[f])
        /\ r.current.n = p /\ r.size.n = size /\ Len(r.rows) <= size
        /\ PagesCount(r) /\ RowsCount(r) /\ RowsSound(r.rows)
  IN  [validated |-> validated,
       complete |-> validated /\ r.current.n = 0 /\ r.pages.n = 1 /\ r.total.n = Len(r.rows)]

\* Mutant: the last page is not asked for.
nextWebhookPageCursorShort(r) ==
  IF r.current.form = "other" \/ r.pages.form = "other" \/ r.current.n + 2 >= r.pages.n
  THEN None ELSE r.current.n + 1

\* Here digits in a string count, and the page is the answer's, not the request's.
nextWebhookPageCursor(r) ==
  IF r.current.form = "other" \/ r.pages.form = "other" \/ r.current.n + 1 >= r.pages.n
  THEN None ELSE r.current.n + 1

\* observe_charges has no cursor of its own, and its surface query none either.
NextCursor(r) == IF Webhooks THEN nextWebhookPageCursor(r) ELSE None

\* What comes with a page: the surface query drops the evidence, as it keeps of an
\* answer its rows and the cursor alone.
Provenance(r) == IF resource = "webhooks" THEN webhookPageProvenance(page, r) ELSE NoEvidence

------------------------------------------------------------------------------

Init ==
  /\ account \in Accounts
  /\ changes = 0
  /\ resource \in Resources
  /\ first \in {None, 0, 1}
  /\ size \in {None} \cup 0 .. MaxPageSize + 1
  /\ pc = "ask"
  /\ page = IF first = None THEN 0 ELSE first
  /\ response = None
  /\ evidence = NoEvidence
  /\ collected = <<>>
  /\ stable = TRUE
  /\ faults = 0
  /\ proved = TRUE

Refused ==
  /\ pc = "ask"
  /\ pc' = "refused"
  /\ UNCHANGED <<account, changes, resource, first, size, page, response, evidence,
                 collected, stable, faults, proved>>

\* The adapter refuses a size out of range before it asks.
Refuse == ~ Admitted /\ Refused

\* The provider may refuse one it is asked for.
ProviderRefuses == Admitted /\ ~ SizeInRange /\ Refused

\* One page: its evidence, its rows and the page its cursor names.
Observe(r) ==
  LET next == NextCursor(r) IN
  /\ pc = "ask" /\ Admitted
  /\ response' = r
  /\ evidence' = Provenance(r)
  /\ collected' = collected \o r.rows
  /\ pc' = IF next = None THEN "ended" ELSE "ask"
  /\ page' = IF next = None THEN page ELSE next
  /\ proved' = (proved /\ evidence'.validated)
  /\ UNCHANGED <<account, changes, resource, first, size, stable>>

ObserveHonest == \E empty \in {0, 1} :
  Admitted /\ Observe(HonestAnswer(page, Asked, empty)) /\ UNCHANGED faults

ObserveFaulty ==
  /\ faults < MaxFaults /\ Admitted
  /\ \E r \in Faulty(HonestAnswer(page, Asked, 1)) : Observe(r)
  /\ faults' = faults + 1

Change(rows) ==
  /\ pc = "ask" /\ changes < MaxChanges
  /\ account' = rows
  /\ changes' = changes + 1
  /\ stable' = (stable /\ response = None)
  /\ UNCHANGED <<resource, first, size, pc, page, response, evidence, collected, faults, proved>>

Register(k, t) ==
  /\ \A i \in DOMAIN account : account[i].key # k
  /\ Change(Append(account, [key |-> k, at |-> t, sound |-> TRUE]))

Unregister(i) == Change(RemoveAt(account, i))

Quiescent == pc # "ask" /\ UNCHANGED vars

Next ==
  \/ Refuse \/ ProviderRefuses \/ ObserveHonest \/ ObserveFaulty \/ Quiescent
  \/ \E k \in Keys, t \in Times : Register(k, t)
  \/ \E i \in DOMAIN account : Unregister(i)

Spec == Init /\ [][Next]_vars
------------------------------------------------------------------------------
(* Properties *)

\* Type invariant; and no page of webhooks is asked for with a size out of range.
TypeOK ==
  /\ account \in Accounts
  /\ changes \in 0 .. MaxChanges /\ faults \in 0 .. MaxFaults
  /\ resource \in Resources
  /\ first \in {None, 0, 1}
  /\ size \in {None} \cup 0 .. MaxPageSize + 1
  /\ pc \in {"ask", "ended", "refused"}
  /\ page \in Nat
  /\ evidence \in [validated : BOOLEAN, complete : BOOLEAN]
  /\ response \in Answer \cup {None} /\ collected \in Seq(Row)
  /\ stable \in BOOLEAN /\ proved \in BOOLEAN
  /\ response # None /\ Webhooks => size \in {None} \cup 1 .. MaxPageSize

\* A page is observed in this step.
Observed == <<pc, page, response>>' # <<pc, page, response>> /\ pc' # "refused"

\* A validated page is the requested page of what the account held when it was
\* answered, whichever one thing of the answer is wrong; a complete one is all
\* the account held in the window (webhookPageProvenance).
EvidenceIsTrue ==
  [][Observed /\ evidence'.validated =>
       /\ response'.rows = Slice(Window, page, size)
       /\ evidence'.complete => response'.rows = Window]_vars

\* No right answer is denied its evidence: boundaries of the window, an empty
\* list, a full last page; but for a list too long for its counters.
RightPageIsProved ==
  [][Observed /\ faults' = faults /\ resource = "webhooks" /\ size # None =>
       /\ evidence'.validated <=>
            /\ page * size < Len(Window) \/ (page = 0 /\ Window = <<>>)
            /\ Len(Window) <= MaxInt32
       /\ evidence'.complete <=>
            evidence'.validated /\ page = 0 /\ response'.pages = Number(1)]_vars

\* A walk from the first page to the empty cursor, of an account that nobody
\* changed meanwhile, has every row once, if every page was validated or right;
\* a surface query's, which has no evidence, if every page was right.
ProvedWalkIsComplete ==
  pc = "ended" /\ Webhooks /\ first # 1 /\ stable /\ (proved \/ faults = 0) =>
    collected = Window

\* The documented meaning of the cursor of Observe: empty, the list is complete.
EmptyCursorMeansComplete ==
  pc = "ended" /\ first # 1 /\ stable /\ faults = 0 => collected = Window
===============================================================================
