------------------------------ MODULE POSWork ------------------------------
(***************************************************************************)
(* Billing drafts and breaks of one account (src/pos/workSessions.ts):     *)
(* savePOSWork, break, resumePOSWork, getPOSWork, and checkoutPOSWork      *)
(* inside the sale transaction.                                            *)
(*                                                                         *)
(* The account works in several tabs.  A request carries the draft and the *)
(* revision its tab was showing; it is delivered once, late, again, or     *)
(* never.  A tab that shows an old revision is therefore a request that    *)
(* was composed when it was new.  Drafts are saved under the account's     *)
(* advisory lock at ReadCommitted: one atomic step.  A checkout is         *)
(* Serializable: it reads the database as of its first statement, before   *)
(* it waits for that lock, and PostgreSQL aborts it when it writes a row   *)
(* that changed since then.                                                *)
(***************************************************************************)
EXTENDS POSCommon, Naturals, FiniteSets

CONSTANTS
  Keys,       \* request keys of saves and breaks
  Drafts,     \* ids of billing drafts
  Sessions,   \* ids of the account's register sessions
  Sales,      \* checkout requests
  Empty,      \* the snapshot of a cleared bill
  Carts       \* snapshots with something in them

ASSUME WorkAssumption ==
  /\ NoRow \notin Drafts \cup Sessions
  /\ Empty \notin Carts

Snapshots == Carts \cup {Empty}

DraftRow == [store : Stores, session : Sessions \cup {NoRow}, snapshot : Snapshots, key : Keys,
             revision : Nat \ {0}, status : {"WORKING", "ON_BREAK", "COMPLETED", "ARCHIVED"}]

ASSUME WorkRowAssumption == NoRow \notin DraftRow

\* What a tab shows: the draft it knows, its revision, the bill on the screen.
View == [draft : Drafts \cup {NoRow}, revision : Nat, shown : Snapshots]

VARIABLES
  drafts,     \* POSBillingDraft
  breaks,     \* POSWorkBreak, by request key
  sessions,   \* POSSession
  requests,   \* save and break requests, as composed
  checkouts   \* sale requests and, while one runs, its database snapshot

workVars == <<drafts, breaks, sessions, requests, checkouts>>

WorkTypeOK ==
  /\ drafts \in [Drafts -> DraftRow \cup {NoRow}]
  /\ breaks \in [Keys -> [draft : Drafts, store : Stores, ended : BOOLEAN] \cup {NoRow}]
  /\ sessions \in [Sessions -> [store : Stores, closed : BOOLEAN] \cup {NoRow}]
  /\ \A k \in Keys : requests[k] # NoRow =>
       /\ requests[k].view \in View
       /\ requests[k].store \in Stores /\ requests[k].snapshot \in Snapshots
  /\ \A c \in Sales : checkouts[c] # NoRow =>
       /\ checkouts[c].view \in View
       /\ checkouts[c].phase \in {"composed", "begun", "sold"}

Blank == [draft |-> NoRow, revision |-> 0, shown |-> Empty]

WorkInit ==
  /\ drafts = [d \in Drafts |-> NoRow]
  /\ breaks = [k \in Keys |-> NoRow]
  /\ sessions = [x \in Sessions |-> NoRow]
  /\ requests = [k \in Keys |-> NoRow]
  /\ checkouts = [c \in Sales |-> NoRow]
-----------------------------------------------------------------------------
Active == {d \in Drafts : drafts[d] # NoRow /\ drafts[d].status \in {"WORKING", "ON_BREAK"}}

\* findFirst over the active drafts.
Current == IF Active = {} THEN NoRow ELSE CHOOSE d \in Active : TRUE

\* What getPOSWork and every other response show.
Shown ==
  IF Current = NoRow THEN Blank
  ELSE [draft |-> Current, revision |-> drafts[Current].revision, shown |-> drafts[Current].snapshot]

\* A tab flushes its bill, or takes a break with it; a session it names it has
\* seen opened.
Compose(k, store, session, snapshot, pause) ==
  /\ requests[k] = NoRow
  /\ session # NoRow => sessions[session] # NoRow
  /\ requests' = [requests EXCEPT ![k] =
       [view |-> Shown, store |-> store, session |-> session, snapshot |-> snapshot, pause |-> pause]]
  /\ UNCHANGED <<drafts, breaks, sessions, checkouts>>

\* session(): the caller's open session at this store, or none named.
Usable(x, store) ==
  x # NoRow => sessions[x] # NoRow /\ ~sessions[x].closed /\ sessions[x].store = store

\* A key that already wrote is answered from its row; lastWriteKey is unique.
Unused(k) == breaks[k] = NoRow /\ \A d \in Drafts : drafts[d] # NoRow => drafts[d].key # k

WhateverRevision(view, d) == view.draft = d   \* mutation

UpToDate(view, d) == view.draft = d /\ view.revision = drafts[d].revision

NotPaused(d) == drafts[d].status # "ON_BREAK"

\* The row a save leaves.
Saved(r, k, session, revision) ==
  [store |-> r.store, session |-> session, snapshot |-> r.snapshot, key |-> k,
   revision |-> revision, status |-> IF r.pause THEN "ON_BREAK" ELSE "WORKING"]

StartBreak(k, d) ==
  breaks' = IF requests[k].pause
            THEN [breaks EXCEPT ![k] = [draft |-> d, store |-> requests[k].store, ended |-> FALSE]]
            ELSE breaks

\* savePOSWork without an active draft.
CreateDraft(k, d) ==
  LET r == requests[k]
  IN /\ r # NoRow /\ Unused(k)
     /\ Current = NoRow /\ r.view.draft = NoRow /\ r.view.revision = 0
     /\ drafts[d] = NoRow
     /\ Usable(r.session, r.store)
     /\ drafts' = [drafts EXCEPT ![d] = Saved(r, k, r.session, 1)]
     /\ StartBreak(k, d)
     /\ UNCHANGED <<sessions, requests, checkouts>>

\* savePOSWork on the active draft, in its store.  A request without a session
\* keeps the draft's, which must still be open.
UpdateDraft(k) ==
  LET r == requests[k]
      d == Current
      session == IF r.session # NoRow THEN r.session ELSE drafts[d].session
  IN /\ r # NoRow /\ Unused(k)
     /\ d # NoRow /\ NotPaused(d) /\ UpToDate(r.view, d)
     /\ drafts[d].store = r.store
     /\ Usable(session, r.store)
     /\ drafts' = [drafts EXCEPT ![d] = Saved(r, k, session, @.revision + 1)]
     /\ StartBreak(k, d)
     /\ UNCHANGED <<sessions, requests, checkouts>>

\* savePOSWork from another store: only a cleared bill is archived and replaced.
SwitchStore(k, d) ==
  LET r == requests[k]
      e == Current
  IN /\ r # NoRow /\ Unused(k)
     /\ e # NoRow /\ NotPaused(e) /\ UpToDate(r.view, e)
     /\ drafts[e].store # r.store /\ drafts[e].snapshot = Empty
     /\ drafts[d] = NoRow
     /\ Usable(r.session, r.store)
     /\ drafts' = [drafts EXCEPT ![e].status = "ARCHIVED", ![d] = Saved(r, k, r.session, 1)]
     /\ StartBreak(k, d)
     /\ UNCHANGED <<sessions, requests, checkouts>>

AnyBreak(k) == TRUE   \* mutation

\* A break that already ended is answered without touching its draft.
Pausing(k) == ~breaks[k].ended

\* resumePOSWork: of the session it names, or else of the draft's.
Resume(k, named) ==
  LET d == breaks[k].draft
      session == IF named # NoRow THEN named ELSE drafts[d].session
  IN /\ breaks[k] # NoRow /\ Pausing(k)
     /\ Usable(session, breaks[k].store)
     /\ breaks' = [breaks EXCEPT ![k].ended = TRUE]
     /\ drafts' = [drafts EXCEPT ![d].status = "WORKING", ![d].session = session,
                                 ![d].revision = @ + 1]
     /\ UNCHANGED <<sessions, requests, checkouts>>
-----------------------------------------------------------------------------
\* POST /sales from a tab, with its draft; or the replacement of an exchange,
\* which need not name one (independentCheckout).
ComposeSale(c, independent) ==
  /\ checkouts[c] = NoRow
  /\ checkouts' = [checkouts EXCEPT ![c] =
       [phase |-> "composed", view |-> IF independent THEN Blank ELSE Shown,
        independent |-> independent, seen |-> NoRow, row |-> NoRow]]
  /\ UNCHANGED <<drafts, breaks, sessions, requests>>

\* The first statement of the sale transaction fixes what the rest of it reads.
BeginSale(c) ==
  /\ checkouts[c] # NoRow /\ checkouts[c].phase = "composed"
  /\ checkouts' = [checkouts EXCEPT ![c].phase = "begun", ![c].seen = Current,
                     ![c].row = IF Current = NoRow THEN NoRow ELSE drafts[Current]]
  /\ UNCHANGED <<drafts, breaks, sessions, requests>>

OverwrittenDraft(c) == TRUE   \* mutation

\* The update of the draft fails if its row changed since the first statement.
SameRow(c) == drafts[checkouts[c].seen] = checkouts[c].row

\* checkoutPOSWork: the draft the sale consumes, NoRow if none; the sale is in
\* the draft's session.  From the lock to the commit nothing else runs.
SellsDraft(c, x) ==
  LET sale == checkouts[c]
  IN /\ sale.seen # NoRow /\ sale.row.status # "ON_BREAK"
     /\ sale.view.draft = sale.seen /\ sale.view.revision = sale.row.revision
     /\ sale.row.store = sessions[x].store
     /\ sale.row.session # NoRow => sale.row.session = x
     /\ SameRow(c)

SellsWithoutDraft(c) ==
  LET sale == checkouts[c]
  IN /\ sale.view.draft = NoRow
     /\ sale.seen # NoRow => sale.independent /\ sale.row.status # "ON_BREAK"

CommitSale(c, x) ==
  /\ checkouts[c] # NoRow /\ checkouts[c].phase = "begun"
  /\ sessions[x] # NoRow /\ ~sessions[x].closed
  /\ \/ /\ SellsDraft(c, x)
        /\ drafts' = [drafts EXCEPT ![checkouts[c].seen].status = "COMPLETED",
                                    ![checkouts[c].seen].revision = @ + 1]
     \/ SellsWithoutDraft(c) /\ UNCHANGED drafts
  /\ checkouts' = [checkouts EXCEPT ![c].phase = "sold"]
  /\ UNCHANGED <<breaks, sessions, requests>>

\* Refused, failed or in conflict: the transaction leaves nothing, and it or the
\* client tries again.
AbortSale(c) ==
  /\ checkouts[c] # NoRow /\ checkouts[c].phase = "begun"
  /\ checkouts' = [checkouts EXCEPT ![c].phase = "composed", ![c].seen = NoRow, ![c].row = NoRow]
  /\ UNCHANGED <<drafts, breaks, sessions, requests>>

\* openRegister and closeSession, as far as drafts see them.  An account may
\* have a session open on each of several registers.
OpenSession(x, store) ==
  /\ sessions[x] = NoRow
  /\ sessions' = [sessions EXCEPT ![x] = [store |-> store, closed |-> FALSE]]
  /\ UNCHANGED <<drafts, breaks, requests, checkouts>>

CloseSession(x) ==
  /\ sessions[x] # NoRow /\ ~sessions[x].closed
  /\ sessions' = [sessions EXCEPT ![x].closed = TRUE]
  /\ UNCHANGED <<drafts, breaks, requests, checkouts>>
-----------------------------------------------------------------------------
WorkNext ==
  \/ \E k \in Keys, store \in Stores, session \in Sessions \cup {NoRow},
        snapshot \in Snapshots, pause \in BOOLEAN :
       Compose(k, store, session, snapshot, pause)
  \/ \E k \in Keys, d \in Drafts : CreateDraft(k, d)
  \/ \E k \in Keys : UpdateDraft(k)
  \/ \E k \in Keys, d \in Drafts : SwitchStore(k, d)
  \/ \E k \in Keys, named \in Sessions \cup {NoRow} : Resume(k, named)
  \/ \E c \in Sales, independent \in BOOLEAN : ComposeSale(c, independent)
  \/ \E c \in Sales : BeginSale(c)
  \/ \E c \in Sales, x \in Sessions : CommitSale(c, x)
  \/ \E c \in Sales : AbortSale(c)
  \/ \E x \in Sessions, store \in Stores : OpenSession(x, store)
  \/ \E x \in Sessions : CloseSession(x)

WorkSpec == WorkInit /\ [][WorkNext]_workVars
-----------------------------------------------------------------------------
(* Properties.                                                             *)

\* "Draft revisions reject competing edits in another tab": the saved bill is
\* only replaced by a tab that was showing it.
NoLostEdit ==
  [][\A d \in Drafts :
       drafts[d] # NoRow /\ drafts'[d].key # drafts[d].key =>
         requests[drafts'[d].key].view = [draft |-> d, revision |-> drafts[d].revision,
                                          shown |-> drafts[d].snapshot]]_workVars

\* A bill that was sold or archived is history: no late save, late resume or
\* second checkout touches it.
SettledDraftsFrozen ==
  [][\A d \in Drafts :
       drafts[d] # NoRow /\ drafts[d].status \in {"COMPLETED", "ARCHIVED"} =>
         drafts'[d] = drafts[d]]_workVars

\* A bill on break stays as it was saved, whatever other tabs send, until a
\* resume gives it back unchanged.
BreakKeepsBill ==
  [][\A d \in Drafts :
       drafts[d] # NoRow /\ drafts[d].status = "ON_BREAK" =>
         /\ drafts'[d].snapshot = drafts[d].snapshot /\ drafts'[d].store = drafts[d].store
         /\ drafts'[d].status \in {"ON_BREAK", "WORKING"}]_workVars

\* A checkout completes the bill its tab was showing, not a later one.
SoldAsShown ==
  [][\A c \in Sales :
       checkouts[c] # NoRow /\ checkouts[c].phase = "begun" /\ checkouts'[c].phase = "sold" =>
         \A d \in Drafts : drafts'[d] # drafts[d] =>
           checkouts[c].view = [draft |-> d, revision |-> drafts[d].revision,
                                shown |-> drafts[d].snapshot]]_workVars
=============================================================================
