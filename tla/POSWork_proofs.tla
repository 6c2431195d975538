--------------------------- MODULE POSWork_proofs ---------------------------
(***************************************************************************)
(* For any number of tabs, requests, drafts, stores and sessions: no edit  *)
(* is lost, settled drafts stay as they are, a paused bill is given back   *)
(* unchanged, and a checkout completes the bill its tab was showing.       *)
(***************************************************************************)
EXTENDS POSWork, TLAPS

\* A view is out of date, or what it shows is what is saved.
Faithful(view) ==
  view.draft # NoRow =>
    LET row == drafts[view.draft]
    IN /\ row \in DraftRow
       /\ view.revision <= row.revision
       /\ view.revision = row.revision => view.shown = row.snapshot

\* Requests and sales are the functions their updates take them for, and carry
\* faithful views.
Sent ==
  /\ requests = [k \in Keys |-> requests[k]]
  /\ checkouts = [c \in Sales |-> checkouts[c]]
  /\ \A k \in Keys : requests[k] # NoRow =>
       requests[k].session \in Sessions \cup {NoRow} /\ Faithful(requests[k].view)
  /\ \A c \in Sales : checkouts[c] # NoRow => Faithful(checkouts[c].view)

\* A sale that has begun saw no draft or an active one.
Begun ==
  \A c \in Sales : checkouts[c] # NoRow /\ checkouts[c].phase = "begun" /\ checkouts[c].seen # NoRow =>
    /\ checkouts[c].seen \in Drafts /\ checkouts[c].row \in DraftRow
    /\ checkouts[c].row.status \in {"WORKING", "ON_BREAK"}

\* An open break holds its draft, and no draft has two.
Holding(k) == breaks[k] # NoRow /\ ~breaks[k].ended

Held ==
  /\ \A k \in Keys : breaks[k] # NoRow => drafts[breaks[k].draft] \in DraftRow
  /\ \A k \in Keys : Holding(k) => drafts[breaks[k].draft].status = "ON_BREAK"
  /\ \A k \in Keys : \A j \in Keys \ {k} :
       Holding(k) /\ Holding(j) => breaks[k].draft # breaks[j].draft

IInv == WorkTypeOK /\ Sent /\ Begun /\ Held
-----------------------------------------------------------------------------
\* findFirst finds an active draft if there is one.
LEMMA CurrentIsActive ==
  /\ Current # NoRow => /\ Current \in Drafts /\ drafts[Current] # NoRow
                        /\ drafts[Current].status \in {"WORKING", "ON_BREAK"}
  /\ Current = NoRow => Active = {}
<1>1. CASE Active = {}
  BY <1>1 DEF Current
<1>2. CASE Active # {}
  <2>1. Current \in Active
    BY <1>2 DEF Current
  <2> QED
    BY <2>1, WorkAssumption DEF Active
<1> QED
  BY <1>1, <1>2

\* What a tab is shown is what is saved.
LEMMA ShownIsFaithful ==
  ASSUME WorkTypeOK
  PROVE  Shown \in View /\ Faithful(Shown)
<1>1. CASE Current = NoRow
  BY <1>1 DEF Shown, Blank, View, Faithful, Snapshots
<1>2. CASE Current # NoRow
  <2>1. Current \in Drafts /\ drafts[Current] \in DraftRow
    BY <1>2, CurrentIsActive DEF WorkTypeOK
  <2>2. drafts[Current].revision \in Nat /\ drafts[Current].snapshot \in Snapshots
    BY <2>1 DEF DraftRow
  <2> QED
    BY <1>2, <2>1, <2>2 DEF Shown, View, Faithful
<1> QED
  BY <1>1, <1>2

LEMMA BlankIsFaithful == Blank \in View /\ Faithful(Blank)
BY DEF Blank, View, Faithful, Snapshots

-----------------------------------------------------------------------------
\* How a step may change a draft: not at all, or create it, or write a new
\* revision, or archive it.
Grown(d) ==
  \/ drafts'[d] = drafts[d]
  \/ drafts[d] = NoRow /\ drafts'[d] \in DraftRow
  \/ drafts[d] \in DraftRow /\ drafts'[d] \in DraftRow /\ drafts'[d].revision > drafts[d].revision
  \/ drafts[d] \in DraftRow /\ drafts'[d] = [drafts[d] EXCEPT !.status = "ARCHIVED"]

\* Drafts only grow.
Growing ==
  /\ drafts' \in [Drafts -> DraftRow \cup {NoRow}]
  /\ \A d \in Drafts : Grown(d)

\* A view of drafts that only grow stays faithful.
LEMMA ViewsAge ==
  ASSUME NEW view \in View, Faithful(view), Growing
  PROVE  Faithful(view)'
<1> SUFFICES ASSUME view.draft # NoRow
             PROVE  /\ drafts'[view.draft] \in DraftRow
                    /\ view.revision <= drafts'[view.draft].revision
                    /\ view.revision = drafts'[view.draft].revision =>
                         view.shown = drafts'[view.draft].snapshot
  BY DEF Faithful
<1>1. view.draft \in Drafts /\ view.revision \in Nat
  BY DEF View
<1>2. PICK d \in Drafts : d = view.draft
  BY <1>1
<1>3. /\ drafts[d] \in DraftRow /\ view.revision <= drafts[d].revision
      /\ view.revision = drafts[d].revision => view.shown = drafts[d].snapshot
  BY <1>2 DEF Faithful
<1>4. drafts[d].revision \in Nat /\ drafts[d] # NoRow
  BY <1>3, WorkRowAssumption DEF DraftRow
<1>5. CASE drafts'[d] = drafts[d]
  BY <1>2, <1>3, <1>5
<1>6. CASE drafts'[d] \in DraftRow /\ drafts'[d].revision > drafts[d].revision
  <2>1. drafts'[d].revision \in Nat
    BY <1>6 DEF DraftRow
  <2> QED
    BY <1>1, <1>2, <1>3, <1>4, <1>6, <2>1
<1>7. CASE drafts'[d] = [drafts[d] EXCEPT !.status = "ARCHIVED"]
  <2>1. drafts'[d] \in DraftRow /\ drafts'[d].revision = drafts[d].revision
                                /\ drafts'[d].snapshot = drafts[d].snapshot
    BY <1>3, <1>7 DEF DraftRow
  <2> QED
    BY <1>2, <1>3, <2>1
<1> QED
  BY <1>4, <1>5, <1>6, <1>7 DEF Growing, Grown

-----------------------------------------------------------------------------
(* The three ways a draft is written.                                      *)

\* What every save does: it writes draft d, new or shown by its tab, and
\* leaves the others alone but for a cleared bill it archives.
Wrote(k, d) ==
  /\ drafts' \in [Drafts -> DraftRow \cup {NoRow}]
  /\ drafts'[d] \in DraftRow /\ drafts'[d].key = k
  /\ drafts'[d].status = IF requests[k].pause THEN "ON_BREAK" ELSE "WORKING"
  /\ \/ drafts[d] = NoRow
     \/ /\ drafts[d] \in DraftRow /\ drafts[d].status = "WORKING"
        /\ drafts'[d].revision > drafts[d].revision
        /\ UpToDate(requests[k].view, d)
  /\ \A e \in Drafts \ {d} :
       \/ drafts'[e] = drafts[e]
       \/ /\ drafts[e] \in DraftRow /\ drafts[e].status = "WORKING" /\ drafts[e].snapshot = Empty
          /\ drafts'[e] = [drafts[e] EXCEPT !.status = "ARCHIVED"]
  /\ requests[k] # NoRow /\ Unused(k) /\ StartBreak(k, d)
  /\ UNCHANGED <<sessions, requests, checkouts>>

\* resumePOSWork gives draft d back as it was saved.
Resumed(k, d) ==
  /\ drafts' \in [Drafts -> DraftRow \cup {NoRow}]
  /\ breaks[k] # NoRow /\ ~breaks[k].ended /\ breaks[k].draft = d
  /\ drafts[d] \in DraftRow /\ drafts[d].status = "ON_BREAK"
  /\ drafts'[d] \in DraftRow /\ drafts'[d].status = "WORKING"
  /\ drafts'[d].snapshot = drafts[d].snapshot /\ drafts'[d].store = drafts[d].store
  /\ drafts'[d].key = drafts[d].key /\ drafts'[d].revision > drafts[d].revision
  /\ \A e \in Drafts \ {d} : drafts'[e] = drafts[e]
  /\ breaks' = [breaks EXCEPT ![k].ended = TRUE]
  /\ UNCHANGED <<sessions, requests, checkouts>>

\* A checkout completes draft d, which its tab was showing.
Sold(c, d) ==
  /\ drafts' \in [Drafts -> DraftRow \cup {NoRow}]
  /\ drafts[d] \in DraftRow /\ drafts[d].status = "WORKING"
  /\ checkouts[c].view = [draft |-> d, revision |-> drafts[d].revision, shown |-> drafts[d].snapshot]
  /\ drafts'[d] \in DraftRow /\ drafts'[d].status = "COMPLETED"
  /\ drafts'[d].key = drafts[d].key /\ drafts'[d].revision > drafts[d].revision
  /\ \A e \in Drafts \ {d} : drafts'[e] = drafts[e]
  /\ UNCHANGED <<breaks, sessions, requests>>

\* A row that gets a new status, session and revision, and keeps the rest.
States == {"WORKING", "ON_BREAK", "COMPLETED", "ARCHIVED"}

Revised(new, old, session, status) ==
  new = [old EXCEPT !.status = status, !.session = session, !.revision = @ + 1]

IsRevision(new, old, status) ==
  /\ new \in DraftRow /\ new.status = status /\ new.snapshot = old.snapshot
  /\ new.store = old.store /\ new.key = old.key /\ new.revision > old.revision

LEMMA RevisedIsARow ==
  ASSUME NEW old \in DraftRow, NEW session \in Sessions \cup {NoRow}, NEW status \in States,
         NEW new, Revised(new, old, session, status)
  PROVE  IsRevision(new, old, status)
<1>1. old.revision \in Nat /\ old.revision + 1 \in Nat \ {0} /\ old.revision + 1 > old.revision
  BY DEF DraftRow
<1>2. new = [store |-> old.store, session |-> session, snapshot |-> old.snapshot, key |-> old.key,
             revision |-> old.revision + 1, status |-> status]
  BY DEF DraftRow, Revised
<1> QED
  BY <1>1, <1>2 DEF DraftRow, IsRevision, States

LEMMA SavedIsARow ==
  ASSUME WorkTypeOK, Sent, NEW k \in Keys, requests[k] # NoRow,
         NEW session \in Sessions \cup {NoRow}, NEW revision \in Nat \ {0}
  PROVE  LET row == Saved(requests[k], k, session, revision)
         IN /\ row \in DraftRow /\ row.key = k /\ row.revision = revision
            /\ row.status = IF requests[k].pause THEN "ON_BREAK" ELSE "WORKING"
<1>1. requests[k].store \in Stores /\ requests[k].snapshot \in Snapshots
  BY DEF WorkTypeOK
<1> QED
  BY <1>1 DEF Saved, DraftRow

LEMMA CreateDraftWrites ==
  ASSUME IInv, NEW k \in Keys, NEW d \in Drafts, CreateDraft(k, d)
  PROVE  Wrote(k, d)
<1> DEFINE row == Saved(requests[k], k, requests[k].session, 1)
<1>1. /\ requests[k] # NoRow /\ Unused(k) /\ StartBreak(k, d) /\ drafts[d] = NoRow
      /\ drafts' = [drafts EXCEPT ![d] = row] /\ UNCHANGED <<sessions, requests, checkouts>>
  BY DEF CreateDraft
<1>2. requests[k].session \in Sessions \cup {NoRow}
  BY <1>1 DEF IInv, Sent
<1>3. /\ row \in DraftRow /\ row.key = k
      /\ row.status = IF requests[k].pause THEN "ON_BREAK" ELSE "WORKING"
  BY <1>1, <1>2, SavedIsARow DEF IInv
<1>4. drafts \in [Drafts -> DraftRow \cup {NoRow}]
  BY DEF IInv, WorkTypeOK
<1> HIDE DEF row
<1>5. /\ drafts' \in [Drafts -> DraftRow \cup {NoRow}] /\ drafts'[d] = row
      /\ \A e \in Drafts \ {d} : drafts'[e] = drafts[e]
  BY <1>1, <1>3, <1>4
<1> QED
  BY <1>1, <1>3, <1>5 DEF Wrote

LEMMA UpdateDraftWrites ==
  ASSUME IInv, NEW k \in Keys, UpdateDraft(k)
  PROVE  \E d \in Drafts : Wrote(k, d)
<1>1. Current # NoRow
  BY DEF UpdateDraft
<1>2. PICK d \in Drafts : /\ d = Current /\ drafts[d] # NoRow
                          /\ drafts[d].status \in {"WORKING", "ON_BREAK"}
  BY <1>1, CurrentIsActive
<1>3. drafts[d] \in DraftRow /\ drafts \in [Drafts -> DraftRow \cup {NoRow}]
  BY <1>2 DEF IInv, WorkTypeOK
<1> DEFINE session == IF requests[k].session # NoRow THEN requests[k].session ELSE drafts[d].session
           row == Saved(requests[k], k, session, drafts[d].revision + 1)
<1>4. /\ requests[k] # NoRow /\ Unused(k) /\ StartBreak(k, d) /\ NotPaused(d)
      /\ UpToDate(requests[k].view, d)
      /\ drafts' = [drafts EXCEPT ![d] = row] /\ UNCHANGED <<sessions, requests, checkouts>>
  BY <1>2, <1>3 DEF UpdateDraft
<1>5. session \in Sessions \cup {NoRow} /\ drafts[d].revision + 1 \in Nat \ {0}
  BY <1>3, <1>4 DEF IInv, Sent, DraftRow
<1>6. /\ row \in DraftRow /\ row.key = k /\ row.revision = drafts[d].revision + 1
      /\ row.status = IF requests[k].pause THEN "ON_BREAK" ELSE "WORKING"
  BY <1>4, <1>5, SavedIsARow DEF IInv
<1> HIDE DEF row
<1>7. /\ drafts' \in [Drafts -> DraftRow \cup {NoRow}] /\ drafts'[d] = row
      /\ \A e \in Drafts \ {d} : drafts'[e] = drafts[e]
  BY <1>3, <1>4, <1>6
<1>8. drafts[d].status = "WORKING" /\ row.revision > drafts[d].revision
  BY <1>2, <1>3, <1>4, <1>6 DEF NotPaused, DraftRow
<1> QED
  BY <1>3, <1>4, <1>6, <1>7, <1>8 DEF Wrote

LEMMA SwitchStoreWrites ==
  ASSUME IInv, NEW k \in Keys, NEW d \in Drafts, SwitchStore(k, d)
  PROVE  Wrote(k, d)
<1>1. Current # NoRow
  BY DEF SwitchStore
<1>2. PICK e \in Drafts : /\ e = Current /\ drafts[e] # NoRow
                          /\ drafts[e].status \in {"WORKING", "ON_BREAK"}
  BY <1>1, CurrentIsActive
<1>3. drafts[e] \in DraftRow /\ drafts \in [Drafts -> DraftRow \cup {NoRow}]
  BY <1>2 DEF IInv, WorkTypeOK
<1> DEFINE row == Saved(requests[k], k, requests[k].session, 1)
<1>4. /\ requests[k] # NoRow /\ Unused(k) /\ StartBreak(k, d) /\ NotPaused(e)
      /\ drafts[d] = NoRow /\ drafts[e].snapshot = Empty
      /\ drafts' = [drafts EXCEPT ![e].status = "ARCHIVED", ![d] = row]
      /\ UNCHANGED <<sessions, requests, checkouts>>
  BY <1>2 DEF SwitchStore
<1>5. requests[k].session \in Sessions \cup {NoRow}
  BY <1>4 DEF IInv, Sent
<1>6. /\ row \in DraftRow /\ row.key = k
      /\ row.status = IF requests[k].pause THEN "ON_BREAK" ELSE "WORKING"
  <2>1. requests[k] # NoRow /\ WorkTypeOK /\ Sent /\ 1 \in Nat \ {0}
    BY <1>4 DEF IInv
  <2> QED
    BY <1>5, <2>1, SavedIsARow
<1> DEFINE archived == [drafts[e] EXCEPT !.status = "ARCHIVED"]
<1>7. archived \in DraftRow
  BY <1>3 DEF DraftRow
<1> HIDE DEF row
<1>8. d # e
  BY <1>2, <1>4
<1>9. /\ drafts'[d] = row /\ drafts'[e] = archived
      /\ \A f \in Drafts \ {d, e} : drafts'[f] = drafts[f]
      /\ drafts' \in [Drafts -> DraftRow \cup {NoRow}]
  BY <1>3, <1>4, <1>6, <1>7, <1>8
<1>10. drafts[e].status = "WORKING"
  BY <1>2, <1>4 DEF NotPaused
<1>11. \A f \in Drafts \ {d} :
         \/ drafts'[f] = drafts[f]
         \/ /\ drafts[f] \in DraftRow /\ drafts[f].status = "WORKING" /\ drafts[f].snapshot = Empty
            /\ drafts'[f] = [drafts[f] EXCEPT !.status = "ARCHIVED"]
  BY <1>3, <1>4, <1>9, <1>10
<1> QED
  BY <1>4, <1>6, <1>9, <1>11 DEF Wrote

LEMMA ResumeGivesBack ==
  ASSUME IInv, NEW k \in Keys, NEW named \in Sessions \cup {NoRow}, Resume(k, named)
  PROVE  \E d \in Drafts : Resumed(k, d)
<1>1. breaks[k] # NoRow /\ ~breaks[k].ended /\ Holding(k)
  BY DEF Resume, Pausing, Holding
<1>2. PICK d \in Drafts : d = breaks[k].draft
  BY <1>1 DEF IInv, WorkTypeOK
<1>3. /\ drafts[d] \in DraftRow /\ drafts[d].status = "ON_BREAK"
      /\ drafts \in [Drafts -> DraftRow \cup {NoRow}]
  BY <1>1, <1>2 DEF IInv, Held, WorkTypeOK
<1> DEFINE session == IF named # NoRow THEN named ELSE drafts[d].session
           row == [drafts[d] EXCEPT !.status = "WORKING", !.session = session, !.revision = @ + 1]
<1>4. session \in Sessions \cup {NoRow}
  BY <1>3 DEF DraftRow
<1>5. /\ breaks' = [breaks EXCEPT ![k].ended = TRUE] /\ UNCHANGED <<sessions, requests, checkouts>>
      /\ drafts' = [drafts EXCEPT ![d].status = "WORKING", ![d].session = session,
                                  ![d].revision = @ + 1]
  BY <1>2 DEF Resume
<1>6. drafts' = [drafts EXCEPT ![d] = row]
  BY <1>3, <1>5
<1>7. /\ row \in DraftRow /\ row.status = "WORKING" /\ row.snapshot = drafts[d].snapshot
      /\ row.store = drafts[d].store /\ row.key = drafts[d].key
      /\ row.revision > drafts[d].revision
  <2>1. PICK old \in DraftRow : old = drafts[d]
    BY <1>3
  <2>2. PICK s \in Sessions \cup {NoRow} : s = session
    BY <1>4
  <2>3. PICK new : new = row
    OBVIOUS
  <2>4. Revised(new, old, s, "WORKING") /\ "WORKING" \in States
    BY <2>1, <2>2, <2>3 DEF Revised, States
  <2> HIDE DEF row
  <2>5. IsRevision(new, old, "WORKING")
    BY <2>4, RevisedIsARow, Zenon
  <2> QED
    BY <2>1, <2>3, <2>5 DEF IsRevision
<1> HIDE DEF row
<1>8. /\ drafts' \in [Drafts -> DraftRow \cup {NoRow}] /\ drafts'[d] = row
      /\ \A e \in Drafts \ {d} : drafts'[e] = drafts[e]
  BY <1>3, <1>6, <1>7
<1> QED
  BY <1>1, <1>2, <1>3, <1>5, <1>7, <1>8 DEF Resumed

LEMMA SaleCompletesDraft ==
  ASSUME IInv, NEW c \in Sales, NEW x \in Sessions, CommitSale(c, x)
  PROVE  UNCHANGED <<drafts, breaks, sessions, requests>> \/ \E d \in Drafts : Sold(c, d)
<1>1. /\ checkouts[c] # NoRow /\ checkouts[c].phase = "begun"
      /\ UNCHANGED <<breaks, sessions, requests>>
  BY DEF CommitSale
<1>2. CASE UNCHANGED drafts
  BY <1>1, <1>2
<1>3. CASE /\ SellsDraft(c, x)
           /\ drafts' = [drafts EXCEPT ![checkouts[c].seen].status = "COMPLETED",
                                       ![checkouts[c].seen].revision = @ + 1]
  <2>1. checkouts[c].seen # NoRow /\ checkouts[c].row.status # "ON_BREAK"
    BY <1>3 DEF SellsDraft
  <2>2. PICK d \in Drafts : d = checkouts[c].seen
    BY <1>1, <2>1 DEF IInv, Begun
  <2>3. /\ drafts[d] = checkouts[c].row /\ drafts[d] \in DraftRow /\ drafts[d].status = "WORKING"
        /\ drafts \in [Drafts -> DraftRow \cup {NoRow}]
    BY <1>1, <1>3, <2>1, <2>2 DEF SellsDraft, SameRow, IInv, Begun, WorkTypeOK
  <2>4. PICK view \in View : view = checkouts[c].view
    BY <1>1 DEF IInv, WorkTypeOK
  <2>5. view.draft = d /\ view.revision = drafts[d].revision
    BY <1>3, <2>2, <2>3, <2>4 DEF SellsDraft
  <2>6. Faithful(view)
    BY <1>1, <2>4 DEF IInv, Sent
  <2>7. view.shown = drafts[d].snapshot
    BY <2>2, <2>5, <2>6, WorkAssumption DEF Faithful
  <2>8. view = [draft |-> d, revision |-> drafts[d].revision, shown |-> drafts[d].snapshot]
    BY <2>5, <2>7 DEF View
  <2> DEFINE row == [drafts[d] EXCEPT !.status = "COMPLETED", !.revision = @ + 1]
  <2>9. drafts' = [drafts EXCEPT ![d] = row]
    BY <1>3, <2>2, <2>3
  <2>10. /\ row \in DraftRow /\ row.status = "COMPLETED" /\ row.key = drafts[d].key
         /\ row.revision > drafts[d].revision
    <3>1. PICK old \in DraftRow : old = drafts[d]
      BY <2>3
    <3>2. PICK new : new = row
      OBVIOUS
    <3>3. old.session \in Sessions \cup {NoRow}
      BY DEF DraftRow
    <3>4. Revised(new, old, old.session, "COMPLETED") /\ "COMPLETED" \in States
      BY <3>1, <3>2 DEF DraftRow, Revised, States
    <3> HIDE DEF row
    <3>5. IsRevision(new, old, "COMPLETED")
      BY <3>3, <3>4, RevisedIsARow, Zenon
    <3> QED
      BY <3>1, <3>2, <3>5 DEF IsRevision
  <2> HIDE DEF row
  <2>11. /\ drafts' \in [Drafts -> DraftRow \cup {NoRow}] /\ drafts'[d] = row
         /\ \A e \in Drafts \ {d} : drafts'[e] = drafts[e]
    BY <2>3, <2>9, <2>10
  <2> QED
    BY <1>1, <2>3, <2>4, <2>8, <2>10, <2>11 DEF Sold
<1> QED
  BY <1>2, <1>3 DEF CommitSale

-----------------------------------------------------------------------------
(* The invariant, part by part.                                            *)

LEMMA WrittenGrow ==
  ASSUME WorkTypeOK, NEW d \in Drafts,
         (\E k \in Keys : Wrote(k, d) \/ Resumed(k, d)) \/ (\E c \in Sales : Sold(c, d))
  PROVE  Growing
<1>1. drafts \in [Drafts -> DraftRow \cup {NoRow}]
  BY DEF WorkTypeOK
<1>2. ASSUME NEW k \in Keys, Wrote(k, d)
      PROVE  Growing
  <2>1. Grown(d)
    BY <1>2 DEF Wrote, Grown
  <2>2. \A e \in Drafts \ {d} : Grown(e)
    BY <1>2 DEF Wrote, Grown
  <2> QED
    BY <1>2, <2>1, <2>2 DEF Wrote, Growing
<1>3. ASSUME NEW k \in Keys, Resumed(k, d)
      PROVE  Growing
  BY <1>3 DEF Resumed, Grown, Growing
<1>4. ASSUME NEW c \in Sales, Sold(c, d)
      PROVE  Growing
  BY <1>4 DEF Sold, Grown, Growing
<1> QED
  BY <1>2, <1>3, <1>4

LEMMA SameDraftsGrow ==
  ASSUME WorkTypeOK, UNCHANGED drafts
  PROVE  Growing
BY DEF WorkTypeOK, Growing, Grown

\* A step that composes nothing keeps every view.
ViewsKept ==
  /\ UNCHANGED requests
  /\ checkouts' = [c \in Sales |-> checkouts'[c]]
  /\ \A c \in Sales : checkouts'[c] # NoRow =>
       checkouts[c] # NoRow /\ checkouts'[c].view = checkouts[c].view

LEMMA SentStays ==
  ASSUME WorkTypeOK, Sent, Growing, ViewsKept
  PROVE  Sent'
<1>1. ASSUME NEW k \in Keys, requests'[k] # NoRow
      PROVE  requests'[k].session \in Sessions \cup {NoRow} /\ Faithful(requests[k].view)'
  <2>1. requests'[k] = requests[k] /\ requests[k] # NoRow
    BY <1>1 DEF ViewsKept
  <2>2. PICK view \in View : view = requests[k].view
    BY <2>1 DEF WorkTypeOK
  <2>3. Faithful(view)
    BY <2>1, <2>2 DEF Sent
  <2>4. Faithful(view)'
    BY <2>3, ViewsAge
  <2> QED
    BY <2>1, <2>2, <2>4 DEF Sent, Faithful
<1>2. ASSUME NEW c \in Sales, checkouts'[c] # NoRow
      PROVE  Faithful(checkouts[c].view)'
  <2>1. checkouts[c] # NoRow /\ checkouts'[c].view = checkouts[c].view
    BY <1>2 DEF ViewsKept
  <2>2. PICK view \in View : view = checkouts[c].view
    BY <2>1 DEF WorkTypeOK
  <2>3. Faithful(view)
    BY <2>1, <2>2 DEF Sent
  <2>4. Faithful(view)'
    BY <2>3, ViewsAge
  <2> QED
    BY <2>1, <2>2, <2>4 DEF Faithful
<1>3. requests' = [k \in Keys |-> requests'[k]]
  BY DEF ViewsKept, Sent
<1> QED
  BY <1>1, <1>2, <1>3 DEF Sent, ViewsKept

\* A break starts on a draft that no open break holds.
LEMMA SavesHold ==
  ASSUME WorkTypeOK, Held, NEW k \in Keys, NEW d \in Drafts, Wrote(k, d)
  PROVE  Held' /\ breaks' \in [Keys -> [draft : Drafts, store : Stores, ended : BOOLEAN] \cup {NoRow}]
<1> DEFINE row == [draft |-> d, store |-> requests[k].store, ended |-> FALSE]
<1>1. /\ breaks[k] = NoRow /\ requests[k].store \in Stores
      /\ breaks \in [Keys -> [draft : Drafts, store : Stores, ended : BOOLEAN] \cup {NoRow}]
  BY DEF WorkTypeOK, Wrote, Unused
<1>2. \A j \in Keys : Holding(j) => breaks[j].draft # d
  BY WorkRowAssumption DEF Held, Holding, Wrote
<1>3. \A j \in Keys : breaks[j] # NoRow => breaks[j].draft \in Drafts
  BY <1>1
<1>4. \A e \in Drafts : drafts[e] \in DraftRow =>
        /\ drafts'[e] \in DraftRow
        /\ e # d /\ drafts[e].status = "ON_BREAK" => drafts'[e].status = "ON_BREAK"
  <2> SUFFICES ASSUME NEW e \in Drafts, drafts[e] \in DraftRow, e # d
               PROVE  /\ drafts'[e] \in DraftRow
                      /\ drafts[e].status = "ON_BREAK" => drafts'[e].status = "ON_BREAK"
    BY DEF Wrote
  <2>1. CASE drafts'[e] = drafts[e]
    BY <2>1
  <2>2. CASE drafts[e].status = "WORKING" /\ drafts'[e] = [drafts[e] EXCEPT !.status = "ARCHIVED"]
    BY <2>2 DEF DraftRow
  <2> QED
    BY <2>1, <2>2 DEF Wrote
<1>5. drafts'[d] \in DraftRow
  BY DEF Wrote
<1>6. CASE requests[k].pause
  <2>1. breaks' = [breaks EXCEPT ![k] = row] /\ drafts'[d].status = "ON_BREAK"
    BY <1>6 DEF Wrote, StartBreak
  <2>2. /\ breaks'[k] = row /\ row.draft = d
        /\ \A j \in Keys \ {k} : breaks'[j] = breaks[j]
    BY <1>1, <2>1
  <2>3. \A j \in Keys \ {k} : Holding(j)' => Holding(j) /\ breaks'[j].draft = breaks[j].draft
    BY <2>2 DEF Holding
  <2>4. \A j \in Keys : breaks'[j] # NoRow => drafts'[breaks'[j].draft] \in DraftRow
    BY <1>3, <1>4, <1>5, <2>2 DEF Held
  <2>5. \A j \in Keys : Holding(j)' => drafts'[breaks'[j].draft].status = "ON_BREAK"
    BY <1>2, <1>3, <1>4, <2>1, <2>2, <2>3 DEF Held, Holding
  <2>6. \A i \in Keys : \A j \in Keys \ {i} :
          Holding(i)' /\ Holding(j)' => breaks'[i].draft # breaks'[j].draft
    BY <1>2, <2>2, <2>3 DEF Held
  <2>7. row \in [draft : Drafts, store : Stores, ended : BOOLEAN]
    BY <1>1
  <2> QED
    BY <1>1, <2>1, <2>4, <2>5, <2>6, <2>7 DEF Held
<1>7. CASE ~requests[k].pause
  <2>1. breaks' = breaks
    BY <1>7 DEF Wrote, StartBreak
  <2>2. \A j \in Keys : Holding(j)' => Holding(j)
    BY <2>1 DEF Holding
  <2> QED
    BY <1>1, <1>2, <1>3, <1>4, <2>1, <2>2 DEF Held, Holding
<1> QED
  BY <1>6, <1>7

LEMMA ResumeReleases ==
  ASSUME WorkTypeOK, Held, NEW k \in Keys, NEW d \in Drafts, Resumed(k, d)
  PROVE  Held' /\ breaks' \in [Keys -> [draft : Drafts, store : Stores, ended : BOOLEAN] \cup {NoRow}]
<1>1. /\ breaks \in [Keys -> [draft : Drafts, store : Stores, ended : BOOLEAN] \cup {NoRow}]
      /\ breaks[k] # NoRow /\ breaks[k].draft = d /\ Holding(k)
      /\ breaks' = [breaks EXCEPT ![k].ended = TRUE]
  BY DEF WorkTypeOK, Resumed, Holding
<1>2. /\ breaks[k] \in [draft : Drafts, store : Stores, ended : BOOLEAN]
      /\ breaks'[k] = [breaks[k] EXCEPT !.ended = TRUE]
      /\ \A j \in Keys \ {k} : breaks'[j] = breaks[j]
  BY <1>1
<1>3. /\ breaks'[k] \in [draft : Drafts, store : Stores, ended : BOOLEAN]
      /\ breaks'[k].draft = d /\ breaks'[k].ended
  BY <1>1, <1>2
<1>4. \A j \in Keys : Holding(j)' => j # k /\ Holding(j) /\ breaks'[j] = breaks[j]
  BY <1>2, <1>3 DEF Holding
<1>5. \A j \in Keys \ {k} : Holding(j) => breaks[j].draft # d
  BY <1>1 DEF Held
<1>6. drafts'[d] \in DraftRow /\ \A e \in Drafts \ {d} : drafts'[e] = drafts[e]
  BY DEF Resumed
<1>7. \A j \in Keys : breaks[j] # NoRow => breaks[j].draft \in Drafts
  BY <1>1
<1>8. \A j \in Keys : breaks'[j] # NoRow => drafts'[breaks'[j].draft] \in DraftRow
  BY <1>2, <1>3, <1>6, <1>7 DEF Held
<1>9. \A j \in Keys : Holding(j)' => drafts'[breaks'[j].draft].status = "ON_BREAK"
  BY <1>4, <1>5, <1>6, <1>7 DEF Held, Holding
<1>10. \A i \in Keys : \A j \in Keys \ {i} :
         Holding(i)' /\ Holding(j)' => breaks'[i].draft # breaks'[j].draft
  BY <1>4 DEF Held
<1>11. breaks' \in [Keys -> [draft : Drafts, store : Stores, ended : BOOLEAN] \cup {NoRow}]
  BY <1>1, <1>3
<1> QED
  BY <1>8, <1>9, <1>10, <1>11 DEF Held

LEMMA SaleHolds ==
  ASSUME WorkTypeOK, Held, NEW c \in Sales, NEW d \in Drafts, Sold(c, d)
  PROVE  Held'
<1>1. /\ drafts[d].status = "WORKING" /\ drafts'[d] \in DraftRow /\ breaks' = breaks
      /\ \A e \in Drafts \ {d} : drafts'[e] = drafts[e]
  BY DEF Sold
<1>2. \A j \in Keys : breaks[j] # NoRow => breaks[j].draft \in Drafts
  BY DEF WorkTypeOK
<1>3. \A j \in Keys : Holding(j)' <=> Holding(j)
  BY <1>1 DEF Holding
<1>4. \A j \in Keys : Holding(j) => breaks[j].draft # d
  BY <1>1 DEF Held
<1> QED
  BY <1>1, <1>2, <1>3, <1>4 DEF Held, Holding

LEMMA SameHolds ==
  ASSUME Held, UNCHANGED <<drafts, breaks>>
  PROVE  Held'
BY DEF Held, Holding

\* Saves, resumes and completing checkouts keep the invariant.
LEMMA SavesKeep ==
  ASSUME IInv, NEW k \in Keys, NEW d \in Drafts, Wrote(k, d)
  PROVE  IInv'
<1>1. WorkTypeOK /\ Sent /\ Begun /\ Held
  BY DEF IInv
<1>2. UNCHANGED <<sessions, requests, checkouts>> /\ drafts' \in [Drafts -> DraftRow \cup {NoRow}]
  BY DEF Wrote
<1>3. ViewsKept
  BY <1>1, <1>2 DEF ViewsKept, Sent
<1>4. Growing
  BY <1>1, WrittenGrow
<1>5. Sent'
  BY <1>1, <1>3, <1>4, SentStays
<1>6. Begun'
  BY <1>1, <1>2 DEF Begun
<1>7. Held' /\ WorkTypeOK'
  BY <1>1, <1>2, SavesHold DEF WorkTypeOK
<1> QED
  BY <1>5, <1>6, <1>7 DEF IInv

LEMMA ResumeKeeps ==
  ASSUME IInv, NEW k \in Keys, NEW d \in Drafts, Resumed(k, d)
  PROVE  IInv'
<1>1. WorkTypeOK /\ Sent /\ Begun /\ Held
  BY DEF IInv
<1>2. UNCHANGED <<sessions, requests, checkouts>> /\ drafts' \in [Drafts -> DraftRow \cup {NoRow}]
  BY DEF Resumed
<1>3. ViewsKept
  BY <1>1, <1>2 DEF ViewsKept, Sent
<1>4. Growing
  BY <1>1, WrittenGrow
<1>5. Sent'
  BY <1>1, <1>3, <1>4, SentStays
<1>6. Begun'
  BY <1>1, <1>2 DEF Begun
<1>7. Held' /\ WorkTypeOK'
  BY <1>1, <1>2, ResumeReleases DEF WorkTypeOK
<1> QED
  BY <1>5, <1>6, <1>7 DEF IInv

\* What a step of a checkout leaves of the sale requests: the same requests,
\* one of them in another phase.
Advanced(c, phase) ==
  /\ phase \in {"composed", "begun", "sold"}
  /\ checkouts[c] # NoRow
  /\ checkouts' = [f \in Sales |-> checkouts'[f]]
  /\ \A f \in Sales \ {c} : checkouts'[f] = checkouts[f]
  /\ checkouts'[c].phase = phase /\ checkouts'[c].view = checkouts[c].view

LEMMA AdvancedViews ==
  ASSUME WorkTypeOK, NEW c \in Sales, NEW phase, Advanced(c, phase), UNCHANGED requests
  PROVE  /\ ViewsKept
         /\ \A f \in Sales : checkouts'[f] # NoRow =>
              /\ checkouts'[f].view \in View
              /\ checkouts'[f].phase \in {"composed", "begun", "sold"}
<1>1. \A f \in Sales : checkouts'[f] # NoRow =>
        checkouts[f] # NoRow /\ checkouts'[f].view = checkouts[f].view
  BY DEF Advanced
<1>2. \A f \in Sales : checkouts'[f] # NoRow => checkouts'[f].phase \in {"composed", "begun", "sold"}
  BY DEF Advanced, WorkTypeOK
<1> QED
  BY <1>1, <1>2 DEF Advanced, ViewsKept, WorkTypeOK

LEMMA CommitKeeps ==
  ASSUME IInv, NEW c \in Sales, NEW x \in Sessions, CommitSale(c, x)
  PROVE  IInv'
<1>1. WorkTypeOK /\ Sent /\ Begun /\ Held
  BY DEF IInv
<1>2. /\ checkouts[c] # NoRow /\ checkouts' = [checkouts EXCEPT ![c].phase = "sold"]
      /\ UNCHANGED <<breaks, sessions, requests>>
  BY DEF CommitSale
<1>3. Advanced(c, "sold")
  <2>1. checkouts' = [checkouts EXCEPT ![c] = [checkouts[c] EXCEPT !.phase = "sold"]]
    BY <1>2
  <2>2. checkouts = [f \in Sales |-> checkouts[f]]
    BY <1>1 DEF Sent
  <2>3. \A f \in Sales \ {c} : checkouts'[f] = checkouts[f]
    BY <2>1, <2>2
  <2>4. checkouts'[c] = [checkouts[c] EXCEPT !.phase = "sold"]
    BY <2>1, <2>2
  <2>5. checkouts'[c].phase = "sold" /\ checkouts'[c].view = checkouts[c].view
    BY <2>4
  <2> QED
    BY <1>2, <2>1, <2>2, <2>3, <2>5 DEF Advanced
<1>4. ViewsKept /\ \A f \in Sales : checkouts'[f] # NoRow =>
        checkouts'[f].view \in View /\ checkouts'[f].phase \in {"composed", "begun", "sold"}
  BY <1>1, <1>2, <1>3, AdvancedViews
<1>5. Growing /\ Held'
  BY <1>1, <1>2, SaleCompletesDraft, WrittenGrow, SaleHolds, SameDraftsGrow, SameHolds
<1>6. Sent'
  BY <1>1, <1>4, <1>5, SentStays
<1>7. Begun'
  BY <1>1, <1>3 DEF Begun, Advanced
<1>8. WorkTypeOK'
  BY <1>1, <1>2, <1>4, <1>5 DEF WorkTypeOK, Growing
<1> QED
  BY <1>5, <1>6, <1>7, <1>8 DEF IInv

LEMMA BeginKeeps ==
  ASSUME IInv, NEW c \in Sales, BeginSale(c)
  PROVE  IInv'
<1>1. WorkTypeOK /\ Sent /\ Begun /\ Held
  BY DEF IInv
<1> DEFINE row == IF Current = NoRow THEN NoRow ELSE drafts[Current]
           sale == [checkouts[c] EXCEPT !.phase = "begun", !.seen = Current, !.row = row]
<1>2. /\ checkouts[c] # NoRow /\ checkouts[c].phase = "composed"
      /\ checkouts' = [checkouts EXCEPT ![c] = sale]
      /\ UNCHANGED <<drafts, breaks, sessions, requests>>
  BY DEF BeginSale
<1>3. checkouts = [f \in Sales |-> checkouts[f]]
  BY <1>1 DEF Sent
<1>4. sale.phase = "begun" /\ sale.view = checkouts[c].view /\ sale.seen = Current /\ sale.row = row
  OBVIOUS
<1> HIDE DEF sale
<1>5. checkouts'[c] = sale /\ \A f \in Sales \ {c} : checkouts'[f] = checkouts[f]
  BY <1>2, <1>3
<1>6. Advanced(c, "begun")
  BY <1>2, <1>3, <1>4, <1>5 DEF Advanced
<1>7. ViewsKept /\ \A f \in Sales : checkouts'[f] # NoRow =>
        checkouts'[f].view \in View /\ checkouts'[f].phase \in {"composed", "begun", "sold"}
  BY <1>1, <1>2, <1>6, AdvancedViews
<1>8. Growing /\ Held'
  BY <1>1, <1>2, SameDraftsGrow, SameHolds
<1>9. Sent'
  BY <1>1, <1>7, <1>8, SentStays
<1>10. Current # NoRow => /\ Current \in Drafts /\ row \in DraftRow
                          /\ row.status \in {"WORKING", "ON_BREAK"}
  BY <1>1, CurrentIsActive DEF WorkTypeOK
<1>11. Begun'
  <2> SUFFICES ASSUME NEW f \in Sales, checkouts'[f] # NoRow, checkouts'[f].phase = "begun",
                      checkouts'[f].seen # NoRow
               PROVE  /\ checkouts'[f].seen \in Drafts /\ checkouts'[f].row \in DraftRow
                      /\ checkouts'[f].row.status \in {"WORKING", "ON_BREAK"}
    BY DEF Begun
  <2> HIDE DEF row
  <2>1. CASE f = c
    BY <1>4, <1>5, <1>10, <2>1
  <2>2. CASE f # c
    BY <1>1, <1>5, <2>2 DEF Begun
  <2> QED
    BY <2>1, <2>2
<1>12. WorkTypeOK'
  BY <1>1, <1>2, <1>7 DEF WorkTypeOK
<1> QED
  BY <1>8, <1>9, <1>11, <1>12 DEF IInv

LEMMA AbortKeeps ==
  ASSUME IInv, NEW c \in Sales, AbortSale(c)
  PROVE  IInv'
<1>1. WorkTypeOK /\ Sent /\ Begun /\ Held
  BY DEF IInv
<1> DEFINE sale == [checkouts[c] EXCEPT !.phase = "composed", !.seen = NoRow, !.row = NoRow]
<1>2. /\ checkouts[c] # NoRow /\ checkouts' = [checkouts EXCEPT ![c] = sale]
      /\ UNCHANGED <<drafts, breaks, sessions, requests>>
  BY DEF AbortSale
<1>3. checkouts = [f \in Sales |-> checkouts[f]]
  BY <1>1 DEF Sent
<1>4. sale.phase = "composed" /\ sale.view = checkouts[c].view
  OBVIOUS
<1> HIDE DEF sale
<1>5. checkouts'[c] = sale /\ \A f \in Sales \ {c} : checkouts'[f] = checkouts[f]
  BY <1>2, <1>3
<1>6. Advanced(c, "composed")
  BY <1>2, <1>3, <1>4, <1>5 DEF Advanced
<1>7. ViewsKept /\ \A f \in Sales : checkouts'[f] # NoRow =>
        checkouts'[f].view \in View /\ checkouts'[f].phase \in {"composed", "begun", "sold"}
  BY <1>1, <1>2, <1>6, AdvancedViews
<1>8. Growing /\ Held'
  BY <1>1, <1>2, SameDraftsGrow, SameHolds
<1>9. Sent'
  BY <1>1, <1>7, <1>8, SentStays
<1>10. Begun'
  BY <1>1, <1>4, <1>5 DEF Begun
<1>11. WorkTypeOK'
  BY <1>1, <1>2, <1>7 DEF WorkTypeOK
<1> QED
  BY <1>8, <1>9, <1>10, <1>11 DEF IInv

LEMMA ComposeKeeps ==
  ASSUME IInv, NEW k \in Keys, NEW store \in Stores, NEW session \in Sessions \cup {NoRow},
         NEW snapshot \in Snapshots, NEW pause \in BOOLEAN, Compose(k, store, session, snapshot, pause)
  PROVE  IInv'
<1>1. WorkTypeOK /\ Sent /\ Begun /\ Held
  BY DEF IInv
<1> DEFINE request == [view |-> Shown, store |-> store, session |-> session,
                       snapshot |-> snapshot, pause |-> pause]
<1>2. /\ requests' = [requests EXCEPT ![k] = request]
      /\ UNCHANGED <<drafts, breaks, sessions, checkouts>>
  BY DEF Compose
<1>3. Shown \in View /\ Faithful(Shown)
  BY <1>1, ShownIsFaithful
<1>4. PICK view \in View : view = Shown
  BY <1>3
<1>5. /\ request.view = view /\ request.store = store /\ request.session = session
      /\ request.snapshot = snapshot
  BY <1>4
<1> HIDE DEF request
<1>6. /\ requests'[k] = request /\ \A j \in Keys \ {k} : requests'[j] = requests[j]
      /\ requests' = [j \in Keys |-> requests'[j]]
  BY <1>1, <1>2 DEF Sent
<1>7. \A j \in Keys : requests'[j] # NoRow =>
        requests'[j].session \in Sessions \cup {NoRow} /\ Faithful(requests[j].view)'
  <2>1. Faithful(view)
    BY <1>3, <1>4
  <2>2. ASSUME NEW j \in Keys, j # k, requests'[j] # NoRow
        PROVE  requests'[j].session \in Sessions \cup {NoRow} /\ Faithful(requests[j].view)'
    BY <1>1, <1>2, <1>6, <2>2 DEF Sent, Faithful
  <2>3. requests'[k].session \in Sessions \cup {NoRow} /\ Faithful(requests[k].view)'
    BY <1>2, <1>5, <1>6, <2>1 DEF Faithful
  <2> QED
    BY <2>2, <2>3
<1>8. Sent'
  BY <1>1, <1>2, <1>6, <1>7 DEF Sent, Faithful
<1>9. \A j \in Keys : requests'[j] # NoRow =>
        /\ requests'[j].view \in View
        /\ requests'[j].store \in Stores /\ requests'[j].snapshot \in Snapshots
  BY <1>1, <1>5, <1>6 DEF WorkTypeOK
<1>10. WorkTypeOK'
  BY <1>1, <1>2, <1>9 DEF WorkTypeOK
<1>11. Begun' /\ Held'
  BY <1>1, <1>2, SameHolds DEF Begun
<1> QED
  BY <1>8, <1>10, <1>11 DEF IInv

LEMMA ComposeSaleKeeps ==
  ASSUME IInv, NEW c \in Sales, NEW independent \in BOOLEAN, ComposeSale(c, independent)
  PROVE  IInv'
<1>1. WorkTypeOK /\ Sent /\ Begun /\ Held
  BY DEF IInv
<1> DEFINE shown == IF independent THEN Blank ELSE Shown
           sale == [phase |-> "composed", view |-> shown, independent |-> independent,
                    seen |-> NoRow, row |-> NoRow]
<1>2. /\ checkouts' = [checkouts EXCEPT ![c] = sale] /\ UNCHANGED <<drafts, breaks, sessions, requests>>
  BY DEF ComposeSale
<1>3. shown \in View /\ Faithful(shown)
  <2>1. CASE independent
    BY <2>1, BlankIsFaithful
  <2>2. CASE ~independent
    BY <1>1, <2>2, ShownIsFaithful
  <2> QED
    BY <2>1, <2>2
<1>4. PICK view \in View : view = shown
  BY <1>3
<1>5. sale.view = view /\ sale.phase = "composed"
  BY <1>4
<1> HIDE DEF sale
<1>6. /\ checkouts'[c] = sale /\ \A f \in Sales \ {c} : checkouts'[f] = checkouts[f]
      /\ checkouts' = [f \in Sales |-> checkouts'[f]]
  BY <1>1, <1>2 DEF Sent
<1>7. Faithful(view)
  BY <1>3, <1>4
<1>8. ASSUME NEW f \in Sales, checkouts'[f] # NoRow
      PROVE  Faithful(checkouts[f].view)'
  <2>1. CASE f = c
    BY <1>2, <1>5, <1>6, <1>7, <2>1 DEF Faithful
  <2>2. CASE f # c
    BY <1>1, <1>2, <1>6, <1>8, <2>2 DEF Sent, Faithful
  <2> QED
    BY <2>1, <2>2
<1>9. Sent'
  BY <1>1, <1>2, <1>6, <1>8 DEF Sent, Faithful
<1>10. \A f \in Sales : checkouts'[f] # NoRow =>
         checkouts'[f].view \in View /\ checkouts'[f].phase \in {"composed", "begun", "sold"}
  BY <1>1, <1>5, <1>6 DEF WorkTypeOK
<1>11. WorkTypeOK'
  BY <1>1, <1>2, <1>10 DEF WorkTypeOK
<1>12. Begun' /\ Held'
  BY <1>1, <1>2, <1>5, <1>6, SameHolds DEF Begun
<1> QED
  BY <1>9, <1>11, <1>12 DEF IInv

LEMMA RegisterStepKeeps ==
  ASSUME IInv, UNCHANGED <<drafts, breaks, requests, checkouts>>,
         sessions' \in [Sessions -> [store : Stores, closed : BOOLEAN] \cup {NoRow}]
  PROVE  IInv'
BY DEF IInv, WorkTypeOK, Sent, Begun, Held, Holding, Faithful

LEMMA InitEstablishes == WorkInit => IInv
BY DEF WorkInit, IInv, WorkTypeOK, Sent, Begun, Held, Holding

LEMMA StepKeeps == IInv /\ [WorkNext]_workVars => IInv'
<1> SUFFICES ASSUME IInv, [WorkNext]_workVars
             PROVE  IInv'
  OBVIOUS
<1>0. sessions \in [Sessions -> [store : Stores, closed : BOOLEAN] \cup {NoRow}]
  BY DEF IInv, WorkTypeOK
<1>1. ASSUME NEW k \in Keys, NEW store \in Stores, NEW session \in Sessions \cup {NoRow},
             NEW snapshot \in Snapshots, NEW pause \in BOOLEAN,
             Compose(k, store, session, snapshot, pause)
      PROVE  IInv'
  BY <1>1, ComposeKeeps
<1>2. ASSUME NEW k \in Keys, NEW d \in Drafts, CreateDraft(k, d) \/ SwitchStore(k, d)
      PROVE  IInv'
  BY <1>2, CreateDraftWrites, SwitchStoreWrites, SavesKeep
<1>3. ASSUME NEW k \in Keys, UpdateDraft(k)
      PROVE  IInv'
  BY <1>3, UpdateDraftWrites, SavesKeep
<1>4. ASSUME NEW k \in Keys, NEW named \in Sessions \cup {NoRow}, Resume(k, named)
      PROVE  IInv'
  BY <1>4, ResumeGivesBack, ResumeKeeps
<1>5. ASSUME NEW c \in Sales, NEW independent \in BOOLEAN, ComposeSale(c, independent)
      PROVE  IInv'
  BY <1>5, ComposeSaleKeeps
<1>6. ASSUME NEW c \in Sales, BeginSale(c) \/ AbortSale(c)
      PROVE  IInv'
  BY <1>6, BeginKeeps, AbortKeeps
<1>7. ASSUME NEW c \in Sales, NEW x \in Sessions, CommitSale(c, x)
      PROVE  IInv'
  BY <1>7, CommitKeeps
<1>8. ASSUME NEW x \in Sessions, NEW store \in Stores, OpenSession(x, store)
      PROVE  IInv'
  BY <1>0, <1>8, RegisterStepKeeps DEF OpenSession
<1>9. ASSUME NEW x \in Sessions, CloseSession(x)
      PROVE  IInv'
  <2>1. sessions[x] \in [store : Stores, closed : BOOLEAN]
    BY <1>0, <1>9 DEF CloseSession
  <2>2. [sessions[x] EXCEPT !.closed = TRUE] \in [store : Stores, closed : BOOLEAN]
    BY <2>1
  <2>3. sessions' \in [Sessions -> [store : Stores, closed : BOOLEAN] \cup {NoRow}]
    BY <1>0, <1>9, <2>2 DEF CloseSession
  <2> QED
    BY <1>9, <2>3, RegisterStepKeeps DEF CloseSession
<1>10. CASE UNCHANGED workVars
  BY <1>0, <1>10, RegisterStepKeeps DEF workVars
<1> QED
  BY <1>1, <1>2, <1>3, <1>4, <1>5, <1>6, <1>7, <1>8, <1>9, <1>10 DEF WorkNext

-----------------------------------------------------------------------------
(* What the invariant says of every step.                                  *)

\* A draft changes by a save, a resume or a completing checkout, never else.
LEMMA DraftsChangeBy ==
  ASSUME IInv, [WorkNext]_workVars
  PROVE  \/ UNCHANGED drafts
         \/ \E k \in Keys, d \in Drafts : Wrote(k, d)
         \/ \E k \in Keys, d \in Drafts : Resumed(k, d)
         \/ \E c \in Sales, d \in Drafts : Sold(c, d)
<1>1. CASE \/ UNCHANGED workVars
           \/ \E k \in Keys, store \in Stores, session \in Sessions \cup {NoRow},
                 snapshot \in Snapshots, pause \in BOOLEAN :
                Compose(k, store, session, snapshot, pause)
           \/ \E c \in Sales, independent \in BOOLEAN : ComposeSale(c, independent)
           \/ \E c \in Sales : BeginSale(c) \/ AbortSale(c)
           \/ \E x \in Sessions, store \in Stores : OpenSession(x, store)
           \/ \E x \in Sessions : CloseSession(x)
  BY <1>1 DEF workVars, Compose, ComposeSale, BeginSale, AbortSale, OpenSession, CloseSession
<1>2. CASE \/ \E k \in Keys, d \in Drafts : CreateDraft(k, d) \/ SwitchStore(k, d)
           \/ \E k \in Keys : UpdateDraft(k)
  BY <1>2, CreateDraftWrites, SwitchStoreWrites, UpdateDraftWrites
<1>3. CASE \E k \in Keys, named \in Sessions \cup {NoRow} : Resume(k, named)
  BY <1>3, ResumeGivesBack
<1>4. CASE \E c \in Sales, x \in Sessions : CommitSale(c, x)
  BY <1>4, SaleCompletesDraft
<1> QED
  BY <1>1, <1>2, <1>3, <1>4 DEF WorkNext

\* A draft, its row's type known, in one such step.
LEMMA RowIsTyped ==
  ASSUME IInv, NEW d \in Drafts, drafts[d] # NoRow
  PROVE  drafts[d] \in DraftRow
BY DEF IInv, WorkTypeOK

LEMMA SettledStep ==
  ASSUME IInv, [WorkNext]_workVars, NEW d \in Drafts, drafts[d] # NoRow,
         drafts[d].status \in {"COMPLETED", "ARCHIVED"}
  PROVE  drafts'[d] = drafts[d]
<1>1. ASSUME NEW k \in Keys, NEW e \in Drafts, Wrote(k, e)
      PROVE  drafts'[d] = drafts[d]
  BY <1>1 DEF Wrote
<1>2. ASSUME NEW k \in Keys, NEW e \in Drafts, Resumed(k, e)
      PROVE  drafts'[d] = drafts[d]
  BY <1>2 DEF Resumed
<1>3. ASSUME NEW c \in Sales, NEW e \in Drafts, Sold(c, e)
      PROVE  drafts'[d] = drafts[d]
  BY <1>3 DEF Sold
<1> QED
  BY <1>1, <1>2, <1>3, DraftsChangeBy

LEMMA PausedStep ==
  ASSUME IInv, [WorkNext]_workVars, NEW d \in Drafts, drafts[d] # NoRow,
         drafts[d].status = "ON_BREAK"
  PROVE  /\ drafts'[d].snapshot = drafts[d].snapshot /\ drafts'[d].store = drafts[d].store
         /\ drafts'[d].status \in {"ON_BREAK", "WORKING"}
<1> DEFINE Goal == /\ drafts'[d].snapshot = drafts[d].snapshot /\ drafts'[d].store = drafts[d].store
                   /\ drafts'[d].status \in {"ON_BREAK", "WORKING"}
<1>1. ASSUME NEW k \in Keys, NEW e \in Drafts, Wrote(k, e)
      PROVE  Goal
  <2>1. drafts'[d] = drafts[d]
    BY <1>1 DEF Wrote
  <2> QED
    BY <2>1
<1>2. ASSUME NEW k \in Keys, NEW e \in Drafts, Resumed(k, e)
      PROVE  Goal
  BY <1>2 DEF Resumed
<1>3. ASSUME NEW c \in Sales, NEW e \in Drafts, Sold(c, e)
      PROVE  Goal
  BY <1>3 DEF Sold
<1> QED
  BY <1>1, <1>2, <1>3, DraftsChangeBy

LEMMA EditStep ==
  ASSUME IInv, [WorkNext]_workVars, NEW d \in Drafts, drafts[d] # NoRow,
         drafts'[d].key # drafts[d].key
  PROVE  requests[drafts'[d].key].view =
           [draft |-> d, revision |-> drafts[d].revision, shown |-> drafts[d].snapshot]
<1>1. ASSUME NEW k \in Keys, NEW e \in Drafts, Resumed(k, e)
      PROVE  FALSE
  BY <1>1 DEF Resumed
<1>2. ASSUME NEW c \in Sales, NEW e \in Drafts, Sold(c, e)
      PROVE  FALSE
  BY <1>2 DEF Sold
<1>3. PICK k \in Keys, e \in Drafts : Wrote(k, e)
  BY <1>1, <1>2, DraftsChangeBy
<1>4. d = e
  <2>1. ASSUME d # e
        PROVE  drafts'[d].key = drafts[d].key
    <3>1. CASE drafts'[d] = drafts[d]
      BY <3>1
    <3>2. CASE drafts[d] \in DraftRow /\ drafts'[d] = [drafts[d] EXCEPT !.status = "ARCHIVED"]
      BY <3>2 DEF DraftRow
    <3> QED
      BY <1>3, <2>1, <3>1, <3>2 DEF Wrote
  <2> QED
    BY <2>1
<1>5. drafts'[d].key = k /\ UpToDate(requests[k].view, d) /\ requests[k] # NoRow
  BY <1>3, <1>4 DEF Wrote
<1>6. PICK view \in View : view = requests[k].view
  BY <1>5 DEF IInv, WorkTypeOK
<1>7. view.draft = d /\ view.revision = drafts[d].revision /\ Faithful(view)
  BY <1>5, <1>6 DEF UpToDate, IInv, Sent
<1>8. view.shown = drafts[d].snapshot
  BY <1>7, WorkAssumption DEF Faithful
<1>9. view = [draft |-> d, revision |-> drafts[d].revision, shown |-> drafts[d].snapshot]
  BY <1>7, <1>8 DEF View
<1> QED
  BY <1>5, <1>6, <1>9

\* The checkout that advances to "sold" is the one that commits.
LEMMA SoldStep ==
  ASSUME IInv, [WorkNext]_workVars, NEW c \in Sales, checkouts[c] # NoRow,
         checkouts[c].phase = "begun", checkouts'[c].phase = "sold"
  PROVE  \E x \in Sessions : CommitSale(c, x)
<1>1. checkouts = [f \in Sales |-> checkouts[f]] /\ checkouts'[c] # checkouts[c]
  BY DEF IInv, Sent
<1>2. ASSUME UNCHANGED checkouts
      PROVE  FALSE
  BY <1>1, <1>2
<1>3. ASSUME NEW f \in Sales, \E independent \in BOOLEAN : ComposeSale(f, independent)
      PROVE  FALSE
  <2>1. checkouts[f] = NoRow /\ f # c
    BY <1>3 DEF ComposeSale
  <2> QED
    BY <1>1, <1>3, <2>1 DEF ComposeSale
<1>4. ASSUME NEW f \in Sales, BeginSale(f)
      PROVE  FALSE
  <2>1. f # c
    BY <1>4 DEF BeginSale
  <2> QED
    BY <1>1, <1>4, <2>1 DEF BeginSale
<1>5. ASSUME NEW f \in Sales, AbortSale(f)
      PROVE  FALSE
  <2>1. CASE f = c
    <3>1. checkouts'[c] = [checkouts[c] EXCEPT !.phase = "composed", !.seen = NoRow, !.row = NoRow]
      BY <1>1, <1>5, <2>1 DEF AbortSale
    <3> QED
      BY <3>1
  <2>2. CASE f # c
    BY <1>1, <1>5, <2>2 DEF AbortSale
  <2> QED
    BY <2>1, <2>2
<1>6. ASSUME NEW f \in Sales, NEW x \in Sessions, CommitSale(f, x)
      PROVE  f = c
  BY <1>1, <1>6 DEF CommitSale
<1>7. \/ UNCHANGED checkouts
      \/ \E f \in Sales : \/ \E independent \in BOOLEAN : ComposeSale(f, independent)
                          \/ BeginSale(f) \/ AbortSale(f)
                          \/ \E x \in Sessions : CommitSale(f, x)
  BY DEF WorkNext, workVars, Compose, CreateDraft, UpdateDraft, SwitchStore, Resume,
         OpenSession, CloseSession
<1> QED
  BY <1>2, <1>3, <1>4, <1>5, <1>6, <1>7

LEMMA ShownStep ==
  ASSUME IInv, [WorkNext]_workVars, NEW c \in Sales, checkouts[c] # NoRow,
         checkouts[c].phase = "begun", checkouts'[c].phase = "sold",
         NEW d \in Drafts, drafts'[d] # drafts[d]
  PROVE  checkouts[c].view =
           [draft |-> d, revision |-> drafts[d].revision, shown |-> drafts[d].snapshot]
<1>1. PICK x \in Sessions : CommitSale(c, x)
  BY SoldStep
<1>2. PICK e \in Drafts : Sold(c, e)
  BY <1>1, SaleCompletesDraft
<1>3. d = e
  BY <1>2 DEF Sold
<1> QED
  BY <1>2, <1>3 DEF Sold
-----------------------------------------------------------------------------
THEOREM WorkInvariant == WorkSpec => []IInv
BY InitEstablishes, StepKeeps, PTL DEF WorkSpec

\* The tables of drafts, breaks and sessions keep their types, revisions and
\* statuses included.
THEOREM WorkTypes == WorkSpec => []WorkTypeOK
<1>1. IInv => WorkTypeOK
  BY DEF IInv
<1> QED
  BY <1>1, WorkInvariant, PTL

\* savePOSWork only replaces the bill its tab was showing, whatever requests
\* were delivered late, twice or out of order in between.
THEOREM EditsAreNotLost == WorkSpec => NoLostEdit
<1>1. IInv /\ [WorkNext]_workVars =>
        [\A d \in Drafts :
           drafts[d] # NoRow /\ drafts'[d].key # drafts[d].key =>
             requests[drafts'[d].key].view = [draft |-> d, revision |-> drafts[d].revision,
                                              shown |-> drafts[d].snapshot]]_workVars
  BY EditStep
<1> QED
  BY <1>1, WorkInvariant, PTL DEF WorkSpec, NoLostEdit

\* Nothing touches a draft that was sold or archived.
THEOREM SettledStaysSettled == WorkSpec => SettledDraftsFrozen
<1>1. IInv /\ [WorkNext]_workVars =>
        [\A d \in Drafts :
           drafts[d] # NoRow /\ drafts[d].status \in {"COMPLETED", "ARCHIVED"} =>
             drafts'[d] = drafts[d]]_workVars
  BY SettledStep
<1> QED
  BY <1>1, WorkInvariant, PTL DEF WorkSpec, SettledDraftsFrozen

\* A bill on break is given back by a resume as it was saved.
THEOREM BreaksKeepBills == WorkSpec => BreakKeepsBill
<1>1. IInv /\ [WorkNext]_workVars =>
        [\A d \in Drafts :
           drafts[d] # NoRow /\ drafts[d].status = "ON_BREAK" =>
             /\ drafts'[d].snapshot = drafts[d].snapshot /\ drafts'[d].store = drafts[d].store
             /\ drafts'[d].status \in {"ON_BREAK", "WORKING"}]_workVars
  BY PausedStep
<1> QED
  BY <1>1, WorkInvariant, PTL DEF WorkSpec, BreakKeepsBill

\* A checkout that completes a draft completes what its tab was showing, in
\* spite of a snapshot older than its lock.
THEOREM SalesAreAsShown == WorkSpec => SoldAsShown
<1>1. IInv /\ [WorkNext]_workVars =>
        [\A c \in Sales :
           checkouts[c] # NoRow /\ checkouts[c].phase = "begun" /\ checkouts'[c].phase = "sold" =>
             \A d \in Drafts : drafts'[d] # drafts[d] =>
               checkouts[c].view = [draft |-> d, revision |-> drafts[d].revision,
                                    shown |-> drafts[d].snapshot]]_workVars
  BY ShownStep
<1> QED
  BY <1>1, WorkInvariant, PTL DEF WorkSpec, SoldAsShown
=============================================================================
