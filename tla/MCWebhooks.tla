----------------------------- MODULE MCWebhooks -----------------------------
(* Two scenes of the projection: a sale of three units with a second line, its *)
(* revisions, two refunds of which one is revised and cancelled, and an         *)
(* exchange; many logs and one worker at a time ("long"), or two logs and two   *)
(* workers ("wide"). Two scenes of the invoice pipeline: an invoice of two      *)
(* salesmen, its redelivery, its update, its cancellation and a delivery        *)
(* without an id; three of them ("deliveries"), or two while administrators     *)
(* review and settle ("reviews").                                               *)
EXTENDS HRMProjection, HRInvoice, TLC

CONSTANTS bill1, bill2, r1, r2, e, a, b,
          sold, shorter, conflict, void, ret1, more1, less1, ret2, swap, junk,
          w1, w2, MaxReceived,
          e1, e2, i1, i2, i3, opened, reopened, altered, dropped, unnamed, MaxDelivered

VARIABLE scene

Doc1(k, at, lines) == [key |-> k, at |-> at, cancelled |-> lines = <<>>, lines |-> lines]
Sold(qty, rev) == [qty |-> qty, rev |-> rev, of |-> NoLine]
Back(qty, of) == [qty |-> qty, rev |-> NoAmount, of |-> of]

MCContent ==
    (sold :> <<Doc1(bill1, 1, (a :> Sold(3, 10)) @@ (b :> Sold(1, 5)))>>)
    @@ (shorter :> <<Doc1(bill1, 2, a :> Sold(3, 10))>>)
    @@ (conflict :> <<Doc1(bill1, 2, a :> Sold(2, 7))>>)
    @@ (void :> <<Doc1(bill1, 0, <<>>)>>)
    @@ (ret1 :> <<Doc1(r1, 1, a :> Back(1, <<bill1, a>>))>>)
    @@ (more1 :> <<Doc1(r1, 2, a :> Back(2, <<bill1, a>>))>>)
    @@ (less1 :> <<Doc1(r1, 3, <<>>)>>)
    @@ (ret2 :> <<Doc1(r2, 1, a :> Back(1, <<bill1, a>>))>>)
    @@ (swap :> <<Doc1(e, 1, a :> Back(1, <<bill1, a>>)), Doc1(bill2, 1, a :> Sold(1, 8))>>)
    @@ (junk :> <<>>)

MCPolicies == {[type |-> "LINE", rate |-> 4], [type |-> "PERCENTAGE", rate |-> 50]}

Invoice1(id, type, share, void1) == [id |-> id, type |-> type, share |-> share, cancelled |-> void1]

MCPayload ==
    LET both == (e1 :> 2) @@ (e2 :> 1)
        first == Invoice1(i1, "INVOICE_CREATED", both, FALSE)
    IN (opened :> first) @@ (reopened :> first)
       @@ (altered :> Invoice1(i2, "INVOICE_UPDATED", e1 :> 3, FALSE))
       @@ (dropped :> Invoice1(i3, "INVOICE_UPDATED", both, TRUE))
       @@ (unnamed :> Invoice1(NoId, "INVOICE_CREATED", e1 :> 1, FALSE))

Busy == {h \in Workers : task[h] # Idle \/ batch[h] # {}}
Received == {l \in Logs : inbox[l] # "absent"}
Delivered == {d \in Deliveries : delivery[d].at # "out"}

Ended == {d \in Deliveries : delivery[d].at = "done"}

\* A log that is in the works of a worker.
InHand(l) == \E h \in Workers : task[h] # Idle /\ task[h].log = l

\* Receiving a log changes nothing a worker has begun, and of waiting logs any may
\* be next: "long" receives a log when all before it have been taken.
ProjectionBounds ==
    /\ Received' # {} => sold \in Received'
    /\ scene = "long" /\ Received' # Received =>
         Busy = {} /\ \A l \in Logs : inbox[l] # "received"
    /\ IF scene = "wide" THEN Cardinality(Received') <= 2
       ELSE /\ Cardinality(Received') <= MaxReceived /\ junk \notin Received'
            /\ Cardinality(Busy') <= 1
            /\ \A l \in Logs : inbox'[l] = "PENDING" => InHand(l)'

Projected == scene \in {"long", "wide"}
Administered == commission' # commission \/ settling' # settling
Landed == \E d \in Deliveries : ~delivery[d].applied /\ delivery'[d].applied

InvoiceBounds ==
    /\ Cardinality({x \in Employees : settling'[x]}) <= 1
    /\ IF scene = "reviews"
       THEN Cardinality(Delivered') <= 2 /\ unnamed \notin Delivered' /\ aged' = aged
       ELSE /\ dropped \notin Delivered'
            /\ Cardinality(Delivered') <= MaxDelivered /\ Cardinality(Delivered' \ Ended') <= 2
            /\ Administered => Landed
            /\ aged' # aged \/ configured' # configured => Delivered = Ended
            /\ \A d \in Deliveries : delivery'[d].at = "lock" => delivery'[d].share = Payload[d].share

MCInit ==
    /\ ProjectionInit /\ InvoiceInit
    /\ scene \in {"long", "wide", "deliveries", "reviews"}
    /\ IF Projected THEN ~configured ELSE policy = NoPolicy

MCNext ==
    /\ UNCHANGED scene
    /\ \/ /\ Projected
          /\ ProjectionNext
          /\ ProjectionBounds
          /\ policy = NoPolicy \/ policy' = policy
          /\ UNCHANGED invoiceVars
       \/ /\ ~Projected
          /\ InvoiceNext
          /\ InvoiceBounds
          /\ UNCHANGED projectionVars

MCSpec == MCInit /\ [][MCNext]_<<projectionVars, invoiceVars, scene>>
MCSymmetry == Permutations(Workers) \cup Permutations({opened, reopened})
=============================================================================
