--------------------------- MODULE AsyncDelivery ----------------------------
(***************************************************************************)
(* What an asynchronous appender promises: an event accepted while it is   *)
(* open is delivered once, in the order of acceptance, and closing ends    *)
(* only after the whole backlog has been delivered.  An event that comes   *)
(* after the close is not promised anything (it is no step here).          *)
(***************************************************************************)
EXTENDS Sequences

CONSTANT Events

VARIABLES backlog,    \* accepted and not yet delivered, oldest first
          delivered,  \* delivered, in order
          door        \* "open", "closing" or "closed"

deliveryVars == <<backlog, delivered, door>>

DeliveryInit == backlog = <<>> /\ delivered = <<>> /\ door = "open"

Accept(e) ==
  /\ door = "open"
  /\ backlog' = Append(backlog, e)
  /\ UNCHANGED <<delivered, door>>

Deliver ==
  /\ door # "closed"
  /\ backlog # <<>>
  /\ delivered' = Append(delivered, Head(backlog))
  /\ backlog' = Tail(backlog)
  /\ UNCHANGED door

Close ==
  /\ door = "open"
  /\ door' = "closing"
  /\ UNCHANGED <<backlog, delivered>>

Finish ==
  /\ door = "closing"
  /\ backlog = <<>>
  /\ door' = "closed"
  /\ UNCHANGED <<backlog, delivered>>

DeliveryNext == (\E e \in Events : Accept(e)) \/ Deliver \/ Close \/ Finish

DeliverySpec == DeliveryInit /\ [][DeliveryNext]_deliveryVars
=============================================================================
