----------------------------- MODULE EventStream -----------------------------
(***************************************************************************)
(* What an event-socket handle promises its user about events: each event  *)
(* the server publishes is handed over at most once, in the order of       *)
(* publication and without a gap, until the handle is closed.              *)
(***************************************************************************)
EXTENDS Naturals, Sequences

VARIABLES
  published,   \* number of events published; event n is the n-th
  delivered,   \* the events handed to the user, in order
  open

streamVars == <<published, delivered, open>>

StreamInit == published = 0 /\ delivered = <<>> /\ open = TRUE

Publish == published' = published + 1 /\ UNCHANGED <<delivered, open>>

Deliver ==
  /\ open
  /\ Len(delivered) < published
  /\ delivered' = Append(delivered, Len(delivered) + 1)
  /\ UNCHANGED <<published, open>>

Close == open /\ open' = FALSE /\ UNCHANGED <<published, delivered>>

StreamNext == Publish \/ Deliver \/ Close

StreamSpec == StreamInit /\ [][StreamNext]_streamVars
=============================================================================
