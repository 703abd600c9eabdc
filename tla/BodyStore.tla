----------------------------- MODULE BodyStore -----------------------------
(***************************************************************************)
(* What body archival promises of every captured body, whatever moves it:  *)
(* "archive copy first, hot NULL last", and the mirror of it on restore.   *)
(* A body is in the hot row, in a day file, or in both; it goes from one   *)
(* to the other only by way of both, and only a purge takes the last copy. *)
(***************************************************************************)
EXTENDS Naturals

CONSTANT Requests

VARIABLES
  copies,  \* where each request's body can be read from
  purged   \* requests that were deleted

storeVars == <<copies, purged>>

Sides == {"hot", "cold"}

StoreInit ==
  /\ copies = [r \in Requests |-> {"hot"}]
  /\ purged = {}

\* Bodies are copied, or lose a copy that was not the only one.
Move ==
  /\ purged' = purged
  /\ copies' \in [Requests -> SUBSET Sides]
  /\ \A r \in Requests \ purged :
       /\ copies'[r] # {}
       /\ copies'[r] # copies[r] => Sides \in {copies[r], copies'[r]}
  /\ \A r \in purged : "hot" \notin copies'[r]

\* The rows are deleted; what a day file holds of them goes later.
Purge ==
  \E S \in SUBSET (Requests \ purged) :
    /\ purged' = purged \cup S
    /\ copies' = [r \in Requests |-> IF r \in S THEN copies[r] \ {"hot"} ELSE copies[r]]

StoreNext == Move \/ Purge

StoreSpec == StoreInit /\ [][StoreNext]_storeVars
=============================================================================
