----------------------------- MODULE MCArchive -----------------------------
(***************************************************************************)
(* Three requests on two days: a batch of two that spans both days, a day  *)
(* with two rows of which one may go, and a row left for a second batch.   *)
(***************************************************************************)
EXTENDS Archive

MCRequests == 1..3
MCDay == <<1, 1, 2>>
MCUnpriced == {2}
MCCutoffs == {2, 4}

AllJobs == {"serve", "run", "purge", "restore", "read"}
=============================================================================
