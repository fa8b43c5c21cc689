---------------------------- MODULE MCCronService ----------------------------
(* Small instances of CronService for TLC. *)
EXTENDS CronServiceProperties, TLC

CONSTANTS j1, j2

MCKinds == {j1 :> "at" @@ j2 :> "cron", j1 :> "every" @@ j2 :> "at"}
MCOneShot == {j1 :> "at"}

MCBackoff == <<1, 2>>
=============================================================================
