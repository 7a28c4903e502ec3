------------------------------ MODULE BootLedger ------------------------------
(***************************************************************************)
(* What the login stack promises about boots, whoever writes state.json:   *)
(* every boot is counted before anything of it runs; from Limit counted    *)
(* boots on only recovery is run; and the count goes back to zero only in  *)
(* a boot that has drawn a frame, or by a recovery session that ends.      *)
(* LoginSystem implements it as long as nobody forces safe mode.           *)
(***************************************************************************)
EXTENDS Naturals

CONSTANT Limit

VARIABLES
  tally,    \* the count in state.json
  stage,    \* idle, counted or running
  drew,     \* a frame was drawn in this boot
  kind      \* the mode of the session that is running

ledgerVars == <<tally, stage, drew, kind>>

Init ==
  /\ tally = 0
  /\ stage = "idle"
  /\ drew = FALSE
  /\ kind = "normal"

Count ==
  /\ stage = "idle"
  /\ stage' = "counted"
  /\ tally' = IF tally <= Limit THEN tally + 1 ELSE tally
  /\ drew' = FALSE
  /\ UNCHANGED kind

Choose ==
  /\ stage = "counted"
  /\ stage' = "running"
  /\ kind' \in {"normal", "safe", "recovery"}
  /\ tally >= Limit => kind' = "recovery"
  /\ UNCHANGED <<tally, drew>>

Draw ==
  /\ stage = "running"
  /\ drew' = TRUE
  /\ UNCHANGED <<tally, stage, kind>>

\* The boot has paid off.
Settle ==
  /\ stage = "running"
  /\ drew \/ kind = "recovery"
  /\ tally' = 0
  /\ UNCHANGED <<stage, drew, kind>>

\* The end of a recovery session can cross its confirmation: what is then saved
\* last is the count as it was loaded before.  The boot is counted after all.
Lapse ==
  /\ stage = "running" /\ kind = "recovery"
  /\ drew /\ tally = 0
  /\ tally' \in 1 .. Limit + 1
  /\ UNCHANGED <<stage, drew, kind>>

\* The session is over, or the machine is down: the count stays.
Leave ==
  /\ stage' = "idle"
  /\ UNCHANGED <<tally, drew, kind>>

Next == Count \/ Choose \/ Draw \/ Settle \/ Lapse \/ Leave

Spec == Init /\ [][Next]_ledgerVars
=============================================================================
