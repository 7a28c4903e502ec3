---------------------------- MODULE MCLoginSystem ----------------------------
(***************************************************************************)
(* Instances of LoginSystem for TLC.  Three configurations: the defaults,  *)
(* which work, one whose shell never draws a frame (it hangs or exits) and *)
(* one whose compositor does not come up.                                  *)
(***************************************************************************)
EXTENDS LoginSystem

CONSTANTS default, noShell, noCompositor

MCAll == {default, noShell, noCompositor}
MCGood == {default}
MCCompositors == {default, noShell}

\* The stack as the first healthy login leaves it.
WithSafe == [active |-> default, prev |-> Absent, safe |-> default, snaps |-> {default}]

\* A configuration whose shell does not draw has been saved twice.
BadTwice == [active |-> noShell, prev |-> noShell, safe |-> default, snaps |-> {default}]

NoCall == {}
AllCalls == {"ReportCrash", "TriggerAutoRecovery", "RequestSafeMode",
             "RequestRecoveryPartition", "ClearRecoveryFlags"}
=============================================================================
