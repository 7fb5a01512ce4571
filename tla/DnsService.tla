----------------------------- MODULE DnsService -----------------------------
(***************************************************************************)
(* What the engine counts on when it calls the DNS manager: one call at a  *)
(* time brings the servers file to what it asks for, at some moment before *)
(* it returns; a call that fails, or whose caller dies, may have done so   *)
(* or not; a call that returns no error has.  Dnsmasq and Engine implement *)
(* it from the two sides of the call.                                      *)
(***************************************************************************)
CONSTANTS
  Contents,  \* what the servers file may hold
  Nothing    \* there is no servers file, which Cleanup asks for

VARIABLES
  conf,   \* the servers file
  want,   \* what the call under way asks for
  state   \* "none", "busy", or how the call has ended: "ok", "failed"

serviceVars == <<conf, want, state>>

ServiceInit == state = "none" /\ conf = Nothing

\* Apply or Cleanup is called.
Ask ==
  /\ state = "none" /\ state' = "busy"
  /\ want' \in Contents \cup {Nothing}
  /\ UNCHANGED conf

\* The file is replaced or removed in one step.
Replace ==
  /\ state = "busy" /\ conf' = want
  /\ UNCHANGED <<want, state>>

\* The call returns; without an error the file is as asked.
End ==
  /\ state = "busy"
  /\ conf' \in {conf, want}
  /\ \/ state' = "failed"
     \/ state' = "ok" /\ conf' = want
  /\ UNCHANGED want

\* The caller takes the result, or dies with the file replaced or not.
Leave ==
  /\ state # "none" /\ state' = "none"
  /\ conf' \in IF state = "busy" THEN {conf, want} ELSE {conf}

ServiceNext == Ask \/ Replace \/ End \/ Leave

ServiceSpec == ServiceInit /\ [][ServiceNext]_serviceVars
=============================================================================
