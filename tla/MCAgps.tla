------------------------------- MODULE MCAgps -------------------------------
(* Small instances of Agps. *)
EXTENDS Agps

Both(types) == [h \in Handles |-> types]
Only(types) == [h \in Handles |-> IF h = 1 THEN types ELSE {}]
Plain == [wants |-> Both({"SUPL"}), emergency |-> TRUE, hasty |-> FALSE, refuses |-> TRUE,
          loses |-> TRUE, calls |-> {"SUCCESS"}, init |-> {TRUE}]

\* connections of the framework, shared by both handles
Framework == [Plain EXCEPT !.wants = Both({"SUPL", "WWAN_ANY"})]
\* emergency connections over the framework: a subscriber waits for the end
NoPdn == [Plain EXCEPT !.wants = Both({"SUPL", "SUPL_ES"}), !.emergency = FALSE]
\* emergency connections of the modem, which is always free
Emergency == [Plain EXCEPT !.wants = Both({"SUPL_ES"}), !.init = BOOLEAN]
\* one handle, and a modem that is busy or has no emergency profile
Busy == [Plain EXCEPT !.wants = Only({"SUPL_ES", "WWAN_ANY"}), !.calls = Calls]
\* a modem that releases what was not answered yet
Hasty == [Framework EXCEPT !.wants = Both({"SUPL"}), !.loses = FALSE, !.hasty = TRUE]
HastyEmergency == [Busy EXCEPT !.wants = Only({"SUPL_ES"}), !.loses = FALSE, !.hasty = TRUE,
                               !.calls = {"SUCCESS", "UNSUPPORTED"}]
MCScenes == {Framework, NoPdn, Emergency, Busy, Hasty, HastyEmergency}
=============================================================================
