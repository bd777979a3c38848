------------------------------- MODULE Login -------------------------------
(***************************************************************************)
(* What the registration promises its users: the title bar, the progress   *)
(* dialogs and whoever asks doRegister for a registration.                 *)
(*                                                                         *)
(* "view" is the state they are shown.  "busy" says that the terminal is   *)
(* at work: a thread is in login(), or an account waits for an answer.     *)
(* "quitting" says that a user is giving up: the cancellation was accepted *)
(* and is not shown yet.                                                   *)
(* Nothing is shown as in progress while nobody works on it, a result is   *)
(* shown only when there was work, and a terminal shown as registered is   *)
(* shown as unregistered only by a cancellation accepted before that: a    *)
(* result may come too late for the user who gives up, and is lost.        *)
(***************************************************************************)

VARIABLES view, busy, quitting

Init == view = "UNREGISTERED" /\ busy = FALSE /\ quitting = FALSE

\* A registration is taken up, whatever was shown before.
Begin == view' = "REGISTERING" /\ busy' = TRUE /\ UNCHANGED quitting

\* The terminal tries again by itself: nothing of it is shown.
Retry == busy' = TRUE /\ UNCHANGED <<view, quitting>>

\* A result; there may be more work.
Report ==
    /\ busy
    /\ view' \in {"SUCCESS", "ERROR"}
    /\ busy' \in BOOLEAN
    /\ UNCHANGED quitting

\* A result nobody is shown: the user has given up.
Ignore ==
    /\ view = "UNREGISTERED" /\ busy
    /\ busy' = FALSE
    /\ UNCHANGED <<view, quitting>>

\* The user gives up; a terminal shown as registered is left alone.
Quit ==
    /\ view # "SUCCESS" /\ ~quitting
    /\ quitting' = TRUE
    /\ UNCHANGED <<view, busy>>

\* It is shown, in place of whatever was shown since.
Cancel ==
    /\ quitting
    /\ quitting' = FALSE
    /\ view' = "UNREGISTERED"
    /\ UNCHANGED busy

Next == Begin \/ Retry \/ Report \/ Ignore \/ Quit \/ Cancel

Spec == Init /\ [][Next]_<<view, busy, quitting>>

=============================================================================
