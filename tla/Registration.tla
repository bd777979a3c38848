---------------------------- MODULE Registration ----------------------------
(***************************************************************************)
(* Registration with the server.                                           *)
(*                                                                         *)
(* Three kinds of threads meet here: the main thread starts registrations, *)
(* shows alerts and progress dialogs; each registration is a RegisterThread*)
(* of its own, which calls the native login(); the one pjsua worker thread *)
(* runs timers and the callbacks of REGISTER transactions.                 *)
(* login() deletes every account, which unregisters it, and adds a new     *)
(* one, which registers it: an UNREGISTER and a REGISTER of one contact    *)
(* are on their way together.  The global "registering" is there to        *)
(* register again when the UNREGISTER turns out to have come last.         *)
(***************************************************************************)
EXTENDS Integers, Sequences, FiniteSets

CONSTANTS
    Threads,    \* RegisterThreads that may run at the same time
    Slots,      \* number of account slots of pjsua (PJSUA_MAX_ACC)
    Tsx,        \* REGISTER transactions that may be pending together
    Kinds,      \* answers to a REGISTER: see Answers
    BadSettings, \* the settings may not make an account
    Reorder,    \* an answer may overtake an earlier one
    Refreshing, \* registrations live long enough to be refreshed
    Events,     \* what users, other members and failing calls may do
    MaxEvents   \* bound on how often they do it

Answers == {"ok",        \* 200
            "special",   \* 408, 503, 504: retried natively and by AlertActivity
            "temporary", \* 403, 500, 502, 6xx: retried natively
            "refused"}   \* any other code

ASSUME SlotsAssumption == Slots \in Nat \ {0}
ASSUME KindsAssumption == Kinds \subseteq Answers
ASSUME BadSettingsAssumption == BadSettings \in BOOLEAN
ASSUME ReorderAssumption == Reorder \in BOOLEAN
ASSUME RefreshingAssumption == Refreshing \in BOOLEAN
ASSUME EventsAssumption ==
    Events \subseteq {"register", "settings", "member", "call", "resume"}
ASSUME MaxEventsAssumption == MaxEvents \in Nat

Gone == -1              \* the owner of a transaction whose account is deleted
Slot == 0 .. Slots - 1

Codes == Answers \cup {"none", "other"}

VARIABLES
    login,       \* StateManager.currentRegisterState
    starter,     \* StateManager.regStarter
    thr,         \* where each RegisterThread is
    at,          \* the account slot a thread is looking at
    acc,         \* account slots: free, or the state of their regc
    retry,       \* accounts whose auto_rereg timer is running
    dflt,        \* pjsua_var.default_acc
    registering, \* the global of pjsua_app.c
    worker,      \* where the worker thread is in regc_tsx_callback
    tsx,         \* REGISTER transactions
    replies,     \* transactions whose answer has not been handled yet
    bound,       \* the server holds a binding for the contact
    sick,        \* the server may still refuse or lose requests
    starting,    \* code of an AlertActivity that was started, not resumed yet
    shown,       \* code of the AlertActivity on the screen
    odd,         \* AlertActivity.count is odd
    settings,    \* a settings screen is open
    dialog,      \* the progress dialog of a registration, and its onCancel
    events       \* events left

ui == <<starting, shown, settings, dialog>>
vars == <<login, starter, thr, at, acc, retry, dflt, registering, worker, tsx,
          replies, bound, sick, ui, odd, events>>

Free == [owner |-> Gone, op |-> "reg", st |-> "free"]

Transaction == [owner : Slot \cup {Gone}, op : {"reg", "unreg"},
                st : {"free", "sent"} \cup Answers]

TypeOK ==
    /\ login \in {"UNREGISTERED", "REGISTERING", "SUCCESS", "ERROR"}
    /\ starter \in {"USER", "ERRORCODE"}
    /\ thr \in [Threads -> {"off", "check", "set", "clear", "mark", "add",
                            "send", "fail"}]
    /\ at \in [Threads -> 0 .. Slots]
    /\ acc \in [Slot -> {"free", "none", "idle", "busy"}]
    /\ retry \subseteq Slot
    /\ dflt \in Slot
    /\ registering \in 0 .. 2
    /\ worker \in {"idle", "resend", "reset"}
    /\ tsx \in [Tsx -> Transaction]
    /\ replies \in Seq(Tsx)
    /\ {bound, sick, odd, settings} \subseteq BOOLEAN
    /\ {starting, shown} \subseteq Codes
    /\ dialog \in {"none", "shown", "done", "cancelling"}
    /\ events \in 0 .. MaxEvents

\* The service is up and the native stack initialised; ACTION_INIT is about
\* to start the first registration.
Init ==
    /\ login = "UNREGISTERED"
    /\ starter = "USER"
    /\ thr \in {[t \in Threads |-> IF t = first THEN "check" ELSE "off"] :
                first \in Threads}
    /\ at = [t \in Threads |-> 0]
    /\ acc = [i \in Slot |-> "free"]
    /\ retry = {}
    /\ dflt = 0
    /\ registering = 0
    /\ worker = "idle"
    /\ tsx = [x \in Tsx |-> Free]
    /\ replies = <<>>
    /\ bound = FALSE
    /\ sick = TRUE
    /\ starting = "none"
    /\ shown = "none"
    /\ odd = TRUE
    /\ settings = FALSE
    /\ dialog = "none"
    /\ events = MaxEvents

-----------------------------------------------------------------------------
(* Native accounts *)

\* pjsip_regc_send with a regc that has no transaction: x carries the request.
Request(x, i, op) ==
    /\ tsx[x].st = "free"
    /\ tsx' = [tsx EXCEPT ![x] = [owner |-> i, op |-> op, st |-> "sent"]]

\* pjsua_acc_set_registration(i, PJ_TRUE).  No account: PJ_EINVALIDOP.  The
\* retry timer is cancelled first; then a busy regc answers PJSIP_EBUSY.
Register(i) ==
    IF acc[i] = "free" THEN UNCHANGED <<acc, retry, tsx>>
    ELSE /\ retry' = retry \ {i}
         /\ IF acc[i] = "busy" THEN UNCHANGED <<acc, tsx>>
            ELSE /\ acc' = [acc EXCEPT ![i] = "busy"]
                 /\ \E x \in Tsx : Request(x, i, "reg")

\* Variant for mutation: the pending transaction still belongs to the slot.
pjsua_acc_del_owned(i) ==
    /\ acc' = [acc EXCEPT ![i] = "free"]
    /\ retry' = retry \ {i}
    /\ IF acc[i] = "idle" THEN \E x \in Tsx : Request(x, Gone, "unreg")
       ELSE UNCHANGED tsx

\* pjsua_acc_del: a registered account is unregistered; a regc with a
\* transaction cannot send (PJSIP_EBUSY) and only loses its callback.
pjsua_acc_del(i) ==
    /\ acc' = [acc EXCEPT ![i] = "free"]
    /\ retry' = retry \ {i}
    /\ CASE acc[i] = "idle" -> \E x \in Tsx : Request(x, Gone, "unreg")
         [] acc[i] = "busy" ->
              tsx' = [x \in Tsx |-> IF tsx[x].st # "free" /\ tsx[x].owner = i
                                    THEN [tsx[x] EXCEPT !.owner = Gone]
                                    ELSE tsx[x]]
         [] OTHER -> UNCHANGED tsx

-----------------------------------------------------------------------------
(* RegisterThread *)

\* PTTService.handleRegister: a new RegisterThread.
StartThread ==
    \E t \in Threads : thr[t] = "off" /\ thr' = [thr EXCEPT ![t] = "check"]

\* doRegister returns while a registration is in progress.
CheckState(t) ==
    /\ thr[t] = "check"
    /\ thr' = [thr EXCEPT ![t] = IF login = "REGISTERING" THEN "off" ELSE "set"]
    /\ UNCHANGED <<login, starter, at, acc, retry, dflt, registering, worker,
                   tsx, replies, bound, sick, ui, odd, events>>

SetRegistering(t) ==
    /\ thr[t] = "set"
    /\ login' = "REGISTERING"
    /\ thr' = [thr EXCEPT ![t] = "clear"]
    /\ at' = [at EXCEPT ![t] = 0]
    /\ UNCHANGED <<starter, acc, retry, dflt, registering, worker, tsx,
                   replies, bound, sick, ui, odd, events>>

\* Variant for mutation: the loop starts with account 1.
ClearAccounts_skip(t) ==
    /\ thr[t] = "clear"
    /\ IF at[t] = Slots
       THEN /\ thr' = [thr EXCEPT ![t] = "mark"]
            /\ UNCHANGED <<at, acc, retry, dflt, tsx>>
       ELSE /\ at' = [at EXCEPT ![t] = @ + 1]
            /\ IF at[t] = 0 \/ acc[at[t]] = "free"
               THEN UNCHANGED <<acc, retry, dflt, tsx>>
               ELSE /\ pjsua_acc_del(at[t])
                    /\ dflt' = IF dflt = at[t] THEN 0 ELSE dflt
            /\ UNCHANGED thr
    /\ UNCHANGED <<login, starter, registering, worker, replies, bound, sick,
                   ui, odd, events>>

\* pjsua_acc_clear: one account after the other, each under its own lock.
ClearAccounts(t) ==
    /\ thr[t] = "clear"
    /\ IF at[t] = Slots
       THEN /\ thr' = [thr EXCEPT ![t] = "mark"]
            /\ UNCHANGED <<at, acc, retry, dflt, tsx>>
       ELSE /\ at' = [at EXCEPT ![t] = @ + 1]
            /\ IF acc[at[t]] = "free" THEN UNCHANGED <<acc, retry, dflt, tsx>>
               ELSE /\ pjsua_acc_del(at[t])
                    /\ dflt' = IF dflt = at[t] THEN 0 ELSE dflt
            /\ UNCHANGED thr
    /\ UNCHANGED <<login, starter, registering, worker, replies, bound, sick,
                   ui, odd, events>>

\* Variant for mutation: a counter of logins in place of a flag.
MarkRegistering_count(t) ==
    /\ thr[t] = "mark"
    /\ registering' = registering + 1
    /\ thr' = [thr EXCEPT ![t] = "add"]
    /\ UNCHANGED <<login, starter, at, acc, retry, dflt, worker, tsx, replies,
                   bound, sick, ui, odd, events>>

MarkRegistering(t) ==
    /\ thr[t] = "mark"
    /\ registering' = 1
    /\ thr' = [thr EXCEPT ![t] = "add"]
    /\ UNCHANGED <<login, starter, at, acc, retry, dflt, worker, tsx, replies,
                   bound, sick, ui, odd, events>>

\* pjsua_acc_add takes the first free slot and makes it the default; it fails
\* without a slot, or when the settings make no account (initialize_acc).
AddAccount(t) ==
    /\ thr[t] = "add"
    /\ \/ \E i \in Slot :
            /\ acc[i] = "free"
            /\ \A j \in 0 .. i - 1 : acc[j] # "free"
            /\ acc' = [acc EXCEPT ![i] = "none"]
            /\ dflt' = i
            /\ at' = [at EXCEPT ![t] = i]
            /\ thr' = [thr EXCEPT ![t] = "send"]
       \/ /\ BadSettings \/ \A i \in Slot : acc[i] # "free"
          /\ thr' = [thr EXCEPT ![t] = "fail"]
          /\ UNCHANGED <<acc, dflt, at>>
    /\ UNCHANGED <<login, starter, retry, registering, worker, tsx, replies,
                   bound, sick, ui, odd, events>>

\* The last step of pjsua_acc_add, outside its lock; its result is not used.
SendRegister(t) ==
    /\ thr[t] = "send"
    /\ Register(at[t])
    /\ thr' = [thr EXCEPT ![t] = "off"]
    /\ UNCHANGED <<login, starter, at, dflt, registering, worker, replies,
                   bound, sick, ui, odd, events>>

-----------------------------------------------------------------------------
(* Results *)

\* PTTUtil.regErrorAlert: the settings screen hides the errors of
\* registrations the user did not ask for.
regErrorAlert(code) ==
    starting' = IF starter = "USER" \/ ~settings THEN code ELSE starting

\* The ACTION_REGISTER broadcast reaches the screen that shows the dialog.
Broadcast == dialog' = IF dialog = "shown" THEN "done" ELSE dialog

\* doRegister after login() failed.
LoginFailed(t) ==
    /\ thr[t] = "fail"
    /\ regErrorAlert("other")
    /\ login' = "ERROR"
    /\ Broadcast
    /\ thr' = [thr EXCEPT ![t] = "off"]
    /\ UNCHANGED <<starter, at, acc, retry, dflt, registering, worker, tsx,
                   replies, bound, sick, shown, settings, odd, events>>

\* Variant for mutation: an error is ignored unless it ends a registration.
showLoginState_deaf(code) ==
    CASE code = "ok" ->
           /\ login' = "SUCCESS"
           /\ shown' = "none"
           /\ odd' = TRUE
           /\ Broadcast
           /\ UNCHANGED starting
      [] code # "ok" /\ login # "SUCCESS" ->
           UNCHANGED <<login, shown, odd, dialog, starting>>
      [] OTHER ->
           /\ login' = "ERROR"
           /\ regErrorAlert(code)
           /\ Broadcast
           /\ UNCHANGED <<shown, odd>>

\* JniCallback.showLoginState and PTTService.JNIUpdateRegisterState.
showLoginState(code) ==
    CASE code = "ok" ->
           /\ login' = "SUCCESS"
           /\ shown' = "none"
           /\ odd' = TRUE
           /\ Broadcast
           /\ UNCHANGED starting
      [] code # "ok" /\ login = "UNREGISTERED" ->
           UNCHANGED <<login, shown, odd, dialog, starting>>
      [] OTHER ->
           /\ login' = "ERROR"
           /\ regErrorAlert(code)
           /\ Broadcast
           /\ UNCHANGED <<shown, odd>>

\* The next answer the worker thread handles.
NextReply(x) ==
    /\ worker = "idle"
    /\ \E k \in 1 .. Len(replies) :
          /\ replies[k] = x
          /\ k = 1 \/ Reorder
          /\ replies' = [n \in 1 .. Len(replies) - 1 |->
                            IF n < k THEN replies[n] ELSE replies[n + 1]]

\* regc_tsx_callback and regc_cb for an account that is still there.
regc_cb(x) ==
    /\ NextReply(x)
    /\ tsx[x].owner # Gone
    /\ LET i == tsx[x].owner
           k == tsx[x].st
       IN  /\ registering' = 0
           /\ acc' = [acc EXCEPT ![i] = IF k = "ok" THEN "idle" ELSE "none"]
           /\ retry' = IF k \in {"special", "temporary"}
                       THEN retry \cup {i} ELSE retry
           /\ showLoginState(k)
    /\ tsx' = [tsx EXCEPT ![x] = Free]
    /\ UNCHANGED <<starter, thr, at, dflt, worker, bound, sick, settings, events>>

\* regc_tsx_callback for a regc that was destroyed meanwhile.
DeletedRegcAnswered(x) ==
    /\ NextReply(x)
    /\ tsx[x].owner = Gone
    /\ tsx' = [tsx EXCEPT ![x] = Free]
    /\ IF registering = 0
       THEN registering' = 2 /\ worker' = "resend"
       ELSE UNCHANGED <<registering, worker>>
    /\ UNCHANGED <<login, starter, thr, at, acc, retry, dflt, bound, sick, ui,
                   odd, events>>

\* Variant for mutation: nothing is registered again.
RegisterAgain_not ==
    /\ worker = "resend"
    /\ worker' = "reset"
    /\ UNCHANGED <<acc, retry, tsx>>
    /\ UNCHANGED <<login, starter, thr, at, dflt, registering, replies, bound,
                   sick, ui, odd, events>>

\* The end of regc_tsx_callback; login() may have set registering again.
RegisterAgain ==
    /\ worker = "resend"
    /\ IF registering = 2
       THEN Register(dflt) /\ worker' = "reset"
       ELSE worker' = "idle" /\ UNCHANGED <<acc, retry, tsx>>
    /\ UNCHANGED <<login, starter, thr, at, dflt, registering, replies, bound,
                   sick, ui, odd, events>>

ResetRegistering ==
    /\ worker = "reset"
    /\ registering' = 0
    /\ worker' = "idle"
    /\ UNCHANGED <<login, starter, thr, at, acc, retry, dflt, tsx, replies,
                   bound, sick, ui, odd, events>>

\* Variant for mutation: the failed regc, which is gone, is asked for.
RetryTimer_registered(i) ==
    /\ worker = "idle"
    /\ i \in retry
    /\ acc[i] = "idle"
    /\ Register(i)
    /\ UNCHANGED <<login, starter, thr, at, dflt, registering, worker, replies,
                   bound, sick, ui, odd, events>>

\* auto_rereg_timer_cb: an account whose registration failed tries again.  Every
\* request stops the timer, so that the regc is never busy when it fires and
\* the rescheduling after a PJSIP_EBUSY is not reached.
RetryTimer(i) ==
    /\ worker = "idle"
    /\ i \in retry
    /\ Register(i)
    /\ UNCHANGED <<login, starter, thr, at, dflt, registering, worker, replies,
                   bound, sick, ui, odd, events>>

\* regc_refresh_timer_cb.  It comes 295 s after the last answer
\* (PTT_REG_INTERVAL), when older transactions have ended (33 s).
RefreshTimer(i) ==
    /\ Refreshing
    /\ worker = "idle"
    /\ acc[i] = "idle"
    /\ \A x \in Tsx : tsx[x].st # "free" => tsx[x].owner # Gone
    /\ Register(i)
    /\ UNCHANGED <<login, starter, thr, at, dflt, registering, worker, replies,
                   bound, sick, ui, odd, events>>

-----------------------------------------------------------------------------
(* The server and the network *)

\* The server handles a request, or the request times out (408, "special"):
\* then the server may have handled it or not.
Answer(x, k) ==
    /\ tsx[x].st = "sent"
    /\ k \in Kinds
    /\ sick \/ k = "ok"
    /\ tsx' = [tsx EXCEPT ![x].st = k]
    /\ CASE k = "ok" -> bound' = (tsx[x].op = "reg")
         [] k = "special" -> bound' \in {bound, tsx[x].op = "reg"}
         [] OTHER -> UNCHANGED bound
    /\ replies' = Append(replies, x)
    /\ UNCHANGED <<login, starter, thr, at, acc, retry, dflt, registering,
                   worker, sick, ui, odd, events>>

Recover ==
    /\ sick
    /\ sick' = FALSE
    /\ UNCHANGED <<login, starter, thr, at, acc, retry, dflt, registering,
                   worker, tsx, replies, bound, ui, odd, events>>

-----------------------------------------------------------------------------
(* The main thread: screens, alerts, other users *)

Spend(e) == e \in Events /\ events > 0 /\ events' = events - 1

\* The main thread is inside onCancel, between its test and its write.
Quitting == dialog = "cancelling"

MainIdle == ~Quitting

\* MainPageActivity.doRegister, from the menu or after ACTION_INIT.
MainPageRegister ==
    /\ Spend("register") /\ MainIdle
    /\ login # "SUCCESS"
    /\ starter' = "USER"
    /\ dialog' = "shown"
    /\ StartThread
    /\ UNCHANGED <<login, at, acc, retry, dflt, registering, worker, tsx,
                   replies, bound, sick, starting, shown, settings, odd>>

\* SettingDetailActivity.doReregister.
SettingsReregister ==
    /\ Spend("settings") /\ MainIdle
    /\ settings
    /\ starter' = "USER"
    /\ dialog' = "shown"
    /\ StartThread
    /\ UNCHANGED <<login, at, acc, retry, dflt, registering, worker, tsx,
                   replies, bound, sick, starting, shown, settings, odd>>

\* Variant for mutation: a result that came before the cancellation is lost.
CancelDialog_any ==
    /\ dialog \in {"shown", "done"}
    /\ dialog' = "cancelling"
    /\ UNCHANGED <<login, starter, thr, at, acc, retry, dflt, registering,
                   worker, tsx, replies, bound, sick, starting, shown,
                   settings, odd, events>>

\* onCancel of the progress dialog tests the state and then writes it: the
\* other threads run between the two.
CancelDialog ==
    /\ dialog \in {"shown", "done"}
    /\ dialog' = IF login = "SUCCESS" THEN "none" ELSE "cancelling"
    /\ UNCHANGED <<login, starter, thr, at, acc, retry, dflt, registering,
                   worker, tsx, replies, bound, sick, starting, shown,
                   settings, odd, events>>

\* Only the state on display changes, whatever has become of it meanwhile.
SetUnregistered ==
    /\ Quitting
    /\ dialog' = "none"
    /\ login' = "UNREGISTERED"
    /\ UNCHANGED <<starter, thr, at, acc, retry, dflt, registering, worker,
                   tsx, replies, bound, sick, starting, shown, settings, odd,
                   events>>

DismissDialog ==
    /\ dialog = "done"
    /\ dialog' = "none"
    /\ UNCHANGED <<login, starter, thr, at, acc, retry, dflt, registering,
                   worker, tsx, replies, bound, sick, starting, shown,
                   settings, odd, events>>

OpenSettings ==
    /\ "settings" \in Events /\ MainIdle
    /\ ~settings
    /\ settings' = TRUE
    /\ UNCHANGED <<login, starter, thr, at, acc, retry, dflt, registering,
                   worker, tsx, replies, bound, sick, starting, shown, dialog,
                   odd, events>>

CloseSettings ==
    /\ settings /\ MainIdle
    /\ settings' = FALSE
    /\ UNCHANGED <<login, starter, thr, at, acc, retry, dflt, registering,
                   worker, tsx, replies, bound, sick, starting, shown, dialog,
                   odd, events>>

\* JNIReceiveMemberStateChange: every terminal is told to register (null), or
\* the server's view of this member contradicts the terminal's.
MemberStateChange ==
    /\ Spend("member")
    /\ \E news \in {"all", "offline", "online"} :
          \/ news = "all"
          \/ news = "offline" /\ login = "SUCCESS"
          \/ news = "online" /\ login = "UNREGISTERED"
    /\ StartThread
    /\ UNCHANGED <<login, starter, at, acc, retry, dflt, registering, worker,
                   tsx, replies, bound, sick, ui, odd>>

\* An alert that is not about the registration: a call failed with 408, 503
\* or 504 (showCallState), or the floor timed out (mInviteIndicate).
CallError ==
    /\ Spend("call")
    /\ starting' = "special"
    /\ starter' \in {starter, "ERRORCODE"}
    /\ UNCHANGED <<login, thr, at, acc, retry, dflt, registering, worker, tsx,
                   replies, bound, sick, shown, settings, dialog, odd>>

\* AlertActivity.checkSpecialError: every second alert registers again.
checkSpecialError(code) ==
    IF code # "special" THEN UNCHANGED <<odd, starter, thr>>
    ELSE /\ odd' = ~odd
         /\ IF odd /\ ~settings
            THEN starter' = "ERRORCODE" /\ StartThread
            ELSE UNCHANGED <<starter, thr>>

ShowAlert ==
    /\ starting # "none" /\ MainIdle
    /\ starting' = "none"
    /\ shown' = starting
    /\ checkSpecialError(starting)
    /\ UNCHANGED <<login, at, acc, retry, dflt, registering, worker, tsx,
                   replies, bound, sick, settings, dialog, events>>

\* onResume of an alert that is already there: the same check again.
ResumeAlert ==
    /\ Spend("resume") /\ MainIdle
    /\ shown # "none"
    /\ checkSpecialError(shown)
    /\ UNCHANGED <<login, at, acc, retry, dflt, registering, worker, tsx,
                   replies, bound, sick, ui>>

CloseAlert ==
    /\ shown # "none" /\ MainIdle
    /\ shown' = "none"
    /\ UNCHANGED <<login, starter, thr, at, acc, retry, dflt, registering,
                   worker, tsx, replies, bound, sick, starting, settings,
                   dialog, odd, events>>

-----------------------------------------------------------------------------
RegisterThread(t) ==
    \/ CheckState(t)
    \/ SetRegistering(t)
    \/ ClearAccounts(t)
    \/ MarkRegistering(t)
    \/ AddAccount(t)
    \/ SendRegister(t)
    \/ LoginFailed(t)

Worker ==
    \/ \E x \in Tsx : regc_cb(x) \/ DeletedRegcAnswered(x)
    \/ RegisterAgain
    \/ ResetRegistering
    \/ \E i \in Slot : RetryTimer(i)

Screen ==
    \/ MainPageRegister
    \/ SettingsReregister
    \/ CancelDialog
    \/ SetUnregistered
    \/ DismissDialog
    \/ OpenSettings
    \/ CloseSettings
    \/ MemberStateChange
    \/ CallError
    \/ ShowAlert
    \/ ResumeAlert
    \/ CloseAlert

Next ==
    \/ \E t \in Threads : RegisterThread(t)
    \/ Worker
    \/ \E i \in Slot : RefreshTimer(i)
    \/ \E x \in Tsx, k \in Kinds : Answer(x, k)
    \/ Recover
    \/ Screen

\* Threads are scheduled, timers fire and transactions end with an answer or
\* a timeout; users and the server's health owe nothing until Recover.
Fairness ==
    /\ \A t \in Threads : WF_vars(RegisterThread(t))
    /\ WF_vars(Worker)
    /\ \A x \in Tsx : WF_vars(regc_cb(x) \/ DeletedRegcAnswered(x))
    /\ \A i \in Slot : WF_vars(RetryTimer(i)) /\ SF_vars(RefreshTimer(i))
    /\ \A x \in Tsx : WF_vars(\E k \in Kinds : Answer(x, k))
    /\ WF_vars(Recover)
    /\ WF_vars(ShowAlert)
    /\ WF_vars(SetUnregistered)

Safety == Init /\ [][Next]_vars
Spec == Safety /\ Fairness

-----------------------------------------------------------------------------
(* Properties *)

Pending(x) == tsx[x].st # "free"

\* A regc is busy exactly as long as a transaction will call back for it, and
\* never two: no account is left refusing every request with PJSIP_EBUSY, and
\* a late answer of a deleted account (its slot may be in use again) is not
\* taken for the answer of the new one.
BusyHasTransaction ==
    /\ \A i \in Slot :
          acc[i] = "busy" <=> \E x \in Tsx : Pending(x) /\ tsx[x].owner = i
    /\ \A x, y \in Tsx :
          Pending(x) /\ Pending(y) /\ tsx[x].owner = tsx[y].owner
          /\ tsx[x].owner # Gone => x = y

\* doRegister refuses to register while the state is REGISTERING because
\* "Register is in progress now": whenever it says so, some thread is on its
\* way to send a request, or an account is waiting for an answer.
RegisteringInProgress ==
    login = "REGISTERING" =>
        \/ \E t \in Threads : thr[t] \in {"clear", "mark", "add", "fail"}
        \/ \E t \in Threads : thr[t] = "send" /\ acc[at[t]] # "free"
        \/ \E i \in Slot : acc[i] = "busy"

\* login() clears the accounts before it adds one, and several threads may do
\* so at the same time: the table is never full when an account is added.
SlotAlwaysFree ==
    \A t \in Threads : thr[t] = "add" => \E i \in Slot : acc[i] = "free"

\* The UNREGISTER of a deleted account and the REGISTER of its successor race;
\* when all is quiet and the terminal says it is registered, it is.
RegisteredIsBound ==
    ( /\ login = "SUCCESS"
      /\ \A t \in Threads : thr[t] \in {"off", "check"}
      /\ worker = "idle"
      /\ \A x \in Tsx : ~Pending(x) ) => bound

\* The terminal is at work on a registration.
UnderWay ==
    \/ \E t \in Threads : thr[t] \in {"clear", "mark", "add", "fail"}
    \/ \E t \in Threads : thr[t] = "send" /\ acc[at[t]] # "free"
    \/ \E i \in Slot : acc[i] = "busy"

L == INSTANCE Login WITH view <- login, busy <- UnderWay,
                         quitting <- Quitting

\* Threads, retries, late answers and cancelled dialogs together show the user
\* no other sequence of states than the abstract Login does.
ImplementsLogin == L!Spec

\* Once the server is well, the retries of pjsua and of AlertActivity come to
\* rest with the terminal registered, whatever happened before.
FinallyRegistered == <>[](login = "SUCCESS" /\ bound)

=============================================================================
