----------------------------- MODULE SingleCall -----------------------------
(***************************************************************************)
(* Calls to and from one party, from the native call to the call screen.   *)
(*                                                                         *)
(* CallStateManager keeps one current call, whatever number of calls the   *)
(* native stack has.  Three parties write it:                              *)
(*   - the pjsua worker thread, which reports calls (JniCallback) and the  *)
(*     registration;                                                       *)
(*   - the main thread's looper, which handles commands and broadcasts;    *)
(*   - the call screen InCallScreenActivity, whose creation and            *)
(*     destruction Android schedules on the main thread as it likes.       *)
(* A callback of the worker is one step; a main-thread handler is cut at   *)
(* its JNI call, which waits for the lock the worker's callbacks hold.     *)
(* Numbers that name a group belong to PttFloor.                           *)
(***************************************************************************)
EXTENDS Integers, Sequences

CONSTANTS
    Slots,      \* size of the native call table, 4
    Apart,      \* a call starts only when the terminal is done with the last
    Events,     \* what may happen beside a call's own course
    MaxEvents   \* bound on what the user and the others start

AllEvents == {"dial", "book", "incoming", "home", "ptt", "group", "timeout",
              "unregistered", "regerror", "reregister"}

ASSUME SlotsAssumption == Slots \in Nat \ {0}
ASSUME ApartAssumption == Apart \in BOOLEAN
ASSUME EventAssumption == Events \subseteq AllEvents
ASSUME MaxEventsAssumption == MaxEvents \in Nat

CallIds == 0..(Slots - 1)

\* The id of a fresh CallState, and PJSUA_INVALID_ID.
FirstCall == 0
NoCall == -1

CallStates == {"IDLE", "DIALING", "RINGING", "TALKING", "ENDED", "ENDING",
               "CANCELING", "REJECTING"}

\* A call is "closing" when its BYE was sent before the ACK of its 200 came,
\* "crossed" when its CANCEL crossed the 200: it is up, but not wanted.
NativeStates == {"null", "calling", "incoming", "connecting", "confirmed",
                 "canceling", "crossed", "closing", "ending"}

\* What waits for the main thread: a startActivity of the call screen, the
\* ACTION_CALLSTATET broadcast, ACTION_PTT, and the commands.
Messages == {"OPEN", "STATE", "PTT", "HANGUP", "ANSWER", "MAKE"}

VARIABLES
    term,   \* what the handlers read and write, see Terminal
    jni,    \* the JNI call the main thread is about to make
    registered, \* the server has accepted the registration
    ptt,    \* the PTT side takes the calls reported: key down, or speaking
    left    \* events left, see MaxEvents

vars == <<term, jni, registered, ptt, left>>

(***************************************************************************)
(* calls, next and cur are the native calls, next_call_id and              *)
(* current_call; id, state, num (there is a number), former and force are  *)
(* CallStateManager; ring is bRingPlaying and tone the player and the      *)
(* vibrator; shown is the call screen that is not finishing, answerBtn its *)
(* button and dialog its question about an incoming PTT; fin counts the    *)
(* screens that are finishing; inst is what InCallScreenActivity.instance  *)
(* refers to: the screen shown, one finishing or destroyed, or nothing.    *)
(***************************************************************************)
Terminal ==
    [calls : [CallIds -> NativeStates], next : 0..Slots,
     cur : CallIds \cup {NoCall},
     id : CallIds, state : CallStates, num : BOOLEAN, former : CallStates,
     force : BOOLEAN, ring : BOOLEAN, tone : BOOLEAN,
     shown : {"none", "top", "back"}, answerBtn : BOOLEAN, dialog : BOOLEAN,
     fin : Nat, inst : {"none", "shown", "gone"},
     inbox : Seq(Messages)]

Requests ==
    [call : {"none", "pad", "book"}, id : {NoCall}]
        \cup [call : {"answer", "hangup"}, id : CallIds]

TypeOK ==
    /\ term \in Terminal
    /\ jni \in Requests
    /\ registered \in BOOLEAN
    /\ ptt \in BOOLEAN
    /\ left \in 0..MaxEvents

Idle == [call |-> "none", id |-> NoCall]

Init ==
    /\ term = [calls |-> [c \in CallIds |-> "null"], next |-> 0, cur |-> NoCall,
               id |-> FirstCall, state |-> "IDLE", num |-> FALSE,
               former |-> "IDLE", force |-> FALSE, ring |-> FALSE,
               tone |-> FALSE, shown |-> "none", answerBtn |-> FALSE,
               dialog |-> FALSE, fin |-> 0, inst |-> "none", inbox |-> <<>>]
    /\ jni = Idle
    /\ registered = TRUE
    /\ ptt = FALSE
    /\ left = MaxEvents

-----------------------------------------------------------------------------
(* CallStateManager *)

post(w, m) == [w EXCEPT !.inbox = Append(w.inbox, m)]

setCallState(w, s) == [w EXCEPT !.former = w.state, !.state = s]

setCurrentCallState(w, c, s) ==
    [w EXCEPT !.former = w.state, !.id = c, !.state = s, !.num = TRUE]

\* Variant for mutation: the ringtone is forgotten with the call.
clear_ring(w) ==
    [w EXCEPT !.id = FirstCall, !.state = "IDLE", !.num = FALSE,
              !.former = "IDLE", !.force = FALSE, !.ring = FALSE]

\* A fresh CallState, whose id is call 0; the ringtone is not its business.
clear(w) ==
    [w EXCEPT !.id = FirstCall, !.state = "IDLE", !.num = FALSE,
              !.former = "IDLE", !.force = FALSE]

isSingleCallOnTop(w) == w.inst # "none" /\ w.shown = "top"

\* finish() of the activity: Android destroys it later, see onDestroy.
finish(w) ==
    IF w.shown = "none" THEN w
    ELSE [w EXCEPT !.shown = "none", !.answerBtn = FALSE, !.dialog = FALSE,
                   !.fin = w.fin + 1,
                   !.inst = IF w.inst = "shown" THEN "gone" ELSE w.inst]

closeCallUI(w) == IF w.inst = "shown" THEN finish(w) ELSE w

-----------------------------------------------------------------------------
(* PTTService *)

stopRingtone(w) == [w EXCEPT !.tone = FALSE]

\* Variant for mutation: the ringtone goes on when the call has ended.
endRing_talkingOnly(w, s) ==
    IF w.ring /\ s = "TALKING" THEN [stopRingtone(w) EXCEPT !.ring = FALSE] ELSE w

\* TALKING and ENDED stop the ringtone that bRingPlaying knows of.
endRing(w, s) == IF w.ring THEN [stopRingtone(w) EXCEPT !.ring = FALSE] ELSE w

JNIUpdateCallState(w, c, s) ==
    LET v == setCurrentCallState(w, c, s)
        e == endRing(v, s)
    IN  CASE s = "RINGING" -> post([v EXCEPT !.ring = TRUE, !.tone = TRUE], "OPEN")
          [] s = "DIALING" -> IF w.force THEN post(v, "OPEN") ELSE v
          [] s = "TALKING" -> post(e, IF w.inst = "none" THEN "OPEN" ELSE "STATE")
          [] s = "ENDED"   ->
               post(IF w.inst = "none" THEN setCurrentCallState(e, c, "IDLE") ELSE e,
                    "STATE")

\* JniCallback.showCallState for a number that names no group.  The PTT side
\* keeps the report of a call that is not on the screen while it is busy.
showCallState(w, c, s, code) ==
    IF code \in {"486", "504", "error"}
    THEN IF w.state \in {"RINGING", "REJECTING"} /\ code # "486"
         THEN w ELSE JNIUpdateCallState(w, c, s)
    ELSE IF isSingleCallOnTop(w) \/ ~ptt
         THEN JNIUpdateCallState(w, c, s) ELSE w

-----------------------------------------------------------------------------
(* Native calls *)

Live(w, c) == w.calls[c] \in {"calling", "incoming", "connecting", "confirmed"}

Free(w) == {c \in CallIds : w.calls[c] = "null"}

Least(S) == CHOOSE c \in S : \A d \in S : c <= d

\* The first member of S at n or after, going round.
From(S, n) ==
    IF \E c \in S : c >= n THEN Least({c \in S : c >= n}) ELSE Least(S)

\* Variant for mutation: next_call_id does not go round.
alloc_call_id_on(w) == <<From(Free(w), w.next), w.next + 1>>

\* Round-robin: the slot, and the new next_call_id.
alloc_call_id(w) ==
    LET n == IF w.next >= Slots THEN 0 ELSE w.next
    IN  <<From(Free(w), n), n + 1>>

\* A new native call; it is current when there is no other.
newCall(w, s) ==
    LET a == alloc_call_id(w)
    IN  [w EXCEPT !.calls = [w.calls EXCEPT ![a[1]] = s], !.next = a[2],
                  !.cur = IF w.cur = NoCall THEN a[1] ELSE w.cur]

\* find_next_call, when the current call is gone.
find_next_call(w) ==
    LET active == {d \in CallIds \ {w.cur} : w.calls[d] # "null"}
    IN  IF active = {} THEN NoCall ELSE From(active, w.cur)

\* on_call_state, DISCONNECTED; the report is withheld while another call is
\* current.
disconnect(w, c, code) ==
    LET v == [w EXCEPT !.calls = [w.calls EXCEPT ![c] = "null"],
                       !.cur = IF w.cur = c THEN find_next_call(w) ELSE w.cur]
    IN  IF v.cur \in {NoCall, c} THEN showCallState(v, c, "ENDED", code) ELSE v

\* pjsua_call_hangup: an unanswered call is refused with a 486 and gone at
\* once, an outgoing one is cancelled, an answered one is sent a BYE.
hangup(w, c) ==
    CASE w.calls[c] = "incoming" -> disconnect(w, c, "486")
      [] w.calls[c] = "calling" -> [w EXCEPT !.calls = [w.calls EXCEPT ![c] = "canceling"]]
      [] w.calls[c] = "connecting" -> [w EXCEPT !.calls = [w.calls EXCEPT ![c] = "closing"]]
      [] w.calls[c] \in {"confirmed", "crossed"} ->
           [w EXCEPT !.calls = [w.calls EXCEPT ![c] = "ending"]]
      [] OTHER -> w

\* The call that pjsua_call_hangup refuses: its slot is empty.
Gone(w, c) == w.calls[c] = "null"

\* answer() tests current_call and answers the call it was given.
CanAnswer(w, c) ==
    w.cur # NoCall /\ w.calls[w.cur] = "incoming" /\ w.calls[c] = "incoming"

\* make_call hangs up current_call before it makes the new call.
dropCurrent(w) ==
    IF w.cur = NoCall THEN w
    ELSE IF Gone(w, w.cur) THEN [w EXCEPT !.cur = NoCall]
    ELSE hangup(w, w.cur)

\* pjsua_call_make_call reports CALLING before it returns.
placeCall(w) ==
    showCallState(newCall(w, "calling"), alloc_call_id(w)[1], "DIALING", "none")

-----------------------------------------------------------------------------
(* The call screen *)

\* onCreate, for a screen that is not there yet.
onCreate(w) ==
    IF w.shown # "none" THEN w
    ELSE [w EXCEPT !.inst = "shown", !.answerBtn = w.state = "RINGING"]

\* onResume: a call that is over closes the screen again.
onResume(w) ==
    LET v == [w EXCEPT !.shown = "top"]
    IN  IF v.state \in {"ENDED", "IDLE"} THEN finish(v) ELSE v

\* Variant for mutation: only a cleared call closes the screen.
updateCallState_idle(w) == IF w.state = "IDLE" THEN finish(w) ELSE w

\* The broadcast carries no state: the screen looks at the current one.
updateCallState(w) == IF w.state = "ENDED" THEN finish(w) ELSE w

HangupStates == [DIALING |-> "CANCELING", TALKING |-> "ENDING", RINGING |-> "REJECTING"]

\* hangup() of the screen: the end is shown before it is asked for.
hangupPressed(w) ==
    IF w.state \in {"IDLE", "ENDED"} \/ ~w.num THEN finish(w)
    ELSE LET s == IF w.state \in DOMAIN HangupStates
                  THEN HangupStates[w.state] ELSE w.state
         IN  post(finish([setCallState(w, s) EXCEPT !.force = FALSE]), "HANGUP")

\* answer() of the screen: TALKING before the call is answered.
answerPressed(w) ==
    [post(setCallState(w, "TALKING"), "ANSWER") EXCEPT !.answerBtn = FALSE]

-----------------------------------------------------------------------------
(* The main thread *)

MainFree == jni = Idle

Main(w) == term' = w /\ UNCHANGED <<jni, registered, ptt, left>>

Receive(m) == MainFree /\ term.inbox # <<>> /\ Head(term.inbox) = m

popped == [term EXCEPT !.inbox = Tail(term.inbox)]

OpenScreen == Receive("OPEN") /\ Main(onResume(onCreate(popped)))

\* A screen that is finishing hears the broadcast too, and finishes again.
StateBroadcast ==
    /\ Receive("STATE")
    /\ Main(IF term.shown = "none" THEN popped ELSE updateCallState(popped))

\* ACTION_PTT asks the user whether to leave the call.
PttBroadcast ==
    /\ Receive("PTT")
    /\ Main([popped EXCEPT !.dialog = \/ popped.dialog
                                     \/ /\ popped.shown # "none" /\ popped.inst # "none"
                                        /\ popped.state # "IDLE"])

\* Variant for mutation: the handler leaves the ringtone alone.
Command_noisy(m, call) ==
    /\ Receive(m)
    /\ term' = popped
    /\ jni' = [call |-> call, id |-> term.id]
    /\ UNCHANGED <<registered, ptt, left>>

\* COMM_HANGUP_CALL and COMM_ANSWER_CALL, up to the JNI call.
Command(m, call) ==
    /\ Receive(m)
    /\ term' = IF term.ring THEN stopRingtone(popped) ELSE popped
    /\ jni' = [call |-> call, id |-> term.id]
    /\ UNCHANGED <<registered, ptt, left>>

HangupCommand == Command("HANGUP", "hangup")

AnswerCommand == Command("ANSWER", "answer")

\* A request the stack refuses clears the call and closes its screen.
Refused(w) ==
    LET v == clear(w) IN IF isSingleCallOnTop(v) THEN closeCallUI(v) ELSE v

Returned(w) == term' = w /\ jni' = Idle /\ UNCHANGED <<registered, ptt, left>>

RequestHangup ==
    /\ jni.call = "hangup"
    /\ IF Gone(term, jni.id) THEN Returned(Refused(term))
       ELSE Returned(hangup(term, jni.id))

RequestAnswer ==
    /\ jni.call = "answer"
    /\ IF CanAnswer(term, jni.id)
       THEN Returned([term EXCEPT !.calls = [term.calls EXCEPT ![jni.id] = "connecting"]])
       ELSE Returned(Refused(term))

\* COMM_MAKE_CALL, up to RequestMakeCall.
MakeCommand ==
    /\ Receive("MAKE")
    /\ term' = [popped EXCEPT !.state = "DIALING", !.num = TRUE]
    /\ jni' = [call |-> "book", id |-> NoCall]
    /\ UNCHANGED <<registered, ptt, left>>

\* The dialling page ignores the result, COMM_MAKE_CALL clears the call.
MakeFailed(w) == Returned(IF jni.call = "book" THEN clear(w) ELSE w)

\* RequestMakeCall: refused for lack of a registration, or by the stack.
RequestMakeCall ==
    /\ jni.call \in {"pad", "book"}
    /\ \/ ~registered /\ MakeFailed(term)
       \/ /\ registered
          /\ LET w == dropCurrent([term EXCEPT !.force = TRUE])
             IN  MakeFailed(w) \/ (Free(w) # {} /\ Returned(placeCall(w)))

\* Variant for mutation: the call on the screen of today is not looked at.
onDestroy_always ==
    /\ MainFree /\ term.inbox = <<>> /\ term.fin > 0
    /\ Main([clear(term) EXCEPT !.inst = "none", !.fin = term.fin - 1])

\* onDestroy of a finishing screen, which Android leaves until the main
\* thread is idle.  It is ignored while a call goes on.
onDestroy ==
    /\ MainFree /\ term.inbox = <<>> /\ term.fin > 0
    /\ LET w == [term EXCEPT !.fin = term.fin - 1]
       IN  Main(IF w.state \in {"RINGING", "TALKING", "DIALING"} THEN w
                ELSE [clear(w) EXCEPT !.inst = "none"])

-----------------------------------------------------------------------------
(* The user *)

Spend(e) == e \in Events /\ left > 0 /\ left' = left - 1

\* Another page has the screen: its resumption waits for what is queued.
OtherPage == MainFree /\ term.shown # "top" /\ term.inbox = <<>>

Waiting(m) == \E i \in DOMAIN term.inbox : term.inbox[i] = m

MayStart == Apart => MainFree /\ term.inbox = <<>> /\ Free(term) = CallIds

\* DialActivity.makeCall.
DialPad ==
    /\ Spend("dial") /\ MayStart /\ OtherPage
    /\ term' = post(setCurrentCallState(term, FirstCall, "DIALING"), "OPEN")
    /\ jni' = [call |-> "pad", id |-> NoCall]
    /\ UNCHANGED <<registered, ptt>>

\* makeCall of the call log, the contacts, the groups and the messages.
DialBook ==
    /\ Spend("book") /\ MayStart /\ OtherPage
    /\ term' = post(term, "MAKE")
    /\ UNCHANGED <<jni, registered, ptt>>

PressHangup ==
    /\ MainFree /\ term.shown = "top"
    /\ Main(hangupPressed(term))

PressAnswer ==
    /\ MainFree /\ term.shown = "top"
    /\ term.answerBtn \/ term.state = "RINGING"
    /\ Main(answerPressed(term))

LeaveScreen ==
    /\ Spend("home") /\ MainFree /\ term.shown = "top"
    /\ term' = [term EXCEPT !.shown = "back", !.dialog = FALSE]
    /\ UNCHANGED <<jni, registered, ptt>>

\* MainPageActivity.onResume leads back to a call that goes on.
ReturnToCall ==
    /\ MainFree /\ term.shown = "back"
    /\ term.state \in {"DIALING", "RINGING", "TALKING"}
    /\ ~Waiting("OPEN")
    /\ Main(post(term, "OPEN"))

\* The user accepts to switch to PTT: the call is said to be over.  open_ptt
\* refuses, for lack of a multicast session, and hangs up nothing.
SwitchToPtt ==
    /\ MainFree /\ term.shown = "top" /\ term.dialog
    /\ Main(setCallState(finish(term), "ENDED"))

\* The user declines, or the group call is over.
RefuseSwitch ==
    /\ MainFree /\ term.dialog
    /\ Main([term EXCEPT !.dialog = FALSE])

\* handleRegister with bForce.  With a call but no instance it dies.
Reregister ==
    /\ Spend("reregister") /\ MainFree
    /\ term.state # "IDLE" => term.inst # "none"
    /\ term' = IF term.state = "IDLE" THEN term
               ELSE clear(closeCallUI(endRing(term, "ENDED")))
    /\ registered' = FALSE
    /\ UNCHANGED <<jni, ptt>>

\* The PTT key, or a group call, occupies the PTT side.
PttSide ==
    /\ \/ ptt /\ UNCHANGED left
       \/ ~ptt /\ Spend("ptt")
    /\ ptt' = ~ptt
    /\ UNCHANGED <<term, jni, registered>>

-----------------------------------------------------------------------------
(* The pjsua worker thread *)

Callback(w) == term' = w /\ UNCHANGED <<jni, registered, ptt>>

Registration(w, ok) == term' = w /\ registered' = ok /\ UNCHANGED <<jni, ptt>>

\* on_incoming_call.
Incoming ==
    /\ Spend("incoming") /\ MayStart /\ Free(term) # {}
    /\ Callback(showCallState(newCall(term, "incoming"), alloc_call_id(term)[1],
                              "RINGING", "none"))

\* A call whose 200 or ACK comes.
Answered(s) ==
    CASE s = "closing" -> "ending"
      [] s = "canceling" -> "crossed"
      [] OTHER -> "confirmed"

\* on_call_state, CONFIRMED: the other party answered, or our answer is
\* acknowledged.  A 200 that crosses the CANCEL establishes the call, and a
\* call that was sent a BYE before its ACK is reported as talking.
Confirmed(c) ==
    /\ term.calls[c] \in {"calling", "connecting", "canceling", "closing"}
    /\ LET calls == [term.calls EXCEPT ![c] = Answered(term.calls[c])]
           cur == IF term.cur = NoCall THEN c ELSE term.cur
       IN  Callback(showCallState([term EXCEPT !.calls = calls, !.cur = cur],
                                  c, "TALKING", "none"))
    /\ UNCHANGED left

\* The status a call may end with.  A BYE ends it with a 200 even when nobody
\* answers it; another request of the call that fails ends it with its error.
EndCodes(s) ==
    CASE s = "calling" -> {"486", "error"}
      [] s = "incoming" -> {"487"}
      [] s = "canceling" -> {"487", "error", "none"}
      [] OTHER -> {"none", "error"}

Disconnected(c) ==
    /\ term.calls[c] # "null"
    /\ \E code \in EndCodes(term.calls[c]) :
         Callback(disconnect(term, c, code))
    /\ UNCHANGED left

\* call_timeout_callback, ninth time: the call is reported over with a 504,
\* and showCallState hangs it up.
CallTimeout(c) ==
    /\ Spend("timeout") /\ term.calls[c] \in {"confirmed", "crossed"}
    /\ Callback(IF term.cur \in {NoCall, c}
                THEN hangup(showCallState(term, c, "ENDED", "504"), c)
                ELSE term)

\* JNIUpdateRegisterState(REG_NOT).
Unregistered ==
    /\ Spend("unregistered")
    /\ Registration(IF term.state = "IDLE" THEN term ELSE clear(closeCallUI(term)), FALSE)

\* JNIUpdateRegisterState(REG_ERROR) runs COMM_HANGUP_CALL itself.
RegisterError ==
    /\ Spend("regerror")
    /\ LET w == IF term.ring THEN stopRingtone(term) ELSE term
           v == IF Gone(w, w.id) THEN Refused(w) ELSE hangup(w, w.id)
       IN  Registration(IF term.state = "IDLE" THEN term ELSE clear(closeCallUI(v)), FALSE)

\* JNIUpdateRegisterState(REG_ED).
Registered == ~registered /\ Registration(term, TRUE) /\ UNCHANGED left

\* mInviteIndicate: a group call starts.  It asks the user of a call on the
\* screen, and takes a call that is not on the screen for an error.
GroupTalk ==
    /\ Spend("group")
    /\ Callback(IF term.state \in {"ENDED", "IDLE"} THEN term
                ELSE IF isSingleCallOnTop(term) \/ term.force THEN post(term, "PTT")
                ELSE clear(term))

-----------------------------------------------------------------------------

MainNext ==
    \/ OpenScreen \/ StateBroadcast \/ PttBroadcast
    \/ HangupCommand \/ AnswerCommand \/ MakeCommand
    \/ RequestHangup \/ RequestAnswer \/ RequestMakeCall

UserNext ==
    \/ DialPad \/ DialBook \/ PressHangup \/ PressAnswer
    \/ LeaveScreen \/ ReturnToCall \/ SwitchToPtt \/ RefuseSwitch
    \/ Reregister \/ PttSide

WorkerNext ==
    \/ Incoming
    \/ \E c \in CallIds : Confirmed(c) \/ Disconnected(c) \/ CallTimeout(c)
    \/ Unregistered \/ RegisterError \/ Registered \/ GroupTalk

Next == MainNext \/ onDestroy \/ UserNext \/ WorkerNext

Safety == Init /\ [][Next]_vars

(***************************************************************************)
(* The looper goes on, Android destroys a finished screen, and a call that *)
(* nobody answered, or that was hung up, is over in the end: the INVITE    *)
(* and BYE transactions time out.                                          *)
(***************************************************************************)
Fairness ==
    /\ WF_vars(MainNext)
    /\ WF_vars(onDestroy)
    /\ \A c \in CallIds : WF_vars(term.calls[c] \notin {"confirmed", "crossed"} /\ Disconnected(c))

Spec == Safety /\ Fairness

-----------------------------------------------------------------------------
(* Properties *)

\* A call that is up, and that neither side has ended, is the call the
\* terminal keeps and takes to be going on: no call is out of the user's
\* reach.
LiveCallIsKept ==
    \A c \in CallIds : Live(term, c) => term.id = c /\ term.state \notin {"IDLE", "ENDED"}

\* "Ptt incoming, switch to PTT?" (alert_msg_receive_ptt): a yes marks the call
\* CALL_ENDED, and a call that is marked so is not up any more.
EndedIsOver == term.state = "ENDED" => \A c \in CallIds : ~Live(term, c)

\* The ringtone plays only while the ended call's report can still stop it.
RingKnown == term.tone => term.ring

\* The ringtone plays for a call that waits to be answered, and for no other.
RingHasCall == term.tone => \E c \in CallIds : term.calls[c] = "incoming"

\* The ringtone stops in the end.
RingStops == term.tone ~> ~term.tone

\* The screen of a call that is over closes by itself.
ScreenCloses ==
    (term.shown = "top" /\ \A c \in CallIds : term.calls[c] = "null")
        ~> (term.shown # "top" \/ \E c \in CallIds : term.calls[c] # "null")

=============================================================================
