------------------------------ MODULE PttFloor ------------------------------
(***************************************************************************)
(* Floor control of the push-to-talk terminal.                             *)
(*                                                                         *)
(* The floor state lives in PTTManager and is changed by two threads:      *)
(*   - the Android main thread, which takes key broadcasts                 *)
(*     (PTTKeyReceiver) and command broadcasts (PTTService.handleCommand)  *)
(*     from one FIFO looper queue;                                         *)
(*   - the pjsua worker thread, which reports calls and server messages    *)
(*     through JniCallback.                                                *)
(* A callback of the worker is one step.  A main-thread handler is cut     *)
(* where it blocks: at the 300 ms sleep of handlePttUp and at the JNI      *)
(* calls of handleCommand, so that callbacks run in between.               *)
(*                                                                         *)
(* A handler is an operator from the terminal's state, a record w, to its  *)
(* next value; an action says when the handler runs and stores the result. *)
(***************************************************************************)
EXTENDS Integers, Sequences, FiniteSets

CONSTANTS
    CallIds,        \* pjsua call ids the server's group calls can be given
    FirstCall,      \* call id 0, the default of a fresh CallState
    NoCall,         \* the invalid call id, -1
    RightResponses, \* results receivePttRightResponse is called with
    RegReports,     \* registration results the server may report
    GroupLists,     \* group lists the server may send, see JNIAddGroupInfo
    Screens,        \* activities that may come to the top
    OneLeg,         \* the server calls again only when its last call is over
    MaxThreads,     \* bound on RegisterThreads started and not yet run
    MaxInbox        \* bound on broadcasts waiting for the main thread

Statuses == {"IDLE", "INIT", "FREE", "LISTENING", "WAITING", "REJECTED",
             "CANCELED", "SPEAKING", "ACCEPTED", "APPLYING", "CANCELING"}

CallStates == {"IDLE", "DIALING", "RINGBACK", "RINGING", "TALKING", "ENDED",
               "ENDING", "ERROR", "CANCELING", "REJECTING"}

Speakers == {"none", "me", "peer"}

\* A call is "closing" when its BYE was sent before the ACK of its 200 came.
LegStates == {"null", "incoming", "connecting", "confirmed",
              "rejecting", "closing", "ending"}

Broadcasts == {"DOWN", "UP", "APPLY", "CANCEL", "HANGUP", "UPDATE_UI"}

ASSUME CallIdAssumption == FirstCall \in CallIds /\ NoCall \notin CallIds
ASSUME ResponseAssumption == RightResponses \subseteq {"BUSY", "CANCELED", "FORBIDDEN"}
ASSUME RegReportAssumption == RegReports \subseteq {"REG_ED", "REG_NOT", "REG_ERROR"}
ASSUME GroupListAssumption ==
    GroupLists \subseteq [listed : BOOLEAN, gone : BOOLEAN, dynamic : BOOLEAN]
ASSUME ScreenAssumption == Screens \subseteq {"ptt", "call", "alert", "other"}
ASSUME OneLegAssumption == OneLeg \in BOOLEAN
ASSUME MaxThreadsAssumption == MaxThreads \in Nat
ASSUME MaxInboxAssumption == MaxInbox \in Nat \ {0}

VARIABLES
    term,   \* what the handlers read and write, see Terminal
    inbox,  \* broadcasts waiting in the main thread's looper queue
    pc,     \* where the main thread is
    held,   \* the user's finger is on the PTT key
    top,    \* the activity on top of the screen
    dest,   \* dest_num of pjsua_app.c still names the group
    armed   \* calls whose supervision timer is running

vars == <<term, inbox, pc, held, top, dest, armed>>

(***************************************************************************)
(* The state the handlers share.  status, speaker and callId are the       *)
(* PttGroupStatus of PTTManager, key and call its ePttKeyStatus and        *)
(* callState; scState, scId, force and ring are the single-call side       *)
(* (CallStateManager, bRingPlaying); inCall says InCallScreenActivity has  *)
(* an instance; legs and cur are the native calls and current_call;        *)
(* registered and groups say whether the account and the group list are    *)
(* there; threads counts the RegisterThreads started and not yet run.      *)
(***************************************************************************)
Terminal ==
    [status : Statuses, speaker : Speakers, callId : CallIds \cup {NoCall},
     key : {"UP", "DOWN"}, call : CallStates,
     scState : CallStates, scId : CallIds, force : BOOLEAN, ring : BOOLEAN,
     inCall : BOOLEAN,
     legs : [CallIds -> LegStates], cur : CallIds \cup {NoCall},
     registered : BOOLEAN, groups : BOOLEAN, threads : Nat]

TypeOK ==
    /\ term \in Terminal
    /\ inbox \in Seq(Broadcasts)
    /\ pc \in {"idle", "sleep", "apply", "cancel", "hangup"}
    /\ held \in BOOLEAN
    /\ top \in Screens
    /\ dest \in BOOLEAN
    /\ armed \subseteq CallIds

-----------------------------------------------------------------------------
(* Native calls *)

\* pjsua_call_hangup: an unanswered call is refused (486), an answered one
\* is sent a BYE, acknowledged or not; the call is gone when its DISCONNECTED
\* event comes.
RequestHangup(w, c) ==
    [w EXCEPT !.legs = [w.legs EXCEPT ![c] =
        CASE @ = "incoming" -> "rejecting"
          [] @ = "connecting" -> "closing"
          [] @ = "confirmed" -> "ending"
          [] OTHER -> @]]

\* answer() of pjsua_app.c tests the state of current_call and then answers
\* the call it was given.  Its result is ignored by showCallState.
RequestAnswer(w, c) ==
    IF w.cur # NoCall /\ w.legs[w.cur] = "incoming" /\ w.legs[c] = "incoming"
    THEN [w EXCEPT !.legs = [w.legs EXCEPT ![c] = "connecting"]]
    ELSE w

\* Variant for mutation: find_next_call is not called, current_call is reset.
NextCalls_reset(w, c) == {NoCall}

\* The calls find_next_call may move current_call to.
NextCalls(w, c) ==
    LET active == {d \in CallIds \ {c} : w.legs[d] \notin {"null", "rejecting"}}
    IN  IF active = {} THEN {NoCall} ELSE active

hangupPttCall(w) ==
    IF w.callId = NoCall THEN w ELSE RequestHangup(w, w.callId)

\* A request the stack refuses (ok = FALSE) goes through checkResult.
checkResult(w, ok) ==
    IF ok THEN w ELSE [w EXCEPT !.speaker = "none", !.status = "FREE"]

cancelPttRight(w, ok) ==
    IF w.groups THEN checkResult(w, ok) ELSE w

applyPttRight(w, ok) ==
    IF w.registered /\ w.groups THEN checkResult(w, ok) ELSE w

\* Variant for mutation: the speaker survives the clear.
clear_keepsSpeaker(w) ==
    [w EXCEPT !.status = "IDLE", !.callId = NoCall, !.key = "UP"]

\* PTTManager.clear: a fresh PttGroupStatus, whatever calls are open.
clear(w) ==
    [w EXCEPT !.status = "IDLE", !.speaker = "none", !.callId = NoCall,
              !.key = "UP"]

\* Variant for mutation: the fresh CallState has the invalid id.
clearSingleCall_invalidId(w) ==
    [w EXCEPT !.scState = "IDLE", !.scId = NoCall, !.force = FALSE]

\* CallStateManager.clear: a fresh CallState, whose id is call 0.
clearSingleCall(w) ==
    [w EXCEPT !.scState = "IDLE", !.scId = FirstCall, !.force = FALSE]

SingleCallOnTop(w, t) == w.inCall /\ t = "call"

InSingleCall(w, t) == w.force \/ SingleCallOnTop(w, t)

-----------------------------------------------------------------------------
(* PTTService *)

\* The status FREE or LISTENING, according to whether someone is speaking.
FreeOrListening(w) ==
    [w EXCEPT !.status = IF w.speaker = "none" THEN "FREE" ELSE "LISTENING"]

\* First part of JNIUpdatePTTState: the reported status replaces the current
\* one, unless it is a FREE that the held key makes stale.
adoptPttState(w, obj) ==
    IF obj.status = "FREE"
    THEN IF /\ w.status \in {"APPLYING", "WAITING", "ACCEPTED", "SPEAKING", "REJECTED"}
            /\ w.key = "DOWN"
         THEN w
         ELSE [w EXCEPT !.status = "FREE", !.speaker = obj.speaker]
    ELSE IF obj.status \in {"WAITING", "REJECTED"}
         THEN [w EXCEPT !.status = obj.status]
         ELSE w

\* Variant for mutation: the floor is taken without a look at the key.
claimFloor_anyKey(w, obj, said) ==
    IF w.status \in {"LISTENING", "SPEAKING"} /\ said = "me"
    THEN [w EXCEPT !.status = "SPEAKING"] ELSE w

\* Second part: the reported speaker is this user.  said is that speaker.
claimFloor(w, obj, said) ==
    LET talking == /\ w.call = "TALKING" /\ obj.status # "SPEAKING"
                   /\ w.key = "DOWN" /\ said = "me"
        v == IF talking THEN [w EXCEPT !.status = "SPEAKING", !.speaker = "me"] ELSE w
    IN  IF v.status \notin {"LISTENING", "SPEAKING"} \/ said # "me"
        THEN v
        ELSE IF v.key = "DOWN"
             THEN [v EXCEPT !.status = "SPEAKING"]
             ELSE [IF v.call = "TALKING" THEN hangupPttCall(v) ELSE v
                   EXCEPT !.status = "FREE", !.speaker = "none"]

\* Third part: what a released key gives back.
releaseIfUp(w, ok) ==
    IF w.key = "DOWN" THEN w
    ELSE CASE w.status = "SPEAKING" ->
                IF w.scId = w.callId /\ w.scState \notin {"ENDED", "IDLE"}
                THEN hangupPttCall(w) ELSE w
           [] w.status \in {"WAITING", "APPLYING"} -> cancelPttRight(w, ok)
           [] w.status = "ACCEPTED" ->
                IF w.call \in {"IDLE", "ENDED"}
                THEN [w EXCEPT !.status = "FREE", !.speaker = "none"] ELSE w
           [] OTHER -> w

JNIUpdatePTTState(w, obj, t, ok) ==
    LET asked == obj.status \in {"WAITING", "REJECTED"}
        said  == IF asked THEN w.speaker ELSE obj.speaker
        v     == adoptPttState(w, obj)
    IN  IF asked /\ w.status = "SPEAKING" /\ w.key = "DOWN" THEN w
        ELSE IF InSingleCall(v, t) THEN v
        ELSE releaseIfUp(claimFloor(v, obj, said), ok)

\* The usual call: the reported object is the current status itself.
refreshPttState(w, t, ok) ==
    JNIUpdatePTTState(w, [status |-> w.status, speaker |-> w.speaker], t, ok)

JNIUpdateCallState(w, c, cs) ==
    [w EXCEPT !.scState = IF cs = "ENDED" /\ ~w.inCall THEN "IDLE" ELSE cs,
              !.scId = c,
              !.ring = CASE cs = "RINGING" -> TRUE
                         [] cs \in {"TALKING", "ENDED"} -> FALSE
                         [] OTHER -> @]

\* ind:call-info, the server naming the speaker of the group call.  (The
\* timers that would report a lost server with a null group are disabled.)
mInviteIndicate(w0, spk, t, ok) ==
    LET single == w0.scState \notin {"ENDED", "IDLE"}
        w == IF single THEN clearSingleCall(w0) ELSE w0
        kept == /\ w.status \in {"WAITING", "APPLYING", "REJECTED"}
                /\ w.key = "DOWN"
    IN  CASE single /\ InSingleCall(w0, t) ->
               IF w0.groups /\ spk # "none"
               THEN [w0 EXCEPT !.status = "LISTENING", !.speaker = spk] ELSE w0
          [] spk = "none" /\ w.status \in {"ACCEPTED", "APPLYING"} -> w
          [] spk = "none" /\ w.status = "WAITING" ->
               [hangupPttCall(w) EXCEPT !.status = "APPLYING", !.speaker = "none"]
          [] spk = "none" ->
               refreshPttState([IF w.status = "LISTENING" THEN hangupPttCall(w) ELSE w
                                EXCEPT !.status = "FREE", !.speaker = "none"], t, ok)
          [] spk = "me" ->
               refreshPttState([w EXCEPT !.status = "SPEAKING", !.speaker = "me"], t, ok)
          [] OTHER ->
               refreshPttState([w EXCEPT !.speaker = spk,
                                         !.status = IF kept THEN @ ELSE "LISTENING"], t, ok)

\* The server's group list g: whether it is non-empty, whether the current
\* group is missing from it, and whether it came in an ind:re-groupInfo.
JNIAddGroupInfo(w0, g, t, ok) ==
    LET w == [w0 EXCEPT !.groups = g.listed]
        v == IF w.status # "INIT" THEN w
             ELSE IF ~g.listed THEN clear(w)
             ELSE IF w.key = "UP" THEN [w EXCEPT !.status = "FREE"]
             ELSE IF t # "alert" /\ w.registered
                  THEN applyPttRight([w EXCEPT !.status = "APPLYING"], ok) ELSE w
    IN  IF /\ g.dynamic /\ ~(v.scState # "IDLE" /\ SingleCallOnTop(v, t))
           /\ v.status # "IDLE" /\ (~g.listed \/ g.gone)
        THEN clear(IF v.status = "SPEAKING" /\ v.key = "DOWN"
                   THEN hangupPttCall(v) ELSE v)
        ELSE v

\* Registration reports.  A failed registration hangs up before it clears,
\* an unregistration only clears.
JNIUpdateRegisterState(w, state) ==
    LET hang == state = "REG_ERROR"
        v == IF w.status = "IDLE" THEN w
             ELSE clear(IF hang THEN hangupPttCall(w) ELSE w)
        u == IF v.scState = "IDLE" THEN v
             ELSE clearSingleCall(IF hang THEN RequestHangup(v, v.scId) ELSE v)
    IN  IF state = "REG_ED" THEN [w EXCEPT !.registered = TRUE]
        ELSE [u EXCEPT !.registered = FALSE, !.groups = FALSE]

\* A forced registration starts a RegisterThread and clears the floor, the
\* single call and the groups at once, without a hangup.
handleRegister(w) ==
    LET v == IF w.status = "IDLE" THEN w ELSE clear(w)
        u == IF v.scState = "IDLE" THEN v
             ELSE clearSingleCall([v EXCEPT !.ring = FALSE])
    IN  [u EXCEPT !.groups = FALSE, !.threads = @ + 1]

-----------------------------------------------------------------------------
(* JniCallback *)

\* Last part of showCallState: the event goes on to the single-call side.
\* before is the floor status when the event came.
passToSingleCall(w, before, c, cs, t) ==
    IF t = "ptt"
    THEN IF before \in {"FREE", "IDLE"} /\ ~w.groups
         THEN JNIUpdateCallState(w, c, cs) ELSE w
    ELSE IF SingleCallOnTop(w, t) THEN JNIUpdateCallState(w, c, cs)
    ELSE IF before \notin {"FREE", "APPLYING", "IDLE"} THEN w
    ELSE IF w.key = "UP" THEN JNIUpdateCallState(w, c, cs)
    ELSE [w EXCEPT !.callId = c]

\* Variant for mutation: the failed call is not recorded as ended.
showCallError_keepsCall(w, c, code, t) ==
    IF InSingleCall(w, t) \/ ~w.groups
    THEN JNIUpdateCallState(w, c, "ENDED")
    ELSE IF code = "504"
         THEN RequestHangup([w EXCEPT !.status = "FREE", !.speaker = "none"], c)
         ELSE w

\* A call that ended with an error code.
showCallError(w, c, code, t) ==
    LET v == IF InSingleCall(w, t) \/ ~w.groups
             THEN IF w.scState \in {"RINGING", "REJECTING"} /\ code # "486"
                  THEN w ELSE JNIUpdateCallState(w, c, "ENDED")
             ELSE IF w.key # "DOWN" /\ t # "ptt" THEN w
             ELSE IF code \in {"486", "504"}
             THEN [w EXCEPT !.status = "FREE", !.speaker = "none", !.call = "ENDED"]
             ELSE [w EXCEPT !.call = "ENDED"]
    IN  IF code = "504" THEN RequestHangup(v, c) ELSE v

\* The server's call is answered in every status but SPEAKING, INIT and
\* CANCELED; there it is refused when the key is up.
groupCallRinging(w, c, t) ==
    IF w.status \notin {"SPEAKING", "INIT", "CANCELED"} THEN RequestAnswer(w, c)
    ELSE passToSingleCall(IF w.key = "UP" THEN RequestHangup(w, c) ELSE w,
                          w.status, c, "RINGING", t)

\* The call is established: with the key down this terminal speaks on it.
groupCallTalking(w, c, t, ok) ==
    LET mine == [w EXCEPT !.status = IF w.speaker = "peer" THEN @ ELSE "SPEAKING",
                          !.speaker = IF w.key = "DOWN" THEN "me" ELSE @]
        v == CASE w.status \in {"REJECTED", "INIT", "SPEAKING"} -> w
               [] w.key = "DOWN" \/ w.status = "LISTENING" -> refreshPttState(mine, t, ok)
               [] OTHER -> hangupPttCall(w)
    IN  passToSingleCall(v, w.status, c, "TALKING", t)

groupCallEnded(w, c, t, ok) ==
    LET freed == refreshPttState([w EXCEPT !.status = "FREE", !.speaker = "none"], t, ok)
    IN  CASE w.status \in {"FREE", "ACCEPTED"} /\ w.key = "UP" ->
               refreshPttState(FreeOrListening(w), t, ok)
          [] w.status = "WAITING" /\ w.key = "UP" ->
               refreshPttState([cancelPttRight(w, ok) EXCEPT !.status = "CANCELING"], t, ok)
          [] w.status = "SPEAKING" -> freed
          [] w.status = "LISTENING" -> passToSingleCall(freed, "LISTENING", c, "ENDED", t)
          [] OTHER -> passToSingleCall(w, w.status, c, "ENDED", t)

\* Variant for mutation: the call's id is kept only once it is answered.
noteGroupCall_talking(w, c, cs) ==
    [w EXCEPT !.callId = IF cs = "TALKING" THEN c ELSE @, !.call = cs]

\* A group call's id and state replace what PTTManager had, whatever that was.
noteGroupCall(w, c, cs) == [w EXCEPT !.callId = c, !.call = cs]

\* A call goes to the floor when its number is a listed group's, unless
\* the user is in a single call that was dialled.
showCallState(w, c, cs, code, t, ok) ==
    LET v == noteGroupCall(w, c, cs)
    IN  IF code # "ok" THEN showCallError(w, c, code, t)
        ELSE IF ~w.groups THEN passToSingleCall(w, w.status, c, cs, t)
        ELSE IF w.force THEN JNIUpdateCallState(w, c, cs)
        ELSE CASE cs = "RINGING" -> groupCallRinging(v, c, t)
               [] cs = "TALKING" -> groupCallTalking(v, c, t, ok)
               [] OTHER -> groupCallEnded(v, c, t, ok)

\* rsp:ptt-accept (BUSY) and ind:ptt-forceCancel (CANCELED).  A FORBIDDEN
\* clears; the application it repeats with the key down is sent by Forbidden.
receivePttRightResponse(w, r, t, ok) ==
    IF w.status = "SPEAKING" THEN w
    ELSE CASE r = "BUSY" -> refreshPttState([w EXCEPT !.status = "ACCEPTED"], t, ok)
           [] r = "CANCELED" ->
                refreshPttState(IF w.key = "UP" THEN FreeOrListening(w)
                                ELSE [w EXCEPT !.status = "CANCELED"], t, ok)
           [] OTHER -> [clear(w) EXCEPT !.key = w.key]

-----------------------------------------------------------------------------
(* Main thread: key broadcasts *)

\* The environment of the main thread: the finger on the key (a held key
\* repeats its DOWN), the back key, and the activity that comes to the top.
Press ==
    /\ Len(inbox) < MaxInbox
    /\ held' = TRUE
    /\ inbox' = Append(inbox, "DOWN")
    /\ UNCHANGED <<term, pc, top, dest, armed>>

Release ==
    /\ held /\ Len(inbox) < MaxInbox
    /\ held' = FALSE
    /\ inbox' = Append(inbox, "UP")
    /\ UNCHANGED <<term, pc, top, dest, armed>>

\* The main thread takes its next broadcast and may send another one.
Receive(b) == pc = "idle" /\ inbox # <<>> /\ Head(inbox) = b

Send(bs) == inbox' = Tail(inbox) \o bs

\* A single call makes the key inert.  A repeated DOWN applies again, except
\* where this user already has the floor.
handlePttDown ==
    LET w == term
        apply == IF w.key = "DOWN"
                 THEN \/ /\ w.status \in {"INIT", "FREE", "REJECTED", "CANCELED", "LISTENING"}
                         /\ w.speaker # "me"
                      \/ w.status = "CANCELING"
                 ELSE w.status \in {"LISTENING", "FREE", "REJECTED", "CANCELED", "IDLE", "INIT"}
        heard == w.scState \in {"IDLE", "ENDED"}
    IN  /\ Receive("DOWN")
        /\ term' = IF heard THEN [w EXCEPT !.key = "DOWN"] ELSE w
        /\ Send(IF heard /\ apply THEN <<"APPLY">> ELSE <<>>)
        /\ UNCHANGED <<pc, held, top, dest, armed>>

\* The key is up at once; what that means is decided 300 ms later, from the
\* status the callbacks have left by then.
handlePttUp ==
    /\ Receive("UP")
    /\ term' = [term EXCEPT !.key = "UP"]
    /\ pc' = "sleep"
    /\ Send(<<>>)
    /\ UNCHANGED <<held, top, dest, armed>>

\* Variant for mutation: a speaker's release sends nothing.
UpCommand_noSpeaking(status) ==
    CASE status \in {"APPLYING", "WAITING"} -> <<"CANCEL">>
      [] status = "ACCEPTED" -> <<"HANGUP">>
      [] status \in {"REJECTED", "CANCELED"} -> <<"UPDATE_UI">>
      [] OTHER -> <<>>

UpCommand(status) ==
    CASE status \in {"APPLYING", "WAITING"} -> <<"CANCEL">>
      [] status \in {"SPEAKING", "ACCEPTED"} -> <<"HANGUP">>
      [] status \in {"REJECTED", "CANCELED"} -> <<"UPDATE_UI">>
      [] OTHER -> <<>>

handlePttUpAwake ==
    /\ pc = "sleep"
    /\ pc' = "idle"
    /\ inbox' = inbox \o UpCommand(term.status)
    /\ term' = IF term.status \in {"REJECTED", "CANCELED"}
               THEN FreeOrListening(term) ELSE term
    /\ UNCHANGED <<held, top, dest, armed>>

-----------------------------------------------------------------------------
(* Main thread: command broadcasts *)

\* COMM_APPLY_PTT_RIGHT up to the JNI call.  Nothing looks at the key.
CommApply ==
    /\ Receive("APPLY") /\ Send(<<>>)
    /\ LET refused == top = "alert" \/ ~term.registered
       IN  /\ term' = IF refused THEN term
                      ELSE [term EXCEPT !.status = IF term.groups THEN "APPLYING" ELSE "INIT"]
           /\ pc' = IF refused \/ ~term.groups THEN "idle" ELSE "apply"
    /\ UNCHANGED <<held, top, dest, armed>>

CommApplyRequest ==
    /\ pc = "apply" /\ pc' = "idle"
    /\ \E ok \in BOOLEAN : term' = applyPttRight(term, ok)
    /\ UNCHANGED <<inbox, held, top, dest, armed>>

\* COMM_CANCEL_PTT_RIGHT.
CommCancel ==
    /\ Receive("CANCEL") /\ Send(<<>>)
    /\ term' = FreeOrListening(term)
    /\ pc' = "cancel"
    /\ UNCHANGED <<held, top, dest, armed>>

CommCancelRequest ==
    /\ pc = "cancel" /\ pc' = "idle"
    /\ \E ok \in BOOLEAN : term' = cancelPttRight(term, ok)
    /\ UNCHANGED <<inbox, held, top, dest, armed>>

\* COMM_HANGUP_PTT_CALL.
CommHangup ==
    /\ Receive("HANGUP") /\ Send(<<>>)
    /\ term' = [term EXCEPT !.status = "FREE", !.speaker = "none", !.call = "ENDING"]
    /\ pc' = "hangup"
    /\ UNCHANGED <<held, top, dest, armed>>

CommHangupRequest ==
    /\ pc = "hangup" /\ pc' = "idle"
    /\ term' = IF term.call \in {"IDLE", "ENDED"} THEN term ELSE hangupPttCall(term)
    /\ UNCHANGED <<inbox, held, top, dest, armed>>

\* COMM_UPDATE_PTT_UI only redraws.
CommUpdateUI ==
    /\ Receive("UPDATE_UI") /\ Send(<<>>)
    /\ UNCHANGED <<term, pc, held, top, dest, armed>>

\* The back key of PTTActivity takes back an application under way.
BackKey ==
    /\ pc = "idle" /\ top = "ptt" /\ Len(inbox) < MaxInbox
    /\ top' \in Screens \ {"ptt"}
    /\ top' = "call" => term.inCall
    /\ inbox' = IF term.status = "APPLYING" THEN Append(inbox, "CANCEL") ELSE inbox
    /\ UNCHANGED <<term, pc, held, dest, armed>>

-----------------------------------------------------------------------------
(* Worker thread *)

\* A worker callback leaves the main thread, its queue and the user alone.
Callback(w) == term' = w /\ UNCHANGED <<inbox, pc, held, top>>

\* on_incoming_call: the server calls the terminal for a group.  A server of
\* one call at a time has seen the BYE of the last one, and sent its ACK before
\* that: its messages come in order, so that no ACK is still to come.
on_incoming_call(c) ==
    /\ term.legs[c] = "null"
    /\ OneLeg => \A d \in CallIds : term.legs[d] \in {"null", "rejecting", "ending"}
    /\ LET w == [term EXCEPT !.legs = [term.legs EXCEPT ![c] = "incoming"],
                             !.cur = IF @ = NoCall THEN c ELSE @]
       IN  Callback(showCallState(w, c, "RINGING", "ok", top, TRUE))
    /\ dest' = TRUE
    /\ UNCHANGED armed

\* A call whose ACK comes.
Acknowledged(leg) == IF leg = "closing" THEN "ending" ELSE "confirmed"

\* on_call_state, CONFIRMED: the ACK came, the call's timer starts.  A BYE
\* leaves the session in CONNECTING, so a call that was hung up before its ACK
\* is reported as talking all the same.
CallConfirmed(c) ==
    /\ term.legs[c] \in {"connecting", "closing"}
    /\ LET w == [term EXCEPT !.legs = [term.legs EXCEPT ![c] = Acknowledged(@)],
                             !.cur = IF @ = NoCall THEN c ELSE @]
       IN  \E ok \in BOOLEAN : Callback(showCallState(w, c, "TALKING", "ok", top, ok))
    /\ armed' = armed \cup {c}
    /\ UNCHANGED dest

\* The reasons a call in a given state is reported disconnected with: a
\* refusal is a 486, a cancelled call a 487, an established one ends with a
\* BYE or fails.
EndCodes(leg) ==
    CASE leg = "rejecting" -> {"486"}
      [] leg = "incoming" -> {"ok"}
      [] OTHER -> {"ok", "err"}

\* show_call_state for DISCONNECTED: silent while another call is current,
\* and, with the multicast session busy, once dest_num was wiped.
ShowDisconnected(w, c, code) ==
    \/ /\ w.cur \notin {NoCall, c}
       /\ Callback(w) /\ UNCHANGED dest
    \/ /\ w.cur \in {NoCall, c} /\ ~dest
       /\ Callback(w) /\ UNCHANGED dest
    \/ /\ w.cur \in {NoCall, c}
       /\ \E ok \in BOOLEAN : Callback(showCallState(w, c, "ENDED", code, top, ok))
       /\ dest' = FALSE

\* on_call_state, DISCONNECTED.
CallDisconnected(c) ==
    /\ term.legs[c] # "null"
    /\ \E code \in EndCodes(term.legs[c]),
          next \in IF term.cur = c THEN NextCalls(term, c) ELSE {term.cur} :
         ShowDisconnected([term EXCEPT !.legs = [term.legs EXCEPT ![c] = "null"],
                                       !.cur = next], c, code)
    /\ armed' = armed \ {c}

\* call_timeout_callback, ninth time: 45 s without a multicast packet.
call_timeout_callback(c) ==
    /\ c \in armed
    /\ ShowDisconnected(term, c, "504")
    /\ armed' = armed \ {c}

\* ptt_signal_timer_cb drops a call that is not up after 60 s.
ptt_signal_timer_cb(c) ==
    /\ term.legs[c] \in {"incoming", "connecting"}
    /\ Callback(RequestHangup(term, c))
    /\ UNCHANGED <<dest, armed>>

\* rsp:ptt-accept, ind:ptt-forceCancel.
RightResponse(r) ==
    /\ r # "FORBIDDEN"
    /\ \E ok \in BOOLEAN : Callback(receivePttRightResponse(term, r, top, ok))
    /\ UNCHANGED <<dest, armed>>

\* A refused right is asked for again while the key is down.
Forbidden ==
    /\ "FORBIDDEN" \in RightResponses /\ Len(inbox) < MaxInbox
    /\ term' = receivePttRightResponse(term, "FORBIDDEN", top, TRUE)
    /\ inbox' = IF term.status # "SPEAKING" /\ term.key = "DOWN"
                THEN Append(inbox, "APPLY") ELSE inbox
    /\ UNCHANGED <<pc, held, top, dest, armed>>

\* rsp:ptt-waiting, rsp:ptt-reject and the multicast "nobody speaks" reach
\* JNIUpdatePTTState with an object of their own.
updatePttState(s) ==
    /\ \E ok \in BOOLEAN :
         Callback(JNIUpdatePTTState(term, [status |-> s, speaker |-> "none"], top, ok))
    /\ UNCHANGED <<dest, armed>>

CallInfo(spk) ==
    /\ \E ok \in BOOLEAN : Callback(mInviteIndicate(term, spk, top, ok))
    /\ UNCHANGED <<dest, armed>>

mByeIndicate ==
    /\ Callback(clear(term))
    /\ UNCHANGED <<dest, armed>>

GroupInfo ==
    /\ \E g \in GroupLists, ok \in BOOLEAN :
         Callback(JNIAddGroupInfo(term, g, top, ok))
    /\ UNCHANGED <<dest, armed>>

RegisterState(state) ==
    /\ Callback(JNIUpdateRegisterState(term, state))
    /\ UNCHANGED <<dest, armed>>

-----------------------------------------------------------------------------
(* Forced registration *)

\* The settings, the error dialog, the end of the initialisation or a member
\* state change register anew, on either thread and at any time.  With a
\* single call but no call screen the handler dies of a null instance.
Reregister ==
    /\ term.threads < MaxThreads
    /\ term.scState # "IDLE" => term.inCall
    /\ Callback(handleRegister(term))
    /\ UNCHANGED <<dest, armed>>

\* doRegister: REGISTERING, whatever comes of the login.
RegisterThread ==
    /\ term.threads > 0
    /\ Callback([term EXCEPT !.registered = FALSE, !.threads = @ - 1])
    /\ UNCHANGED <<dest, armed>>

-----------------------------------------------------------------------------
(* Activities *)

\* Another activity comes to the top.  InCallScreenActivity is started by
\* JNIUpdateCallState only.
SwitchScreen(s) ==
    /\ s # top
    /\ s = "call" => term.inCall \/ term.scState \in {"RINGING", "TALKING", "DIALING"}
    /\ top' = s
    /\ term' = [term EXCEPT !.inCall = @ \/ s = "call"]
    /\ UNCHANGED <<inbox, pc, held, dest, armed>>

\* onDestroy of InCallScreenActivity, ignored while its call is going on.
CallScreenDestroyed ==
    /\ term.inCall /\ term.scState \notin {"RINGING", "TALKING", "DIALING"}
    /\ \E s \in Screens \ {"call"} : top' = s
    /\ term' = clearSingleCall([term EXCEPT !.inCall = FALSE])
    /\ UNCHANGED <<inbox, pc, held, dest, armed>>

-----------------------------------------------------------------------------
Init ==
    /\ term = [status |-> "IDLE", speaker |-> "none", callId |-> NoCall,
               key |-> "UP", call |-> "IDLE",
               scState |-> "IDLE", scId |-> FirstCall, force |-> FALSE,
               ring |-> FALSE, inCall |-> FALSE,
               legs |-> [c \in CallIds |-> "null"], cur |-> NoCall,
               registered |-> FALSE, groups |-> FALSE, threads |-> 0]
    /\ inbox = <<>>
    /\ pc = "idle"
    /\ held = FALSE
    /\ top \in Screens \ {"call"}
    /\ dest = FALSE
    /\ armed = {}

MainNext ==
    \/ handlePttDown \/ handlePttUp \/ handlePttUpAwake
    \/ CommApply \/ CommApplyRequest
    \/ CommCancel \/ CommCancelRequest
    \/ CommHangup \/ CommHangupRequest
    \/ CommUpdateUI

WorkerNext ==
    \/ \E c \in CallIds : \/ on_incoming_call(c) \/ CallConfirmed(c)
                          \/ CallDisconnected(c) \/ call_timeout_callback(c)
                          \/ ptt_signal_timer_cb(c)
    \/ \E r \in RightResponses : RightResponse(r)
    \/ Forbidden
    \/ \E s \in {"FREE", "WAITING", "REJECTED"} : updatePttState(s)
    \/ \E spk \in Speakers : CallInfo(spk)
    \/ mByeIndicate
    \/ GroupInfo
    \/ \E state \in RegReports : RegisterState(state)

UserNext ==
    \/ Press \/ Release \/ BackKey
    \/ \E s \in Screens : SwitchScreen(s)
    \/ CallScreenDestroyed

RegisterNext == Reregister \/ RegisterThread

Next == MainNext \/ WorkerNext \/ UserNext \/ RegisterNext

\* The looper keeps running; nothing is assumed of the server or the user.
Spec == Init /\ [][Next]_vars /\ WF_vars(MainNext)

-----------------------------------------------------------------------------
(* Properties *)

\* The 300 ms sleep of handlePttUp or a queued COMM_HANGUP_PTT_CALL will
\* still take the floor away.
ReleasePending ==
    pc = "sleep" \/ \E i \in 1..Len(inbox) : inbox[i] = "HANGUP"

\* Speaking with the key up, and nothing on its way to end it.
Unattended ==
    term.status = "SPEAKING" /\ term.key = "UP" /\ ~ReleasePending

\* No step of any thread leaves the terminal speaking with a released key
\* and no release under way, except while a single call's screen hides the
\* floor from JNIUpdatePTTState.
NoUnattendedSpeech ==
    [][Unattended' => Unattended \/ InSingleCall(term, top)]_vars

\* The status shown and the speaker named agree, whichever of the two
\* threads wrote last: a terminal that speaks names itself, one that listens
\* names somebody, a cleared one nobody.
FloorNaming ==
    /\ term.status = "SPEAKING" => term.speaker = "me"
    /\ term.status = "LISTENING" => term.speaker # "none"
    /\ term.status = "IDLE" => term.speaker = "none"

\* current_call always is a call pjsua still has, and is unset only when
\* there is none to end: otherwise show_call_state swallows the ends of live
\* calls and answer() looks at a dead one.
CurrentCallLive ==
    IF term.cur = NoCall
    THEN \A c \in CallIds : term.legs[c] \in {"null", "rejecting"}
    ELSE term.legs[term.cur] # "null"

Live(leg) == leg \in {"incoming", "connecting", "confirmed"}

\* The id PTTManager keeps is that of the open call, unless a clear dropped
\* it: hangupPttCall never ends a dead call while the floor's call stays up.
\* For a server that keeps to one group call at a time.
HangupReachesCall ==
    \A c \in CallIds : Live(term.legs[c]) => term.callId \in {c, NoCall}

Established(leg) == leg \in {"confirmed", "ending"}

\* A callState of TALKING in PTTManager stands for a call the stack still
\* has: JNIUpdatePTTState takes the floor, and hangs up, on its word.
TalkingIsReal ==
    term.call = "TALKING" => \E c \in CallIds : Established(term.legs[c])

\* A released key ends the speech, whatever the server does.
ReleaseEndsSpeech ==
    term.status = "SPEAKING" /\ term.key = "UP"
        ~> term.status # "SPEAKING" \/ term.key = "DOWN"

\* "check if any single call exist, if so , ignore and if not , do ptt"
\* (handlePttDown): the single-call state that makes the key inert is never
\* entered for a call whose number is the group's.
KeyInertOnlyInSingleCall ==
    [][term.groups /\ term.scState \in {"IDLE", "ENDED"}
         => term'.scState \in {"IDLE", "ENDED"}]_vars

\* "when waiting or applying or speaking or accepted , ignore the PTT_FREE
\* status" (JNIUpdatePTTState): with the key down no report of a free floor
\* makes the terminal FREE while the call it speaks on stands.
FreeIgnoredWhileHeld ==
    [][/\ term.status = "SPEAKING" /\ term.key = "DOWN"
       /\ \E c \in CallIds : term.legs[c] = "confirmed"
       /\ pc' = pc /\ term'.legs = term.legs
       => term'.status # "FREE"]_vars

\* "auto answer the s-Invite" (showCallState): the call that brings a granted
\* floor to the waiting user is answered.
InviteAnswered ==
    [][\A c \in CallIds :
         /\ term.legs[c] = "null" /\ term'.legs[c] # "null"
         /\ term.groups /\ term.status = "ACCEPTED" /\ term.key = "DOWN"
         => term'.legs[c] = "connecting"]_vars

=============================================================================
