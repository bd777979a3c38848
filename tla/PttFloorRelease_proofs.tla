----------------------- MODULE PttFloorRelease_proofs -----------------------
(***************************************************************************)
(* Proof of NoUnattendedSpeech: no step leaves the terminal speaking with  *)
(* a released key and no release on its way.                               *)
(*                                                                         *)
(* Two things can break it: a handler that gives the floor to a released   *)
(* key, and the loss of the release that is under way.  The first part     *)
(* shows, operator by operator, that a handler ends on the air with the    *)
(* key up only if it started so, or if a single call's screen stopped      *)
(* JNIUpdatePTTState; the naming invariant of PttFloor_proofs is what      *)
(* makes claimFloor give the floor back.  The second part follows the      *)
(* queue.                                                                  *)
(***************************************************************************)
EXTENDS PttFloor_proofs

OnAir(w) == w.status = "SPEAKING" /\ w.key = "UP"

\* What a handler may do to the floor: it ends on the air only if it started
\* there or a single call hides the floor.
Attended(v, w, t) == OnAir(v) => OnAir(w) \/ InSingleCall(w, t)

-----------------------------------------------------------------------------
(* Handlers *)

\* Requests to the stack and the single-call side leave status and key alone.
LEMMA HangupKeeps ==
    ASSUME NEW w, Sound(w), NEW c \in CallIds
    PROVE  /\ RequestHangup(w, c).status = w.status
           /\ RequestHangup(w, c).key = w.key
           /\ RequestHangup(w, c).speaker = w.speaker
  BY DEF RequestHangup, Sound, Terminal

\* answer() leaves status and key alone.
LEMMA AnswerKeeps ==
    ASSUME NEW w, Sound(w), NEW c \in CallIds
    PROVE  /\ RequestAnswer(w, c).status = w.status
           /\ RequestAnswer(w, c).key = w.key
  BY DEF RequestAnswer, Sound, Terminal

\* hangupPttCall leaves status and key alone.
LEMMA HangupPttKeeps ==
    ASSUME NEW w, Sound(w)
    PROVE  hangupPttCall(w).status = w.status /\ hangupPttCall(w).key = w.key
  BY HangupKeeps DEF hangupPttCall, Sound, Terminal

\* A refused request can only take the floor away.
LEMMA RequestQuiet ==
    ASSUME NEW w, Sound(w), NEW ok \in BOOLEAN
    PROVE  /\ OnAir(checkResult(w, ok)) => OnAir(w)
           /\ OnAir(cancelPttRight(w, ok)) => OnAir(w)
           /\ OnAir(applyPttRight(w, ok)) => OnAir(w)
  <1>1. ~ OnAir([w EXCEPT !.speaker = "none", !.status = "FREE"])
    BY DEF OnAir, Sound, Terminal
  <1>2. OnAir(checkResult(w, ok)) => OnAir(w)
    BY <1>1 DEF checkResult
  <1> QED  BY <1>2 DEF cancelPttRight, applyPttRight

\* The tail of showCallState leaves status and key alone.
LEMMA PassKeeps ==
    ASSUME NEW w, Sound(w), NEW before, NEW c \in CallIds, NEW cs, NEW t
    PROVE  OnAir(passToSingleCall(w, before, c, cs, t)) <=> OnAir(w)
  <1>1. OnAir(JNIUpdateCallState(w, c, cs)) <=> OnAir(w)
    BY DEF JNIUpdateCallState, OnAir, Sound, Terminal
  <1>2. OnAir([w EXCEPT !.callId = c]) <=> OnAir(w)
    BY DEF OnAir, Sound, Terminal
  <1> QED  BY <1>1, <1>2 DEF passToSingleCall

\* No reported status is SPEAKING.
LEMMA AdoptQuiet ==
    ASSUME NEW w, Sound(w), NEW obj \in Reports
    PROVE  OnAir(adoptPttState(w, obj)) => OnAir(w)
  BY DEF adoptPttState, OnAir, Sound, Terminal, Reports

\* A floor claimed with the key up is given back.
LEMMA ClaimQuiet ==
    ASSUME NEW w, Sound(w), NEW obj \in Reports, NEW said,
           OnAir(claimFloor(w, obj, said))
    PROVE  OnAir(w) /\ said # "me"
  <1> DEFINE talking == /\ w.call = "TALKING" /\ obj.status # "SPEAKING"
                        /\ w.key = "DOWN" /\ said = "me"
             v == IF talking THEN [w EXCEPT !.status = "SPEAKING", !.speaker = "me"] ELSE w
             back == IF v.call = "TALKING" THEN hangupPttCall(v) ELSE v
  <1>1. v.key = w.key /\ Sound(v) /\ v \in Terminal /\ (said # "me" => v = w)
    <2>1. Sound([w EXCEPT !.status = "SPEAKING", !.speaker = "me"])
      BY SetFloorSound DEF Statuses, Speakers
    <2>2. [w EXCEPT !.status = "SPEAKING", !.speaker = "me"].key = w.key
      BY DEF Sound, Terminal
    <2> QED  BY <2>1, <2>2 DEF Sound
  <1> HIDE DEF v, back
  <1>2. claimFloor(w, obj, said) =
          IF v.status \notin {"LISTENING", "SPEAKING"} \/ said # "me" THEN v
          ELSE IF v.key = "DOWN" THEN [v EXCEPT !.status = "SPEAKING"]
          ELSE [back EXCEPT !.status = "FREE", !.speaker = "none"]
    BY DEF claimFloor, v, back
  <1>3. CASE said # "me"
    BY <1>1, <1>2, <1>3
  <1>4. CASE said = "me" /\ v.status \notin {"LISTENING", "SPEAKING"}
    BY <1>2, <1>4 DEF OnAir
  <1>5. CASE said = "me" /\ v.status \in {"LISTENING", "SPEAKING"} /\ v.key = "DOWN"
    <2>1. [v EXCEPT !.status = "SPEAKING"].key = "DOWN"
      BY <1>1, <1>5 DEF Terminal
    <2> QED  BY <1>2, <1>5, <2>1 DEF OnAir
  <1>6. CASE said = "me" /\ v.status \in {"LISTENING", "SPEAKING"} /\ v.key # "DOWN"
    <2>1. [back EXCEPT !.status = "FREE", !.speaker = "none"].status # "SPEAKING"
      <3>1. back \in Terminal
        BY <1>1, HangupPttSound DEF back, Sound
      <3> QED  BY <3>1 DEF Terminal
    <2> QED  BY <1>2, <1>6, <2>1 DEF OnAir
  <1> QED  BY <1>3, <1>4, <1>5, <1>6

\* What a released key gives back is never a floor.
LEMMA ReleaseQuiet ==
    ASSUME NEW w, Sound(w), NEW ok \in BOOLEAN
    PROVE  OnAir(releaseIfUp(w, ok)) => OnAir(w)
  <1>1. OnAir(cancelPttRight(w, ok)) => OnAir(w)
    BY RequestQuiet
  <1>2. OnAir(hangupPttCall(w)) => OnAir(w)
    BY HangupPttKeeps DEF OnAir
  <1>3. ~ OnAir([w EXCEPT !.status = "FREE", !.speaker = "none"])
    BY DEF OnAir, Sound, Terminal
  <1> QED  BY <1>1, <1>2, <1>3 DEF releaseIfUp

\* JNIUpdatePTTState with a report that does not name this user anew.
LEMMA UpdateQuiet ==
    ASSUME NEW w, Sound(w), NEW obj \in Reports, NEW t, NEW ok \in BOOLEAN,
           obj.speaker = "me" => w.speaker = "me"
    PROVE  OnAir(JNIUpdatePTTState(w, obj, t, ok)) => OnAir(w)
  <1> DEFINE asked == obj.status \in {"WAITING", "REJECTED"}
             said  == IF asked THEN w.speaker ELSE obj.speaker
             v     == adoptPttState(w, obj)
  <1>1. Sound(v) /\ (OnAir(v) => OnAir(w))
    BY AdoptSound, AdoptQuiet
  <1>2. said = "me" => v.speaker = "me"
    BY DEF adoptPttState, Sound, Terminal, Reports
  <1> HIDE DEF v, said
  <1>3. Sound(claimFloor(v, obj, said)) /\ (OnAir(claimFloor(v, obj, said)) => OnAir(v))
    BY <1>1, <1>2, ClaimSound, ClaimQuiet
  <1>4. OnAir(releaseIfUp(claimFloor(v, obj, said), ok)) => OnAir(v)
    BY <1>3, ReleaseQuiet
  <1> QED  BY <1>1, <1>4 DEF JNIUpdatePTTState, v, said

\* Outside a single call a refresh takes the floor from a released key.
LEMMA RefreshQuiet ==
    ASSUME NEW w, Sound(w), NEW t, NEW ok \in BOOLEAN
    PROVE  /\ OnAir(refreshPttState(w, t, ok)) => OnAir(w)
           /\ OnAir(refreshPttState(w, t, ok)) => InSingleCall(w, t)
  <1> DEFINE obj == [status |-> w.status, speaker |-> w.speaker]
             v == adoptPttState(w, obj)
  <1>1. obj \in Reports /\ obj.speaker = w.speaker /\ obj.status = w.status
    BY DEF Sound, Terminal, Reports
  <1> HIDE DEF obj
  <1>2. OnAir(refreshPttState(w, t, ok)) => OnAir(w)
    BY <1>1, UpdateQuiet DEF refreshPttState, obj
  <1>3. ASSUME OnAir(w)
        PROVE  /\ v = w
               /\ JNIUpdatePTTState(w, obj, t, ok) =
                    IF InSingleCall(w, t) THEN w
                    ELSE releaseIfUp(claimFloor(w, obj, w.speaker), ok)
    <2>1. v = w
      BY <1>1, <1>3 DEF adoptPttState, OnAir
    <2> QED  BY <1>1, <1>3, <2>1 DEF JNIUpdatePTTState, OnAir
  <1>4. ASSUME OnAir(w)
        PROVE  ~ OnAir(releaseIfUp(claimFloor(w, obj, w.speaker), ok))
    <2>1. w.speaker = "me"
      BY <1>4 DEF OnAir, Sound, Named
    <2>2. ~ OnAir(claimFloor(w, obj, w.speaker))
      BY <1>1, <2>1, ClaimQuiet
    <2>3. Sound(claimFloor(w, obj, w.speaker))
      BY <1>1, ClaimSound
    <2> QED  BY <2>2, <2>3, ReleaseQuiet
  <1> QED  BY <1>2, <1>3, <1>4 DEF refreshPttState, obj

\* Whether a single call hides the floor depends on two fields.
LEMMA SingleCallSame ==
    ASSUME NEW v, NEW w, NEW t, v.force = w.force, v.inCall = w.inCall
    PROVE  InSingleCall(v, t) <=> InSingleCall(w, t)
  BY DEF InSingleCall, SingleCallOnTop

\* mInviteIndicate: a floor given to a released key is refreshed away,
\* unless a single call stops the refresh.
LEMMA CallInfoAttended ==
    ASSUME NEW w0, Sound(w0), NEW spk \in Speakers, NEW t, NEW ok \in BOOLEAN
    PROVE  Attended(mInviteIndicate(w0, spk, t, ok), w0, t)
  <1> DEFINE single == w0.scState \notin {"ENDED", "IDLE"}
             w == IF single THEN clearSingleCall(w0) ELSE w0
             kept == w.status \in {"WAITING", "APPLYING", "REJECTED"} /\ w.key = "DOWN"
             ended == IF w.status = "LISTENING" THEN hangupPttCall(w) ELSE w
             freed == [ended EXCEPT !.status = "FREE", !.speaker = "none"]
             mine == [w EXCEPT !.status = "SPEAKING", !.speaker = "me"]
             named == [w EXCEPT !.speaker = spk,
                                !.status = IF kept THEN @ ELSE "LISTENING"]
  <1>1. Sound(w) /\ Sound(ended) /\ Sound(hangupPttCall(w))
    BY ClearSingleSound, HangupPttSound
  <1>2. w.status = w0.status /\ w.key = w0.key
    BY DEF clearSingleCall, Sound, Terminal
  <1>3. InSingleCall(w, t) => InSingleCall(w0, t)
    <2>1. ~ clearSingleCall(w0).force /\ clearSingleCall(w0).inCall = w0.inCall
      BY DEF clearSingleCall, Sound, Terminal
    <2>2. InSingleCall(clearSingleCall(w0), t) => InSingleCall(w0, t)
      BY <2>1 DEF InSingleCall, SingleCallOnTop
    <2> QED  BY <2>2
  <1>4. ~ OnAir([w0 EXCEPT !.status = "LISTENING", !.speaker = spk])
    BY DEF OnAir, Sound, Terminal
  <1> HIDE DEF w, ended, single
  <1>5. ~ OnAir([hangupPttCall(w) EXCEPT !.status = "APPLYING", !.speaker = "none"])
    BY <1>1 DEF OnAir, Sound, Terminal
  <1>6. Sound(freed) /\ ~ OnAir(freed)
    <2>1. Sound(freed)
      BY <1>1, SetFloorSound DEF Statuses, Speakers
    <2> QED  BY <1>1, <2>1 DEF OnAir, Sound, Terminal
  <1>7. Sound(mine) /\ (InSingleCall(mine, t) <=> InSingleCall(w, t))
    <2>1. mine.force = w.force /\ mine.inCall = w.inCall
      BY <1>1 DEF Sound, Terminal
    <2> QED  BY <1>1, <2>1, SetFloorSound, SingleCallSame DEF Statuses, Speakers
  <1>8. spk # "none" => Sound(named) /\ ~ OnAir(named)
    <2>1. named \in Terminal
      BY <1>1 DEF Sound, Terminal, Statuses
    <2>2. ~ OnAir(named)
      BY <1>1 DEF Sound, OnAir, Terminal
    <2> QED  BY <1>1, <2>1, <2>2 DEF Sound, Named, CallsTracked, Terminal
  <1> HIDE DEF freed, mine, named
  <1>9. /\ ~ OnAir(refreshPttState(freed, t, ok))
        /\ OnAir(refreshPttState(mine, t, ok)) => InSingleCall(w0, t)
        /\ spk # "none" => ~ OnAir(refreshPttState(named, t, ok))
    BY <1>3, <1>6, <1>7, <1>8, RefreshQuiet
  <1>10. OnAir(w) <=> OnAir(w0)
    BY <1>2 DEF OnAir
  <1> QED
    BY <1>4, <1>5, <1>9, <1>10
       DEF mInviteIndicate, Attended, w, ended, single, freed, mine, named

\* PTTManager.clear leaves the terminal idle.
LEMMA ClearQuiet ==
    ASSUME NEW w, Sound(w)
    PROVE  clear(w).status = "IDLE" /\ ~ OnAir(clear(w))
  BY DEF clear, OnAir, Sound, Terminal

\* JNIAddGroupInfo never gives the floor.
LEMMA GroupInfoQuiet ==
    ASSUME NEW w0, Sound(w0), NEW t, NEW ok \in BOOLEAN,
           NEW g \in [listed : BOOLEAN, gone : BOOLEAN, dynamic : BOOLEAN]
    PROVE  OnAir(JNIAddGroupInfo(w0, g, t, ok)) => OnAir(w0)
  <1> DEFINE w == [w0 EXCEPT !.groups = g.listed]
             v == IF w.status # "INIT" THEN w
                  ELSE IF ~g.listed THEN clear(w)
                  ELSE IF w.key = "UP" THEN [w EXCEPT !.status = "FREE"]
                  ELSE IF t # "alert" /\ w.registered
                       THEN applyPttRight([w EXCEPT !.status = "APPLYING"], ok) ELSE w
             gone == IF v.status = "SPEAKING" /\ v.key = "DOWN" THEN hangupPttCall(v) ELSE v
  <1>1. Sound(w) /\ (OnAir(w) <=> OnAir(w0))
    <2>1. w \in Terminal /\ (OnAir(w) <=> OnAir(w0))
      BY DEF Sound, OnAir, Terminal
    <2> QED  BY <2>1 DEF Sound, Named, CallsTracked, Terminal
  <1> HIDE DEF w
  <1>2. Sound([w EXCEPT !.status = "FREE"]) /\ Sound([w EXCEPT !.status = "APPLYING"])
    BY <1>1, SetStatusSound DEF Statuses
  <1>3. ~ OnAir([w EXCEPT !.status = "FREE"]) /\ ~ OnAir([w EXCEPT !.status = "APPLYING"])
    BY <1>1 DEF OnAir, Sound, Terminal
  <1>4. Sound(v) /\ (OnAir(v) => OnAir(w))
    <2>1. Sound(v)
      BY <1>1, <1>2, ClearSound, ApplySound
    <2>2. OnAir(v) => OnAir(w)
      BY <1>1, <1>2, <1>3, ClearQuiet, RequestQuiet
    <2> QED  BY <2>1, <2>2
  <1> HIDE DEF v
  <1>5. ~ OnAir(clear(gone))
    BY <1>4, HangupPttSound, ClearQuiet
  <1> QED  BY <1>1, <1>4, <1>5 DEF JNIAddGroupInfo, w, v

\* JNIUpdateRegisterState never gives the floor.
LEMMA RegisterQuiet ==
    ASSUME NEW w, Sound(w), NEW state
    PROVE  OnAir(JNIUpdateRegisterState(w, state)) => OnAir(w)
  <1> DEFINE hang == state = "REG_ERROR"
             v == IF w.status = "IDLE" THEN w
                  ELSE clear(IF hang THEN hangupPttCall(w) ELSE w)
             x == IF hang THEN RequestHangup(v, v.scId) ELSE v
             u == IF v.scState = "IDLE" THEN v ELSE clearSingleCall(x)
  <1>1. Sound(v) /\ v.status = "IDLE"
    BY HangupPttSound, ClearSound, ClearQuiet
  <1> HIDE DEF v
  <1>2. Sound(x) /\ x.status = "IDLE"
    <2>1. v.scId \in CallIds
      BY <1>1 DEF Sound, Terminal
    <2> QED  BY <1>1, <2>1, HangupSound, HangupKeeps
  <1> HIDE DEF x
  <1>3. Sound(u) /\ u.status = "IDLE"
    <2>1. clearSingleCall(x).status = "IDLE"
      BY <1>2 DEF clearSingleCall, Sound, Terminal
    <2> QED  BY <1>1, <1>2, <2>1, ClearSingleSound
  <1> HIDE DEF u
  <1>4. ~ OnAir([u EXCEPT !.registered = FALSE, !.groups = FALSE])
    BY <1>3 DEF OnAir, Sound, Terminal
  <1>5. OnAir([w EXCEPT !.registered = TRUE]) => OnAir(w)
    BY DEF OnAir, Sound, Terminal
  <1> QED  BY <1>4, <1>5 DEF JNIUpdateRegisterState, u, v, x

\* A forced registration leaves the floor idle.
LEMMA ReregisterQuiet ==
    ASSUME NEW w, Sound(w)
    PROVE  ~ OnAir(handleRegister(w))
  <1> DEFINE v == IF w.status = "IDLE" THEN w ELSE clear(w)
             x == [v EXCEPT !.ring = FALSE]
             u == IF v.scState = "IDLE" THEN v ELSE clearSingleCall(x)
  <1>1. Sound(v) /\ v.status = "IDLE"
    BY ClearSound, ClearQuiet
  <1> HIDE DEF v
  <1>2. x \in Terminal /\ x.status = "IDLE"
    BY <1>1 DEF Sound, Terminal
  <1> HIDE DEF x
  <1>3. u.status = "IDLE" /\ [u EXCEPT !.groups = FALSE, !.threads = @ + 1].status = "IDLE"
    BY <1>1, <1>2, CallIdAssumption DEF clearSingleCall, Sound, Terminal, CallStates
  <1> HIDE DEF u
  <1> QED  BY <1>3 DEF handleRegister, OnAir, u, x, v

\* The error path of showCallState never gives the floor.
LEMMA ErrorQuiet ==
    ASSUME NEW w, Sound(w), NEW c \in CallIds, NEW code, NEW t
    PROVE  OnAir(showCallError(w, c, code, t)) => OnAir(w)
  <1> DEFINE free == [w EXCEPT !.status = "FREE", !.speaker = "none", !.call = "ENDED"]
             end == [w EXCEPT !.call = "ENDED"]
             v == IF InSingleCall(w, t) \/ ~w.groups
                  THEN IF w.scState \in {"RINGING", "REJECTING"} /\ code # "486"
                       THEN w ELSE JNIUpdateCallState(w, c, "ENDED")
                  ELSE IF w.key # "DOWN" /\ t # "ptt" THEN w
                  ELSE IF code \in {"486", "504"} THEN free ELSE end
  <1>1. Sound(JNIUpdateCallState(w, c, "ENDED"))
    BY UpdateCallSound DEF CallStates
  <1>2. OnAir(JNIUpdateCallState(w, c, "ENDED")) => OnAir(w)
    BY DEF JNIUpdateCallState, OnAir, Sound, Terminal
  <1>3. ~ OnAir(free) /\ (OnAir(end) => OnAir(w))
    BY DEF OnAir, Sound, Terminal
  <1>4. Sound(free)
    <2>1. free \in Terminal
      BY DEF Sound, Terminal, Statuses, Speakers, CallStates
    <2> QED  BY <2>1 DEF Sound, Named, CallsTracked, Terminal
  <1>5. Sound(end)
    <2>1. end \in Terminal
      BY DEF Sound, Terminal, CallStates
    <2> QED  BY <2>1 DEF Sound, Named, CallsTracked, Terminal
  <1> HIDE DEF free, end
  <1>6. Sound(v) /\ (OnAir(v) => OnAir(w))
    BY <1>1, <1>2, <1>3, <1>4, <1>5
  <1> HIDE DEF v
  <1>7. OnAir(RequestHangup(v, c)) => OnAir(v)
    BY <1>6, HangupKeeps DEF OnAir
  <1> QED  BY <1>6, <1>7 DEF showCallError, v, free, end

\* An incoming group call does not give the floor yet.
LEMMA RingingQuiet ==
    ASSUME NEW w, Sound(w), NEW c \in CallIds, NEW t
    PROVE  OnAir(groupCallRinging(w, c, t)) => OnAir(w)
  <1> DEFINE v == IF w.key = "UP" THEN RequestHangup(w, c) ELSE w
  <1>1. OnAir(RequestAnswer(w, c)) => OnAir(w)
    BY AnswerKeeps DEF OnAir
  <1>2. Sound(v) /\ (OnAir(v) => OnAir(w))
    BY HangupSound, HangupKeeps DEF OnAir
  <1> HIDE DEF v
  <1>3. OnAir(passToSingleCall(v, w.status, c, "RINGING", t)) => OnAir(w)
    BY <1>2, PassKeeps
  <1> QED  BY <1>1, <1>3 DEF groupCallRinging, v

\* A confirmed group call gives the floor to a held key, or refreshes.
LEMMA TalkingAttended ==
    ASSUME NEW w, Sound(w), NEW c \in CallIds, NEW t, NEW ok \in BOOLEAN
    PROVE  Attended(groupCallTalking(w, c, t, ok), w, t)
  <1> DEFINE mine == [w EXCEPT !.status = IF w.speaker = "peer" THEN @ ELSE "SPEAKING",
                               !.speaker = IF w.key = "DOWN" THEN "me" ELSE @]
             v == CASE w.status \in {"REJECTED", "INIT", "SPEAKING"} -> w
                    [] w.key = "DOWN" \/ w.status = "LISTENING" -> refreshPttState(mine, t, ok)
                    [] OTHER -> hangupPttCall(w)
  <1>1. w.key = "DOWN" \/ w.status = "LISTENING" => Sound(mine)
    <2>1. mine \in Terminal
      BY DEF Sound, Terminal, Statuses, Speakers
    <2>2. w.key = "DOWN" \/ w.status = "LISTENING" => Named(mine)
      BY DEF Sound, Named, Terminal, Speakers
    <2>3. CallsTracked(mine)
      BY DEF Sound, CallsTracked, Terminal
    <2> QED  BY <2>1, <2>2, <2>3 DEF Sound
  <1>2. InSingleCall(mine, t) <=> InSingleCall(w, t)
    <2>1. mine.force = w.force /\ mine.inCall = w.inCall
      BY DEF Sound, Terminal
    <2> QED  BY <2>1, SingleCallSame
  <1> HIDE DEF mine
  <1>3. Sound(v)
    BY <1>1, RefreshSound, HangupPttSound
  <1>4. OnAir(hangupPttCall(w)) => OnAir(w)
    BY HangupPttKeeps DEF OnAir
  <1>5. OnAir(v) => OnAir(w) \/ InSingleCall(w, t)
    BY <1>1, <1>2, <1>4, RefreshQuiet
  <1> HIDE DEF v
  <1>6. OnAir(passToSingleCall(v, w.status, c, "TALKING", t)) <=> OnAir(v)
    BY <1>3, PassKeeps
  <1> QED  BY <1>5, <1>6 DEF groupCallTalking, Attended, v, mine

\* The end of a group call never gives the floor.
LEMMA EndedQuiet ==
    ASSUME NEW w, Sound(w), NEW c \in CallIds, NEW t, NEW ok \in BOOLEAN
    PROVE  OnAir(groupCallEnded(w, c, t, ok)) => OnAir(w)
  <1> DEFINE x == [w EXCEPT !.status = "FREE", !.speaker = "none"]
             y == [cancelPttRight(w, ok) EXCEPT !.status = "CANCELING"]
             freed == refreshPttState(x, t, ok)
  <1>1. Sound(x) /\ ~ OnAir(x)
    <2>1. Sound(x)
      BY SetFloorSound DEF Statuses, Speakers
    <2> QED  BY <2>1 DEF OnAir, Sound, Terminal
  <1>2. Sound(y) /\ ~ OnAir(y)
    <2>1. Sound(cancelPttRight(w, ok))
      BY CancelSound
    <2>2. Sound(y)
      BY <2>1, SetStatusSound DEF Statuses
    <2> QED  BY <2>1, <2>2 DEF OnAir, Sound, Terminal
  <1>3. Sound(FreeOrListening(w)) /\ ~ OnAir(FreeOrListening(w))
    <2>1. ~ OnAir(FreeOrListening(w))
      BY DEF FreeOrListening, OnAir, Sound, Terminal
    <2> QED  BY <2>1, FreeOrListeningSound
  <1> HIDE DEF x, y
  <1>4. Sound(freed) /\ ~ OnAir(freed)
    BY <1>1, RefreshSound, RefreshQuiet
  <1>5. /\ ~ OnAir(refreshPttState(FreeOrListening(w), t, ok))
        /\ ~ OnAir(refreshPttState(y, t, ok))
    BY <1>2, <1>3, RefreshQuiet
  <1> HIDE DEF freed
  <1>6. /\ ~ OnAir(passToSingleCall(freed, "LISTENING", c, "ENDED", t))
        /\ OnAir(passToSingleCall(w, w.status, c, "ENDED", t)) => OnAir(w)
    BY <1>4, PassKeeps
  <1> QED  BY <1>4, <1>5, <1>6 DEF groupCallEnded, freed, x, y

\* showCallState as a whole.
LEMMA ShowCallAttended ==
    ASSUME NEW w, Sound(w), NEW c \in CallIds, NEW cs \in {"RINGING", "TALKING", "ENDED"},
           NEW code, NEW t, NEW ok \in BOOLEAN
    PROVE  Attended(showCallState(w, c, cs, code, t, ok), w, t)
  <1> DEFINE v == noteGroupCall(w, c, cs)
  <1>1. cs \in CallStates
    BY DEF CallStates
  <1>2. Sound(v) /\ v.status = w.status /\ v.key = w.key
    <2>1. v \in Terminal /\ v.status = w.status /\ v.key = w.key
      BY <1>1 DEF Sound, noteGroupCall, Terminal
    <2> QED  BY <2>1 DEF Sound, noteGroupCall, Named, CallsTracked, Terminal
  <1>3. (OnAir(v) <=> OnAir(w)) /\ (InSingleCall(v, t) <=> InSingleCall(w, t))
    <2>1. v.force = w.force /\ v.inCall = w.inCall
      BY DEF noteGroupCall, Sound, Terminal
    <2> QED  BY <1>2, <2>1, SingleCallSame DEF OnAir
  <1> HIDE DEF v
  <1>4. /\ OnAir(groupCallRinging(v, c, t)) => OnAir(w)
        /\ OnAir(groupCallTalking(v, c, t, ok)) => OnAir(w) \/ InSingleCall(w, t)
        /\ OnAir(groupCallEnded(v, c, t, ok)) => OnAir(w)
    BY <1>2, <1>3, RingingQuiet, TalkingAttended, EndedQuiet DEF Attended
  <1>5. /\ OnAir(showCallError(w, c, code, t)) => OnAir(w)
        /\ OnAir(passToSingleCall(w, w.status, c, cs, t)) => OnAir(w)
    BY <1>1, ErrorQuiet, PassKeeps
  <1>6. OnAir(JNIUpdateCallState(w, c, cs)) => OnAir(w)
    BY DEF JNIUpdateCallState, OnAir, Sound, Terminal
  <1> QED  BY <1>4, <1>5, <1>6 DEF showCallState, Attended, v

\* An answer of the server is not yet the floor.
LEMMA ResponseQuiet ==
    ASSUME NEW w, Sound(w), NEW r, NEW t, NEW ok \in BOOLEAN
    PROVE  OnAir(receivePttRightResponse(w, r, t, ok)) => OnAir(w)
  <1> DEFINE x == [w EXCEPT !.status = "ACCEPTED"]
             y == IF w.key = "UP" THEN FreeOrListening(w) ELSE [w EXCEPT !.status = "CANCELED"]
             z == [clear(w) EXCEPT !.key = w.key]
  <1>1. Sound(x) /\ ~ OnAir(x)
    <2>1. Sound(x)
      BY SetStatusSound DEF Statuses
    <2> QED  BY <2>1 DEF OnAir, Sound, Terminal
  <1>2. Sound(y) /\ ~ OnAir(y)
    <2>1. Sound([w EXCEPT !.status = "CANCELED"]) /\ Sound(FreeOrListening(w))
      BY SetStatusSound, FreeOrListeningSound DEF Statuses
    <2>2. ~ OnAir([w EXCEPT !.status = "CANCELED"]) /\ ~ OnAir(FreeOrListening(w))
      BY DEF FreeOrListening, OnAir, Sound, Terminal
    <2> QED  BY <2>1, <2>2
  <1>3. ~ OnAir(z)
    <2>1. Sound(clear(w)) /\ clear(w).status = "IDLE"
      BY ClearSound, ClearQuiet
    <2> QED  BY <2>1 DEF OnAir, Sound, Terminal
  <1> HIDE DEF x, y, z
  <1>4. ~ OnAir(refreshPttState(x, t, ok)) /\ ~ OnAir(refreshPttState(y, t, ok))
    BY <1>1, <1>2, RefreshQuiet
  <1> QED  BY <1>3, <1>4 DEF receivePttRightResponse, x, y, z

-----------------------------------------------------------------------------
(* Steps *)

Excused == Unattended' => Unattended \/ InSingleCall(term, top)

\* A callback leaves the pending release alone.
LEMMA CallbackExcused ==
    ASSUME NEW v, Attended(v, term, top), Callback(v)
    PROVE  Excused
  <1>1. ReleasePending' <=> ReleasePending
    BY DEF Callback, ReleasePending
  <1> QED  BY <1>1 DEF Excused, Unattended, Attended, OnAir, Callback

\* A queued hangup stays queued when another broadcast is taken or added.
LEMMA HangupStaysQueued ==
    ASSUME inbox \in Seq(Broadcasts), NEW bs \in Seq(Broadcasts),
           \E i \in 1..Len(inbox) : inbox[i] = "HANGUP",
           \/ inbox' = inbox \o bs
           \/ inbox # <<>> /\ Head(inbox) # "HANGUP" /\ inbox' = Tail(inbox) \o bs
    PROVE  \E i \in 1..Len(inbox)' : inbox'[i] = "HANGUP"
  <1>1. PICK i \in 1..Len(inbox) : inbox[i] = "HANGUP"
    OBVIOUS
  <1>2. CASE inbox' = inbox \o bs
    <2>1. i \in 1..Len(inbox') /\ inbox'[i] = "HANGUP"
      BY <1>1, <1>2
    <2> QED  BY <2>1
  <1>3. CASE inbox # <<>> /\ Head(inbox) # "HANGUP" /\ inbox' = Tail(inbox) \o bs
    <2>1. i # 1
      BY <1>1, <1>3
    <2>2. i - 1 \in 1..Len(inbox') /\ inbox'[i - 1] = "HANGUP"
      BY <1>1, <1>3, <2>1
    <2> QED  BY <2>2
  <1> QED  BY <1>2, <1>3

\* An appended broadcast leaves the queued ones where they are.
LEMMA HangupStaysOnAppend ==
    ASSUME inbox \in Seq(Broadcasts), NEW b \in Broadcasts,
           \E i \in 1..Len(inbox) : inbox[i] = "HANGUP",
           inbox' = Append(inbox, b)
    PROVE  \E i \in 1..Len(inbox)' : inbox'[i] = "HANGUP"
  <1>1. PICK i \in 1..Len(inbox) : inbox[i] = "HANGUP"
    OBVIOUS
  <1>2. i \in 1..Len(inbox') /\ inbox'[i] = "HANGUP"
    BY <1>1
  <1> QED  BY <1>2

\* So a step of the main thread that neither leaves the sleep nor handles a
\* hangup keeps the pending release.
LEMMA PendingStays ==
    ASSUME Inv, ReleasePending, pc # "sleep" \/ pc' = pc,
           \/ inbox' = inbox
           \/ \E b \in Broadcasts : inbox' = Append(inbox, b)
           \/ \E bs \in Seq(Broadcasts) :
                \/ inbox' = inbox \o bs
                \/ inbox # <<>> /\ Head(inbox) # "HANGUP" /\ inbox' = Tail(inbox) \o bs
    PROVE  ReleasePending'
  <1>1. inbox \in Seq(Broadcasts)
    BY DEF Inv, FrameOK
  <1>2. CASE pc = "sleep" /\ pc' = pc
    BY <1>2 DEF ReleasePending
  <1>3. CASE pc # "sleep"
    <2>1. \E i \in 1..Len(inbox) : inbox[i] = "HANGUP"
      BY <1>3 DEF ReleasePending
    <2>2. \E i \in 1..Len(inbox)' : inbox'[i] = "HANGUP"
      <3>1. CASE inbox' = inbox
        BY <2>1, <3>1
      <3>2. CASE \E b \in Broadcasts : inbox' = Append(inbox, b)
        BY <1>1, <2>1, <3>2, HangupStaysOnAppend
      <3>3. CASE \E bs \in Seq(Broadcasts) :
                   \/ inbox' = inbox \o bs
                   \/ inbox # <<>> /\ Head(inbox) # "HANGUP" /\ inbox' = Tail(inbox) \o bs
        BY <1>1, <2>1, <3>3, HangupStaysQueued
      <3> QED  BY <3>1, <3>2, <3>3
    <2> QED  BY <2>2 DEF ReleasePending
  <1> QED  BY <1>2, <1>3

\* A step that gives no floor and loses no release is excused.
LEMMA QuietExcused ==
    ASSUME OnAir(term)' => OnAir(term), ReleasePending => ReleasePending'
    PROVE  Excused
  BY DEF Excused, Unattended, OnAir

\* The key and its handlers: a speaker who wakes from the 300 ms sleep has
\* a hangup in the queue.
LEMMA KeyExcused ==
    ASSUME Inv, Press \/ Release \/ handlePttDown \/ handlePttUp \/ handlePttUpAwake
    PROVE  Excused
  <1>1. Sound(term) /\ inbox \in Seq(Broadcasts)
    BY DEF Inv, FrameOK
  <1>2. CASE Press \/ Release
    <2>1. \E b \in Broadcasts : inbox' = Append(inbox, b)
      BY <1>2 DEF Press, Release, Broadcasts
    <2>2. term' = term /\ pc' = pc
      BY <1>2 DEF Press, Release
    <2>3. ReleasePending => ReleasePending'
      BY <2>1, <2>2, PendingStays
    <2> QED  BY <2>2, <2>3, QuietExcused
  <1>3. CASE handlePttDown
    <2>1. <<>> \in Seq(Broadcasts) /\ <<"APPLY">> \in Seq(Broadcasts)
      BY DEF Broadcasts
    <2>2. OnAir(term)' => OnAir(term)
      BY <1>1, <1>3 DEF handlePttDown, OnAir, Sound, Terminal
    <2>3. /\ pc' = pc /\ inbox # <<>> /\ Head(inbox) # "HANGUP"
          /\ \E bs \in Seq(Broadcasts) : inbox' = Tail(inbox) \o bs
      BY <1>3, <2>1 DEF handlePttDown, Receive, Send
    <2>4. ReleasePending => ReleasePending'
      BY <2>3, PendingStays
    <2> QED  BY <2>2, <2>4, QuietExcused
  <1>4. CASE handlePttUp
    BY <1>4 DEF handlePttUp, Excused, Unattended, ReleasePending
  <1>5. CASE handlePttUpAwake
    <2>1. CASE term.status = "SPEAKING"
      <3>1. inbox' = inbox \o <<"HANGUP">>
        BY <1>5, <2>1 DEF handlePttUpAwake, UpCommand
      <3>2. Len(inbox) + 1 \in 1..Len(inbox') /\ inbox'[Len(inbox) + 1] = "HANGUP"
        BY <1>1, <3>1
      <3> QED  BY <3>2 DEF Excused, Unattended, ReleasePending
    <2>2. CASE term.status # "SPEAKING"
      <3>1. term'.status # "SPEAKING"
        BY <1>1, <1>5, <2>2 DEF handlePttUpAwake, FreeOrListening, Sound, Terminal
      <3> QED  BY <3>1 DEF Excused, Unattended
    <2> QED  BY <2>1, <2>2
  <1> QED  BY <1>2, <1>3, <1>4, <1>5

\* handleCommand takes a queued hangup only to end the speech.
LEMMA CommandExcused ==
    ASSUME Inv, \/ CommApply \/ CommApplyRequest \/ CommCancel \/ CommCancelRequest
                \/ CommHangup \/ CommHangupRequest \/ CommUpdateUI
    PROVE  Excused
  <1>1. Sound(term) /\ <<>> \in Seq(Broadcasts)
    BY DEF Inv, FrameOK
  <1>2. ASSUME NEW b, b # "HANGUP", Receive(b), Send(<<>>)
        PROVE  ReleasePending => ReleasePending'
    <2>1. /\ pc # "sleep" /\ inbox # <<>> /\ Head(inbox) # "HANGUP"
          /\ \E bs \in Seq(Broadcasts) : inbox' = Tail(inbox) \o bs
      BY <1>1, <1>2 DEF Receive, Send
    <2> QED  BY <2>1, PendingStays
  <1>3. CASE CommApply
    <2>1. OnAir(term)' => OnAir(term)
      BY <1>1, <1>3 DEF CommApply, OnAir, Sound, Terminal
    <2> QED  BY <1>2, <1>3, <2>1, QuietExcused DEF CommApply
  <1>4. CASE CommApplyRequest \/ CommCancelRequest \/ CommHangupRequest
    <2>1. OnAir(hangupPttCall(term)) => OnAir(term)
      BY <1>1, HangupPttKeeps DEF OnAir
    <2>2. OnAir(term)' => OnAir(term)
      BY <1>1, <1>4, <2>1, RequestQuiet
         DEF CommApplyRequest, CommCancelRequest, CommHangupRequest, OnAir
    <2>3. pc # "sleep" /\ inbox' = inbox
      BY <1>4 DEF CommApplyRequest, CommCancelRequest, CommHangupRequest
    <2>4. ReleasePending => ReleasePending'
      BY <2>3, PendingStays
    <2> QED  BY <2>2, <2>4, QuietExcused
  <1>5. CASE CommCancel \/ CommHangup
    <2>1. term'.status # "SPEAKING"
      BY <1>1, <1>5 DEF CommCancel, CommHangup, FreeOrListening, Sound, Terminal
    <2> QED  BY <2>1 DEF Excused, Unattended
  <1>6. CASE CommUpdateUI
    <2>1. OnAir(term)' => OnAir(term)
      BY <1>6 DEF CommUpdateUI
    <2> QED  BY <1>2, <1>6, <2>1, QuietExcused DEF CommUpdateUI
  <1> QED  BY <1>3, <1>4, <1>5, <1>6

\* show_call_state hands the terminal over with a leg and current_call changed.
LEMMA LegsAttended ==
    ASSUME NEW w, Sound(w), Sound(term), NEW c \in CallIds,
           w.status = term.status, w.key = term.key,
           w.force = term.force, w.inCall = term.inCall,
           NEW cs \in {"RINGING", "TALKING", "ENDED"}, NEW code, NEW ok \in BOOLEAN
    PROVE  /\ Attended(w, term, top)
           /\ Attended(showCallState(w, c, cs, code, top, ok), term, top)
  <1>1. (OnAir(w) <=> OnAir(term)) /\ (InSingleCall(w, top) <=> InSingleCall(term, top))
    BY SingleCallSame DEF OnAir
  <1>2. Attended(showCallState(w, c, cs, code, top, ok), w, top)
    BY ShowCallAttended
  <1> QED  BY <1>1, <1>2 DEF Attended

\* show_call_state for a call that is gone is excused.
LEMMA DisconnectedExcused ==
    ASSUME NEW w, Sound(w), Sound(term), NEW c \in CallIds,
           w.status = term.status, w.key = term.key,
           w.force = term.force, w.inCall = term.inCall,
           NEW code, ShowDisconnected(w, c, code)
    PROVE  Excused
  <1>1. CASE Callback(w)
    <2>1. Attended(w, term, top)
      BY LegsAttended
    <2> QED  BY <1>1, <2>1, CallbackExcused
  <1>2. CASE \E ok \in BOOLEAN : Callback(showCallState(w, c, "ENDED", code, top, ok))
    <2>1. PICK ok \in BOOLEAN : Callback(showCallState(w, c, "ENDED", code, top, ok))
      BY <1>2
    <2>2. Attended(showCallState(w, c, "ENDED", code, top, ok), term, top)
      BY LegsAttended
    <2> QED  BY <2>1, <2>2, CallbackExcused
  <1> QED  BY <1>1, <1>2 DEF ShowDisconnected

\* Call events and call timers of the native side are excused.
LEMMA CallExcused ==
    ASSUME Inv, NEW c \in CallIds,
           \/ on_incoming_call(c) \/ CallConfirmed(c) \/ CallDisconnected(c)
           \/ call_timeout_callback(c) \/ ptt_signal_timer_cb(c)
    PROVE  Excused
  <1>1. Sound(term)
    BY DEF Inv
  <1>2. CASE on_incoming_call(c)
    <2> DEFINE w == [term EXCEPT !.legs = [term.legs EXCEPT ![c] = "incoming"],
                                 !.cur = IF @ = NoCall THEN c ELSE @]
    <2>1. Sound(w)
      BY <1>1, SetLegSound DEF LegStates
    <2>2. /\ w.status = term.status /\ w.key = term.key
          /\ w.force = term.force /\ w.inCall = term.inCall
      BY <1>1 DEF Sound, Terminal
    <2> HIDE DEF w
    <2>3. Attended(showCallState(w, c, "RINGING", "ok", top, TRUE), term, top)
      BY <1>1, <2>1, <2>2, LegsAttended
    <2>4. Callback(showCallState(w, c, "RINGING", "ok", top, TRUE))
      BY <1>2 DEF on_incoming_call, w
    <2> QED  BY <2>3, <2>4, CallbackExcused
  <1>3. CASE CallConfirmed(c)
    <2> DEFINE w == [term EXCEPT !.legs = [term.legs EXCEPT ![c] = Acknowledged(@)],
                                 !.cur = IF @ = NoCall THEN c ELSE @]
    <2>1. Sound(w)
      BY <1>1, SetLegSound DEF Acknowledged, LegStates
    <2>2. /\ w.status = term.status /\ w.key = term.key
          /\ w.force = term.force /\ w.inCall = term.inCall
      BY <1>1 DEF Sound, Terminal
    <2> HIDE DEF w
    <2>3. PICK ok \in BOOLEAN : Callback(showCallState(w, c, "TALKING", "ok", top, ok))
      BY <1>3 DEF CallConfirmed, w
    <2>4. Attended(showCallState(w, c, "TALKING", "ok", top, ok), term, top)
      BY <1>1, <2>1, <2>2, LegsAttended
    <2> QED  BY <2>3, <2>4, CallbackExcused
  <1>4. CASE CallDisconnected(c)
    <2>1. PICK code \in EndCodes(term.legs[c]),
               next \in IF term.cur = c THEN NextCalls(term, c) ELSE {term.cur} :
            ShowDisconnected([term EXCEPT !.legs = [term.legs EXCEPT ![c] = "null"],
                                          !.cur = next], c, code)
      BY <1>4 DEF CallDisconnected
    <2> DEFINE w == [term EXCEPT !.legs = [term.legs EXCEPT ![c] = "null"], !.cur = next]
    <2>2. Sound(w)
      BY <1>1, DropLegSound
    <2>3. /\ w.status = term.status /\ w.key = term.key
          /\ w.force = term.force /\ w.inCall = term.inCall
      BY <1>1 DEF Sound, Terminal
    <2>4. ShowDisconnected(w, c, code)
      BY <2>1
    <2> HIDE DEF w
    <2> QED  BY <1>1, <2>2, <2>3, <2>4, DisconnectedExcused
  <1>5. CASE call_timeout_callback(c)
    BY <1>1, <1>5, DisconnectedExcused DEF call_timeout_callback
  <1>6. CASE ptt_signal_timer_cb(c)
    <2>1. Attended(RequestHangup(term, c), term, top)
      BY <1>1, HangupKeeps DEF Attended, OnAir
    <2> QED  BY <1>6, <2>1, CallbackExcused DEF ptt_signal_timer_cb
  <1> QED  BY <1>2, <1>3, <1>4, <1>5, <1>6

\* Messages and reports of the server are excused.
LEMMA ServerExcused ==
    ASSUME Inv, \/ \E r \in RightResponses : RightResponse(r)
                \/ Forbidden
                \/ \E s \in {"FREE", "WAITING", "REJECTED"} : updatePttState(s)
                \/ \E spk \in Speakers : CallInfo(spk)
                \/ mByeIndicate \/ GroupInfo
                \/ \E state \in RegReports : RegisterState(state)
    PROVE  Excused
  <1>1. Sound(term)
    BY DEF Inv
  <1>2. ASSUME NEW r \in RightResponses, RightResponse(r) PROVE Excused
    BY <1>1, <1>2, ResponseQuiet, CallbackExcused DEF RightResponse, Attended
  <1>3. CASE Forbidden
    <2>1. OnAir(term)' => OnAir(term)
      <3>1. OnAir(receivePttRightResponse(term, "FORBIDDEN", top, TRUE)) => OnAir(term)
        BY <1>1, ResponseQuiet
      <3>2. term' = receivePttRightResponse(term, "FORBIDDEN", top, TRUE)
        BY <1>3 DEF Forbidden
      <3> QED  BY <3>1, <3>2 DEF OnAir
    <2>2. pc' = pc /\ (inbox' = inbox \/ \E b \in Broadcasts : inbox' = Append(inbox, b))
      BY <1>3 DEF Forbidden, Broadcasts
    <2>3. ReleasePending => ReleasePending'
      BY <2>2, PendingStays
    <2> QED  BY <2>1, <2>3, QuietExcused
  <1>4. ASSUME NEW s \in {"FREE", "WAITING", "REJECTED"}, updatePttState(s) PROVE Excused
    <2> DEFINE obj == [status |-> s, speaker |-> "none"]
    <2>1. obj \in Reports /\ obj.speaker # "me"
      BY DEF Reports, Statuses, Speakers
    <2>2. PICK ok \in BOOLEAN : Callback(JNIUpdatePTTState(term, obj, top, ok))
      BY <1>4 DEF updatePttState
    <2> HIDE DEF obj
    <2>3. Attended(JNIUpdatePTTState(term, obj, top, ok), term, top)
      BY <1>1, <2>1, UpdateQuiet DEF Attended
    <2> QED  BY <2>2, <2>3, CallbackExcused
  <1>5. ASSUME NEW spk \in Speakers, CallInfo(spk) PROVE Excused
    BY <1>1, <1>5, CallInfoAttended, CallbackExcused DEF CallInfo
  <1>6. CASE mByeIndicate
    BY <1>1, <1>6, ClearQuiet, CallbackExcused DEF mByeIndicate, Attended
  <1>7. CASE GroupInfo
    BY <1>1, <1>7, GroupListAssumption, GroupInfoQuiet, CallbackExcused
       DEF GroupInfo, Attended
  <1>8. ASSUME NEW state \in RegReports, RegisterState(state) PROVE Excused
    BY <1>1, <1>8, RegisterQuiet, CallbackExcused DEF RegisterState, Attended
  <1> QED  BY <1>2, <1>3, <1>4, <1>5, <1>6, <1>7, <1>8

\* Activities neither touch the floor nor take a release from the queue.
LEMMA ScreenExcused ==
    ASSUME Inv, BackKey \/ (\E s \in Screens : SwitchScreen(s)) \/ CallScreenDestroyed
    PROVE  Excused
  <1>1. Sound(term)
    BY DEF Inv
  <1>2. term'.status = term.status /\ term'.key = term.key
    BY <1>1 DEF BackKey, SwitchScreen, CallScreenDestroyed, clearSingleCall, Sound, Terminal
  <1>3. pc' = pc /\ (inbox' = inbox \/ \E b \in Broadcasts : inbox' = Append(inbox, b))
    BY DEF BackKey, SwitchScreen, CallScreenDestroyed, Broadcasts
  <1>4. ReleasePending => ReleasePending'
    BY <1>3, PendingStays
  <1> QED  BY <1>2, <1>4, QuietExcused DEF OnAir

\* A forced registration and its thread are excused.
LEMMA RegisterExcused ==
    ASSUME Inv, RegisterNext
    PROVE  Excused
  <1>1. Sound(term)
    BY DEF Inv
  <1>2. CASE Reregister
    BY <1>1, <1>2, ReregisterQuiet, CallbackExcused DEF Reregister, Attended
  <1>3. CASE RegisterThread
    <2> DEFINE w == [term EXCEPT !.registered = FALSE, !.threads = @ - 1]
    <2>1. Attended(w, term, top)
      BY <1>1 DEF Attended, OnAir, Sound, Terminal
    <2>2. Callback(w)
      BY <1>3 DEF RegisterThread
    <2> HIDE DEF w
    <2> QED  BY <2>1, <2>2, CallbackExcused
  <1> QED  BY <1>2, <1>3 DEF RegisterNext

\* Every step of every thread is excused.
LEMMA ExcusedStep == Inv /\ [Next]_vars => [Excused]_vars
  <1> SUFFICES ASSUME Inv, Next PROVE Excused
    OBVIOUS
  <1>1. CASE MainNext
    BY <1>1, KeyExcused, CommandExcused DEF MainNext
  <1>2. CASE WorkerNext
    BY <1>2, CallExcused, ServerExcused DEF WorkerNext
  <1>3. CASE UserNext
    BY <1>3, KeyExcused, ScreenExcused DEF UserNext
  <1>4. CASE RegisterNext
    BY <1>4, RegisterExcused
  <1> QED  BY <1>1, <1>2, <1>3, <1>4 DEF Next

\* No step of the key handlers, of handleCommand or of a callback leaves the
\* terminal speaking with the key up and nothing on its way to end it, unless
\* a single call hides the floor: for any number of calls, any length of the
\* broadcast queue and any order of the server's messages.
THEOREM ReleaseAttended == Spec => NoUnattendedSpeech
  BY Invariance, ExcusedStep, PTL DEF Spec, NoUnattendedSpeech, Excused

=============================================================================
