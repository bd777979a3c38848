-------------------------- MODULE PttFloor_proofs --------------------------
(***************************************************************************)
(* Proofs about PttFloor, for every set of call ids, every choice of       *)
(* server reports and screens and every bound on the queue.                *)
(*                                                                         *)
(* The handlers are operators on the terminal's record, so the argument    *)
(* goes one operator at a time: each takes a sound terminal to a sound     *)
(* terminal.  Sound is the inductive invariant: the type, FloorNaming and  *)
(* CurrentCallLive as predicates of the record.  Naming cannot be proved   *)
(* alone: groupCallTalking and claimFloor rely on it themselves.           *)
(***************************************************************************)
EXTENDS PttFloor, TLAPS

Named(w) ==
    /\ w.status = "SPEAKING" => w.speaker = "me"
    /\ w.status = "LISTENING" => w.speaker # "none"
    /\ w.status = "IDLE" => w.speaker = "none"

CallsTracked(w) ==
    /\ w.cur = NoCall => \A c \in CallIds : w.legs[c] \in {"null", "rejecting"}
    /\ w.cur # NoCall => w.legs[w.cur] # "null"

Sound(w) == w \in Terminal /\ Named(w) /\ CallsTracked(w)

-----------------------------------------------------------------------------
(* Native calls *)

\* A hangup request changes the state of one call, never to "null".
LEMMA HangupSound ==
    ASSUME NEW w, Sound(w), NEW c \in CallIds
    PROVE  Sound(RequestHangup(w, c))
  <1>1. RequestHangup(w, c) \in Terminal
    BY DEF Sound, RequestHangup, Terminal, LegStates
  <1>2. Named(RequestHangup(w, c))
    BY DEF Sound, Named, RequestHangup, Terminal
  <1>3. CallsTracked(RequestHangup(w, c))
    BY DEF Sound, CallsTracked, RequestHangup, Terminal
  <1> QED  BY <1>1, <1>2, <1>3 DEF Sound

\* Answering takes an incoming call to "connecting" and nothing else.
LEMMA AnswerSound ==
    ASSUME NEW w, Sound(w), NEW c \in CallIds
    PROVE  Sound(RequestAnswer(w, c))
  <1>1. RequestAnswer(w, c) \in Terminal
    BY DEF Sound, RequestAnswer, Terminal, LegStates
  <1>2. Named(RequestAnswer(w, c))
    BY DEF Sound, Named, RequestAnswer, Terminal
  <1>3. CallsTracked(RequestAnswer(w, c))
    BY DEF Sound, CallsTracked, RequestAnswer, Terminal
  <1> QED  BY <1>1, <1>2, <1>3 DEF Sound

\* hangupPttCall ends the call PTTManager knows of, if any.
LEMMA HangupPttSound ==
    ASSUME NEW w, Sound(w)
    PROVE  Sound(hangupPttCall(w))
  BY HangupSound DEF hangupPttCall, Sound, Terminal

\* A refused request frees the floor and names nobody.
LEMMA CheckResultSound ==
    ASSUME NEW w, Sound(w), NEW ok \in BOOLEAN
    PROVE  Sound(checkResult(w, ok))
  <1>1. checkResult(w, ok) \in Terminal
    <2>1. [w EXCEPT !.speaker = "none", !.status = "FREE"] \in Terminal
      BY DEF Sound, Terminal, Statuses, Speakers
    <2> QED  BY <2>1 DEF Sound, checkResult
  <1>2. Named(checkResult(w, ok))
    BY DEF Sound, checkResult, Named, Terminal
  <1>3. CallsTracked(checkResult(w, ok))
    BY DEF Sound, checkResult, CallsTracked, Terminal
  <1> QED  BY <1>1, <1>2, <1>3 DEF Sound

\* cancelPttRight does what checkResult does, or nothing.
LEMMA CancelSound ==
    ASSUME NEW w, Sound(w), NEW ok \in BOOLEAN
    PROVE  Sound(cancelPttRight(w, ok))
  BY CheckResultSound DEF cancelPttRight

\* applyPttRight does what checkResult does, or nothing.
LEMMA ApplySound ==
    ASSUME NEW w, Sound(w), NEW ok \in BOOLEAN
    PROVE  Sound(applyPttRight(w, ok))
  BY CheckResultSound DEF applyPttRight

\* PTTManager.clear drops status and speaker together.
LEMMA ClearSound ==
    ASSUME NEW w, Sound(w)
    PROVE  Sound(clear(w))
  <1>1. clear(w) \in Terminal
    BY DEF Sound, clear, Terminal, Statuses, Speakers
  <1>2. Named(clear(w))
    BY DEF Sound, clear, Named, Terminal
  <1>3. CallsTracked(clear(w))
    BY DEF Sound, clear, CallsTracked, Terminal
  <1> QED  BY <1>1, <1>2, <1>3 DEF Sound

\* CallStateManager.clear falls back to a call id pjsua knows.
LEMMA ClearSingleSound ==
    ASSUME NEW w, Sound(w)
    PROVE  Sound(clearSingleCall(w))
  <1>1. clearSingleCall(w) \in Terminal
    BY CallIdAssumption DEF Sound, clearSingleCall, Terminal, CallStates
  <1>2. Named(clearSingleCall(w))
    BY DEF Sound, clearSingleCall, Named, Terminal
  <1>3. CallsTracked(clearSingleCall(w))
    BY DEF Sound, clearSingleCall, CallsTracked, Terminal
  <1> QED  BY <1>1, <1>2, <1>3 DEF Sound

-----------------------------------------------------------------------------
(* PTTService *)

\* LISTENING is chosen only where a speaker is known.
LEMMA FreeOrListeningSound ==
    ASSUME NEW w, Sound(w)
    PROVE  Sound(FreeOrListening(w))
  <1>1. FreeOrListening(w) \in Terminal
    BY DEF Sound, FreeOrListening, Terminal, Statuses, Speakers
  <1>2. Named(FreeOrListening(w))
    BY DEF Sound, FreeOrListening, Named, Terminal
  <1>3. CallsTracked(FreeOrListening(w))
    BY DEF Sound, FreeOrListening, CallsTracked, Terminal
  <1> QED  BY <1>1, <1>2, <1>3 DEF Sound

\* What the native side reports, and what it may say of the speaker.
Reports == [status : Statuses, speaker : Speakers]

\* adoptPttState takes FREE with its speaker, or a status that names nobody.
LEMMA AdoptSound ==
    ASSUME NEW w, Sound(w), NEW obj \in Reports
    PROVE  Sound(adoptPttState(w, obj))
  <1>1. CASE adoptPttState(w, obj) = w
    BY <1>1
  <1>2. ASSUME adoptPttState(w, obj) = [w EXCEPT !.status = "FREE", !.speaker = obj.speaker]
        PROVE  Sound(adoptPttState(w, obj))
    <2>1. adoptPttState(w, obj) \in Terminal
      BY <1>2 DEF Sound, Terminal, Reports, Statuses
    <2> QED  BY <1>2, <2>1 DEF Sound, Named, CallsTracked, Terminal
  <1>3. ASSUME obj.status \in {"WAITING", "REJECTED"},
               adoptPttState(w, obj) = [w EXCEPT !.status = obj.status]
        PROVE  Sound(adoptPttState(w, obj))
    <2>1. adoptPttState(w, obj) \in Terminal
      BY <1>3 DEF Sound, Terminal, Reports
    <2> QED  BY <1>3, <2>1 DEF Sound, Named, CallsTracked, Terminal
  <1> QED  BY <1>1, <1>2, <1>3 DEF adoptPttState

\* The speaker said to hold the floor is the one recorded, if it is this user.
LEMMA ClaimSound ==
    ASSUME NEW w, Sound(w), NEW obj \in Reports, NEW said,
           said = "me" => w.speaker = "me"
    PROVE  Sound(claimFloor(w, obj, said))
  <1> DEFINE talking == /\ w.call = "TALKING" /\ obj.status # "SPEAKING"
                        /\ w.key = "DOWN" /\ said = "me"
             v == IF talking THEN [w EXCEPT !.status = "SPEAKING", !.speaker = "me"] ELSE w
  <1>1. Sound(v) /\ (said = "me" => v.speaker = "me")
    <2>1. [w EXCEPT !.status = "SPEAKING", !.speaker = "me"] \in Terminal
      BY DEF Sound, Terminal, Statuses, Speakers
    <2>2. Sound([w EXCEPT !.status = "SPEAKING", !.speaker = "me"])
      BY <2>1 DEF Sound, Named, CallsTracked, Terminal
    <2> QED  BY <2>2 DEF Sound, Terminal
  <1>2. ASSUME said = "me"
        PROVE  Sound([v EXCEPT !.status = "SPEAKING"])
    <2>1. [v EXCEPT !.status = "SPEAKING"] \in Terminal
      BY <1>1 DEF Sound, Terminal, Statuses
    <2> QED  BY <1>1, <1>2, <2>1 DEF Sound, Named, CallsTracked, Terminal
  <1>3. ASSUME NEW u, Sound(u)
        PROVE  Sound([u EXCEPT !.status = "FREE", !.speaker = "none"])
    <2>1. [u EXCEPT !.status = "FREE", !.speaker = "none"] \in Terminal
      BY <1>3 DEF Sound, Terminal, Statuses, Speakers
    <2> QED  BY <1>3, <2>1 DEF Sound, Named, CallsTracked, Terminal
  <1>4. Sound([IF v.call = "TALKING" THEN hangupPttCall(v) ELSE v
               EXCEPT !.status = "FREE", !.speaker = "none"])
    BY <1>1, <1>3, HangupPttSound
  <1> HIDE DEF v
  <1>5. claimFloor(w, obj, said) =
          IF v.status \notin {"LISTENING", "SPEAKING"} \/ said # "me" THEN v
          ELSE IF v.key = "DOWN" THEN [v EXCEPT !.status = "SPEAKING"]
          ELSE [IF v.call = "TALKING" THEN hangupPttCall(v) ELSE v
                EXCEPT !.status = "FREE", !.speaker = "none"]
    BY DEF claimFloor, v
  <1> QED  BY <1>1, <1>2, <1>4, <1>5

\* The two ways a handler writes the floor: status and speaker together, or
\* a status that says nothing of the speaker.
LEMMA SetFloorSound ==
    ASSUME NEW w, Sound(w), NEW s \in Statuses, NEW p \in Speakers,
           s = "SPEAKING" => p = "me", s = "LISTENING" => p # "none",
           s = "IDLE" => p = "none"
    PROVE  Sound([w EXCEPT !.status = s, !.speaker = p])
  <1>1. [w EXCEPT !.status = s, !.speaker = p] \in Terminal
    BY DEF Sound, Terminal
  <1> QED  BY <1>1 DEF Sound, Named, CallsTracked, Terminal

\* A status that promises no speaker may be set on its own.
LEMMA SetStatusSound ==
    ASSUME NEW w, Sound(w), NEW s \in Statuses \ {"SPEAKING", "LISTENING", "IDLE"}
    PROVE  Sound([w EXCEPT !.status = s])
  <1>1. [w EXCEPT !.status = s] \in Terminal
    BY DEF Sound, Terminal
  <1> QED  BY <1>1 DEF Sound, Named, CallsTracked, Terminal

\* What a released key gives back leaves the terminal sound.
LEMMA ReleaseSound ==
    ASSUME NEW w, Sound(w), NEW ok \in BOOLEAN
    PROVE  Sound(releaseIfUp(w, ok))
  <1>1. Sound(hangupPttCall(w)) /\ Sound(cancelPttRight(w, ok))
    BY HangupPttSound, CancelSound
  <1>2. Sound([w EXCEPT !.status = "FREE", !.speaker = "none"])
    BY SetFloorSound DEF Statuses, Speakers
  <1> QED  BY <1>1, <1>2 DEF releaseIfUp

\* A report of this user's speech never runs ahead of the recorded speaker.
LEMMA UpdatePTTSound ==
    ASSUME NEW w, Sound(w), NEW obj \in Reports, NEW t, NEW ok \in BOOLEAN,
           obj.speaker = "me" => w.speaker = "me"
    PROVE  Sound(JNIUpdatePTTState(w, obj, t, ok))
  <1> DEFINE asked == obj.status \in {"WAITING", "REJECTED"}
             said  == IF asked THEN w.speaker ELSE obj.speaker
             v     == adoptPttState(w, obj)
  <1>1. Sound(v)
    BY AdoptSound
  <1>2. said = "me" => v.speaker = "me"
    BY DEF adoptPttState, Sound, Terminal, Reports
  <1>3. Sound(claimFloor(v, obj, said))
    BY <1>1, <1>2, ClaimSound
  <1>4. Sound(releaseIfUp(claimFloor(v, obj, said), ok))
    BY <1>3, ReleaseSound
  <1> QED  BY <1>1, <1>4 DEF JNIUpdatePTTState

\* JNIUpdatePTTState called with the current status itself.
LEMMA RefreshSound ==
    ASSUME NEW w, Sound(w), NEW t, NEW ok \in BOOLEAN
    PROVE  Sound(refreshPttState(w, t, ok))
  <1>1. [status |-> w.status, speaker |-> w.speaker] \in Reports
    BY DEF Sound, Terminal, Reports
  <1> QED  BY <1>1, UpdatePTTSound DEF refreshPttState

\* JNIUpdateCallState writes the single-call side only.
LEMMA UpdateCallSound ==
    ASSUME NEW w, Sound(w), NEW c \in CallIds, NEW cs \in CallStates
    PROVE  Sound(JNIUpdateCallState(w, c, cs))
  <1>1. JNIUpdateCallState(w, c, cs) \in Terminal
    BY DEF Sound, JNIUpdateCallState, Terminal, CallStates
  <1>2. Named(JNIUpdateCallState(w, c, cs))
    BY DEF Sound, JNIUpdateCallState, Named, Terminal
  <1>3. CallsTracked(JNIUpdateCallState(w, c, cs))
    BY DEF Sound, JNIUpdateCallState, CallsTracked, Terminal
  <1> QED  BY <1>1, <1>2, <1>3 DEF Sound

\* mInviteIndicate: every branch writes status and speaker as a pair.
LEMMA CallInfoSound ==
    ASSUME NEW w0, Sound(w0), NEW spk \in Speakers, NEW t, NEW ok \in BOOLEAN
    PROVE  Sound(mInviteIndicate(w0, spk, t, ok))
  <1> DEFINE single == w0.scState \notin {"ENDED", "IDLE"}
             w == IF single THEN clearSingleCall(w0) ELSE w0
             kept == w.status \in {"WAITING", "APPLYING", "REJECTED"} /\ w.key = "DOWN"
             ended == IF w.status = "LISTENING" THEN hangupPttCall(w) ELSE w
             named == [w EXCEPT !.speaker = spk,
                                !.status = IF kept THEN @ ELSE "LISTENING"]
  <1>1. Sound(w) /\ Sound(ended) /\ Sound(hangupPttCall(w))
    BY ClearSingleSound, HangupPttSound
  <1>2. spk # "none" => Sound([w0 EXCEPT !.status = "LISTENING", !.speaker = spk])
    BY SetFloorSound DEF Statuses, Speakers
  <1>3. Sound([hangupPttCall(w) EXCEPT !.status = "APPLYING", !.speaker = "none"])
    BY <1>1, SetFloorSound DEF Statuses, Speakers
  <1>4. Sound([ended EXCEPT !.status = "FREE", !.speaker = "none"])
    BY <1>1, SetFloorSound DEF Statuses, Speakers
  <1>5. Sound([w EXCEPT !.status = "SPEAKING", !.speaker = "me"])
    BY <1>1, SetFloorSound DEF Statuses, Speakers
  <1> HIDE DEF w, ended, single
  <1>6. spk # "none" => Sound(named)
    <2>1. named \in Terminal
      BY <1>1 DEF Sound, Terminal, Statuses
    <2> QED  BY <1>1, <2>1 DEF Sound, Named, CallsTracked, Terminal
  <1> HIDE DEF named
  <1>7. /\ Sound(refreshPttState([ended EXCEPT !.status = "FREE", !.speaker = "none"], t, ok))
        /\ Sound(refreshPttState([w EXCEPT !.status = "SPEAKING", !.speaker = "me"], t, ok))
        /\ spk # "none" => Sound(refreshPttState(named, t, ok))
    BY <1>4, <1>5, <1>6, RefreshSound
  <1> QED
    BY <1>1, <1>2, <1>3, <1>7 DEF mInviteIndicate, w, ended, single, named

\* JNIAddGroupInfo either clears, or moves INIT to FREE or APPLYING.
LEMMA GroupInfoSound ==
    ASSUME NEW w0, Sound(w0), NEW t, NEW ok \in BOOLEAN,
           NEW g \in [listed : BOOLEAN, gone : BOOLEAN, dynamic : BOOLEAN]
    PROVE  Sound(JNIAddGroupInfo(w0, g, t, ok))
  <1> DEFINE w == [w0 EXCEPT !.groups = g.listed]
             v == IF w.status # "INIT" THEN w
                  ELSE IF ~g.listed THEN clear(w)
                  ELSE IF w.key = "UP" THEN [w EXCEPT !.status = "FREE"]
                  ELSE IF t # "alert" /\ w.registered
                       THEN applyPttRight([w EXCEPT !.status = "APPLYING"], ok) ELSE w
  <1>1. Sound(w)
    <2>1. w \in Terminal
      BY DEF Sound, Terminal
    <2> QED  BY <2>1 DEF Sound, Named, CallsTracked, Terminal
  <1> HIDE DEF w
  <1>2. Sound([w EXCEPT !.status = "FREE"]) /\ Sound([w EXCEPT !.status = "APPLYING"])
    BY <1>1, SetStatusSound DEF Statuses
  <1>3. Sound(v)
    BY <1>1, <1>2, ClearSound, ApplySound
  <1> HIDE DEF v
  <1>4. Sound(clear(IF v.status = "SPEAKING" /\ v.key = "DOWN" THEN hangupPttCall(v) ELSE v))
    BY <1>3, HangupPttSound, ClearSound
  <1> QED  BY <1>3, <1>4 DEF JNIAddGroupInfo, w, v

\* JNIUpdateRegisterState clears both sides or notes the account.
LEMMA RegisterSound ==
    ASSUME NEW w, Sound(w), NEW state
    PROVE  Sound(JNIUpdateRegisterState(w, state))
  <1> DEFINE hang == state = "REG_ERROR"
             v == IF w.status = "IDLE" THEN w
                  ELSE clear(IF hang THEN hangupPttCall(w) ELSE w)
             u == IF v.scState = "IDLE" THEN v
                  ELSE clearSingleCall(IF hang THEN RequestHangup(v, v.scId) ELSE v)
  <1>1. Sound(v)
    BY HangupPttSound, ClearSound
  <1> HIDE DEF v
  <1>2. Sound(u)
    <2>1. v.scId \in CallIds
      BY <1>1 DEF Sound, Terminal
    <2> QED  BY <1>1, <2>1, HangupSound, ClearSingleSound
  <1> HIDE DEF u
  <1>3. Sound([w EXCEPT !.registered = TRUE])
    <2>1. [w EXCEPT !.registered = TRUE] \in Terminal
      BY DEF Sound, Terminal
    <2> QED  BY <2>1 DEF Sound, Named, CallsTracked, Terminal
  <1>4. Sound([u EXCEPT !.registered = FALSE, !.groups = FALSE])
    <2>1. [u EXCEPT !.registered = FALSE, !.groups = FALSE] \in Terminal
      BY <1>2 DEF Sound, Terminal
    <2> QED  BY <1>2, <2>1 DEF Sound, Named, CallsTracked, Terminal
  <1> QED  BY <1>3, <1>4 DEF JNIUpdateRegisterState, u, v

\* A forced registration clears both sides and counts its thread.
LEMMA ReregisterSound ==
    ASSUME NEW w, Sound(w)
    PROVE  Sound(handleRegister(w))
  <1> DEFINE v == IF w.status = "IDLE" THEN w ELSE clear(w)
             x == [v EXCEPT !.ring = FALSE]
             u == IF v.scState = "IDLE" THEN v ELSE clearSingleCall(x)
  <1>1. Sound(v)
    BY ClearSound
  <1> HIDE DEF v
  <1>2. Sound(x)
    <2>1. x \in Terminal
      BY <1>1 DEF Sound, Terminal
    <2> QED  BY <1>1, <2>1 DEF Sound, Named, CallsTracked, Terminal
  <1> HIDE DEF x
  <1>3. Sound(u)
    BY <1>1, <1>2, ClearSingleSound
  <1> HIDE DEF u
  <1>4. [u EXCEPT !.groups = FALSE, !.threads = @ + 1] \in Terminal
    <2>1. u \in Terminal /\ u.threads \in Nat
      BY <1>3 DEF Sound, Terminal
    <2>2. u.threads + 1 \in Nat
      BY <2>1
    <2>3. \A n \in Nat : [u EXCEPT !.groups = FALSE, !.threads = n] \in Terminal
      BY <2>1 DEF Terminal
    <2> QED  BY <2>2, <2>3
  <1>5. Sound([u EXCEPT !.groups = FALSE, !.threads = @ + 1])
    BY <1>3, <1>4 DEF Sound, Named, CallsTracked, Terminal
  <1> QED  BY <1>5 DEF handleRegister, u, x, v

-----------------------------------------------------------------------------
(* JniCallback *)

\* The tail of showCallState writes the single-call side or the call id.
LEMMA PassSound ==
    ASSUME NEW w, Sound(w), NEW before, NEW c \in CallIds, NEW cs \in CallStates, NEW t
    PROVE  Sound(passToSingleCall(w, before, c, cs, t))
  <1>1. Sound(JNIUpdateCallState(w, c, cs))
    BY UpdateCallSound
  <1>2. Sound([w EXCEPT !.callId = c])
    <2>1. [w EXCEPT !.callId = c] \in Terminal
      BY DEF Sound, Terminal
    <2> QED  BY <2>1 DEF Sound, Named, CallsTracked, Terminal
  <1> QED  BY <1>1, <1>2 DEF passToSingleCall

\* The error path of showCallState frees the floor or only ends the call.
LEMMA ErrorSound ==
    ASSUME NEW w, Sound(w), NEW c \in CallIds, NEW code, NEW t
    PROVE  Sound(showCallError(w, c, code, t))
  <1>1. Sound(JNIUpdateCallState(w, c, "ENDED"))
    BY UpdateCallSound DEF CallStates
  <1>2. Sound([w EXCEPT !.call = "ENDED"])
    <2>1. [w EXCEPT !.call = "ENDED"] \in Terminal
      BY DEF Sound, Terminal, CallStates
    <2> QED  BY <2>1 DEF Sound, Named, CallsTracked, Terminal
  <1>3. Sound([w EXCEPT !.status = "FREE", !.speaker = "none", !.call = "ENDED"])
    <2>1. [w EXCEPT !.status = "FREE", !.speaker = "none", !.call = "ENDED"] \in Terminal
      BY DEF Sound, Terminal, Statuses, Speakers, CallStates
    <2> QED  BY <2>1 DEF Sound, Named, CallsTracked, Terminal
  <1> DEFINE v == IF InSingleCall(w, t) \/ ~w.groups
                  THEN IF w.scState \in {"RINGING", "REJECTING"} /\ code # "486"
                       THEN w ELSE JNIUpdateCallState(w, c, "ENDED")
                  ELSE IF w.key # "DOWN" /\ t # "ptt" THEN w
                  ELSE IF code \in {"486", "504"}
                  THEN [w EXCEPT !.status = "FREE", !.speaker = "none", !.call = "ENDED"]
                  ELSE [w EXCEPT !.call = "ENDED"]
  <1>4. Sound(v)
    BY <1>1, <1>2, <1>3
  <1> HIDE DEF v
  <1>5. Sound(RequestHangup(v, c))
    BY <1>4, HangupSound
  <1> QED  BY <1>4, <1>5 DEF showCallError, v

\* An incoming group call is answered, refused or passed on.
LEMMA RingingSound ==
    ASSUME NEW w, Sound(w), NEW c \in CallIds, NEW t
    PROVE  Sound(groupCallRinging(w, c, t))
  <1> DEFINE v == IF w.key = "UP" THEN RequestHangup(w, c) ELSE w
  <1>1. Sound(RequestAnswer(w, c)) /\ Sound(v)
    BY AnswerSound, HangupSound
  <1> HIDE DEF v
  <1>2. Sound(passToSingleCall(v, w.status, c, "RINGING", t))
    BY <1>1, PassSound DEF CallStates
  <1> QED  BY <1>1, <1>2 DEF groupCallRinging, v

\* A confirmed group call: SPEAKING is written with the speaker it needs.
LEMMA TalkingSound ==
    ASSUME NEW w, Sound(w), NEW c \in CallIds, NEW t, NEW ok \in BOOLEAN
    PROVE  Sound(groupCallTalking(w, c, t, ok))
  <1> DEFINE mine == [w EXCEPT !.status = IF w.speaker = "peer" THEN @ ELSE "SPEAKING",
                               !.speaker = IF w.key = "DOWN" THEN "me" ELSE @]
             v == CASE w.status \in {"REJECTED", "INIT", "SPEAKING"} -> w
                    [] w.key = "DOWN" \/ w.status = "LISTENING" -> refreshPttState(mine, t, ok)
                    [] OTHER -> hangupPttCall(w)
  <1>1. w.key = "DOWN" \/ w.status = "LISTENING" => Sound(mine)
    <2>1. mine \in Terminal
      BY DEF Sound, Terminal, Statuses, Speakers
    <2>2. w.key = "DOWN" \/ w.status = "LISTENING" => Named(mine)
      BY DEF Sound, Named, Terminal, Speakers
    <2>3. CallsTracked(mine)
      BY DEF Sound, CallsTracked, Terminal
    <2> QED  BY <2>1, <2>2, <2>3 DEF Sound
  <1> HIDE DEF mine
  <1>2. Sound(v)
    BY <1>1, RefreshSound, HangupPttSound
  <1> HIDE DEF v
  <1>3. Sound(passToSingleCall(v, w.status, c, "TALKING", t))
    BY <1>2, PassSound DEF CallStates
  <1> QED  BY <1>3 DEF groupCallTalking, v, mine

\* The end of a group call frees the floor in every status.
LEMMA EndedSound ==
    ASSUME NEW w, Sound(w), NEW c \in CallIds, NEW t, NEW ok \in BOOLEAN
    PROVE  Sound(groupCallEnded(w, c, t, ok))
  <1> DEFINE freed == refreshPttState([w EXCEPT !.status = "FREE", !.speaker = "none"], t, ok)
  <1>1. Sound(freed)
    <2>1. Sound([w EXCEPT !.status = "FREE", !.speaker = "none"])
      BY SetFloorSound DEF Statuses, Speakers
    <2> QED  BY <2>1, RefreshSound
  <1> HIDE DEF freed
  <1>2. Sound(refreshPttState(FreeOrListening(w), t, ok))
    BY FreeOrListeningSound, RefreshSound
  <1>3. Sound(refreshPttState([cancelPttRight(w, ok) EXCEPT !.status = "CANCELING"], t, ok))
    <2>1. Sound(cancelPttRight(w, ok))
      BY CancelSound
    <2>2. Sound([cancelPttRight(w, ok) EXCEPT !.status = "CANCELING"])
      BY <2>1, SetStatusSound DEF Statuses
    <2> QED  BY <2>2, RefreshSound
  <1>4. /\ Sound(passToSingleCall(freed, "LISTENING", c, "ENDED", t))
        /\ Sound(passToSingleCall(w, w.status, c, "ENDED", t))
    BY <1>1, PassSound DEF CallStates
  <1> QED  BY <1>1, <1>2, <1>3, <1>4 DEF groupCallEnded, freed

\* showCallState as a whole, for each call state it is called with.
LEMMA ShowCallSound ==
    ASSUME NEW w, Sound(w), NEW c \in CallIds, NEW cs \in {"RINGING", "TALKING", "ENDED"},
           NEW code, NEW t, NEW ok \in BOOLEAN
    PROVE  Sound(showCallState(w, c, cs, code, t, ok))
  <1> DEFINE v == noteGroupCall(w, c, cs)
  <1>1. cs \in CallStates
    BY DEF CallStates
  <1>2. Sound(v)
    <2>1. v \in Terminal
      BY <1>1 DEF Sound, noteGroupCall, Terminal
    <2> QED  BY <2>1 DEF Sound, noteGroupCall, Named, CallsTracked, Terminal
  <1> HIDE DEF v
  <1>3. /\ Sound(groupCallRinging(v, c, t))
        /\ Sound(groupCallTalking(v, c, t, ok))
        /\ Sound(groupCallEnded(v, c, t, ok))
    BY <1>2, RingingSound, TalkingSound, EndedSound
  <1>4. /\ Sound(showCallError(w, c, code, t))
        /\ Sound(passToSingleCall(w, w.status, c, cs, t))
        /\ Sound(JNIUpdateCallState(w, c, cs))
    BY <1>1, ErrorSound, PassSound, UpdateCallSound
  <1> QED  BY <1>3, <1>4 DEF showCallState, v

\* receivePttRightResponse, for each answer of the server.
LEMMA ResponseSound ==
    ASSUME NEW w, Sound(w), NEW r, NEW t, NEW ok \in BOOLEAN
    PROVE  Sound(receivePttRightResponse(w, r, t, ok))
  <1>1. Sound([w EXCEPT !.status = "ACCEPTED"]) /\ Sound([w EXCEPT !.status = "CANCELED"])
    BY SetStatusSound DEF Statuses
  <1>2. Sound(IF w.key = "UP" THEN FreeOrListening(w) ELSE [w EXCEPT !.status = "CANCELED"])
    BY <1>1, FreeOrListeningSound
  <1>3. Sound([clear(w) EXCEPT !.key = w.key])
    <2>1. Sound(clear(w)) /\ w.key \in {"UP", "DOWN"}
      BY ClearSound DEF Sound, Terminal
    <2>2. [clear(w) EXCEPT !.key = w.key] \in Terminal
      BY <2>1 DEF Sound, Terminal
    <2> QED  BY <2>1, <2>2 DEF Sound, Named, CallsTracked, Terminal
  <1>4. /\ Sound(refreshPttState([w EXCEPT !.status = "ACCEPTED"], t, ok))
        /\ Sound(refreshPttState(IF w.key = "UP" THEN FreeOrListening(w)
                                 ELSE [w EXCEPT !.status = "CANCELED"], t, ok))
    BY <1>1, <1>2, RefreshSound
  <1> QED  BY <1>3, <1>4 DEF receivePttRightResponse

-----------------------------------------------------------------------------
(* Steps *)

\* Everything but the terminal's record is in its type.
FrameOK ==
    /\ inbox \in Seq(Broadcasts)
    /\ pc \in {"idle", "sleep", "apply", "cancel", "hangup"}
    /\ held \in BOOLEAN
    /\ top \in Screens
    /\ dest \in BOOLEAN
    /\ armed \subseteq CallIds

Inv == FrameOK /\ Sound(term)

\* The terminal starts idle, without calls.
LEMMA InvInit == Init => Inv
  <1> SUFFICES ASSUME Init PROVE Inv
    OBVIOUS
  <1>1. term \in Terminal
    BY CallIdAssumption
       DEF Init, Terminal, Statuses, Speakers, CallStates, LegStates
  <1>2. Named(term) /\ CallsTracked(term)
    BY DEF Init, Named, CallsTracked
  <1>3. inbox \in Seq(Broadcasts)
    BY DEF Init
  <1>4. FrameOK
    BY <1>3 DEF Init, FrameOK
  <1> QED  BY <1>1, <1>2, <1>4 DEF Inv, Sound

\* The queue operations of the main thread keep the queue a queue.
LEMMA QueueType ==
    ASSUME inbox \in Seq(Broadcasts)
    PROVE  /\ \A b \in Broadcasts : Append(inbox, b) \in Seq(Broadcasts)
           /\ \A bs \in Seq(Broadcasts) : inbox \o bs \in Seq(Broadcasts)
           /\ inbox # <<>> => \A bs \in Seq(Broadcasts) :
                                Tail(inbox) \o bs \in Seq(Broadcasts)
  OBVIOUS

\* What handlePttUp sends is a sequence of broadcasts.
LEMMA UpCommandType ==
    ASSUME NEW status
    PROVE  UpCommand(status) \in Seq(Broadcasts)
  <1>1. /\ <<>> \in Seq(Broadcasts) /\ <<"CANCEL">> \in Seq(Broadcasts)
        /\ <<"HANGUP">> \in Seq(Broadcasts) /\ <<"UPDATE_UI">> \in Seq(Broadcasts)
    BY DEF Broadcasts
  <1> QED  BY <1>1 DEF UpCommand

\* The key and its two handlers keep the invariant.
LEMMA KeyStep ==
    ASSUME Inv, Press \/ Release \/ handlePttDown \/ handlePttUp \/ handlePttUpAwake
    PROVE  Inv'
  <1>1. FrameOK /\ Sound(term) /\ inbox \in Seq(Broadcasts)
    BY DEF Inv, FrameOK
  <1>2. CASE Press
    BY <1>1, <1>2, QueueType DEF Press, FrameOK, Inv, Broadcasts
  <1>3. CASE Release
    BY <1>1, <1>3, QueueType DEF Release, FrameOK, Inv, Broadcasts
  <1>4. ASSUME NEW k \in {"UP", "DOWN"}
        PROVE  Sound([term EXCEPT !.key = k])
    <2>1. [term EXCEPT !.key = k] \in Terminal
      BY <1>1 DEF Sound, Terminal
    <2> QED  BY <1>1, <2>1 DEF Sound, Named, CallsTracked, Terminal
  <1>5. CASE handlePttDown
    <2>1. <<>> \in Seq(Broadcasts) /\ <<"APPLY">> \in Seq(Broadcasts)
      BY DEF Broadcasts
    <2>2. inbox' \in Seq(Broadcasts)
      BY <1>1, <1>5, <2>1, QueueType DEF handlePttDown, Send, Receive
    <2>3. Sound(term')
      BY <1>1, <1>4, <1>5 DEF handlePttDown
    <2> QED  BY <1>1, <1>5, <2>2, <2>3 DEF handlePttDown, FrameOK, Inv
  <1>6. CASE handlePttUp
    <2>1. inbox' \in Seq(Broadcasts)
      BY <1>1, <1>6, QueueType DEF handlePttUp, Send, Receive
    <2>2. Sound(term')
      BY <1>4, <1>6 DEF handlePttUp
    <2> QED  BY <1>1, <1>6, <2>1, <2>2 DEF handlePttUp, FrameOK, Inv
  <1>7. CASE handlePttUpAwake
    <2>1. inbox' \in Seq(Broadcasts)
      BY <1>1, <1>7, QueueType, UpCommandType DEF handlePttUpAwake
    <2>2. Sound(term')
      BY <1>1, <1>7, FreeOrListeningSound DEF handlePttUpAwake
    <2> QED  BY <1>1, <1>7, <2>1, <2>2 DEF handlePttUpAwake, FrameOK, Inv
  <1> QED  BY <1>2, <1>3, <1>5, <1>6, <1>7

\* handleCommand keeps the invariant, before and after each JNI call.
LEMMA CommandStep ==
    ASSUME Inv, \/ CommApply \/ CommApplyRequest \/ CommCancel \/ CommCancelRequest
                \/ CommHangup \/ CommHangupRequest \/ CommUpdateUI
    PROVE  Inv'
  <1>1. FrameOK /\ Sound(term) /\ inbox \in Seq(Broadcasts)
    BY DEF Inv, FrameOK
  <1>2. \A b : Receive(b) /\ Send(<<>>) => inbox' \in Seq(Broadcasts)
    BY <1>1, QueueType DEF Send, Receive
  <1>3. CASE CommApply
    <2>1. Sound([term EXCEPT !.status = "APPLYING"]) /\ Sound([term EXCEPT !.status = "INIT"])
      BY <1>1, SetStatusSound DEF Statuses
    <2>2. Sound(term') /\ pc' \in {"idle", "apply"}
      BY <1>1, <1>3, <2>1 DEF CommApply
    <2> QED  BY <1>1, <1>2, <1>3, <2>2 DEF CommApply, FrameOK, Inv
  <1>4. CASE CommApplyRequest
    BY <1>1, <1>4, ApplySound DEF CommApplyRequest, FrameOK, Inv
  <1>5. CASE CommCancel
    BY <1>1, <1>2, <1>5, FreeOrListeningSound DEF CommCancel, FrameOK, Inv
  <1>6. CASE CommCancelRequest
    BY <1>1, <1>6, CancelSound DEF CommCancelRequest, FrameOK, Inv
  <1>7. CASE CommHangup
    <2>1. [term EXCEPT !.status = "FREE", !.speaker = "none", !.call = "ENDING"] \in Terminal
      BY <1>1 DEF Sound, Terminal, Statuses, Speakers, CallStates
    <2>2. Sound(term')
      BY <1>1, <1>7, <2>1 DEF CommHangup, Sound, Named, CallsTracked, Terminal
    <2> QED  BY <1>1, <1>2, <1>7, <2>2 DEF CommHangup, FrameOK, Inv
  <1>8. CASE CommHangupRequest
    BY <1>1, <1>8, HangupPttSound DEF CommHangupRequest, FrameOK, Inv
  <1>9. CASE CommUpdateUI
    BY <1>1, <1>2, <1>9 DEF CommUpdateUI, FrameOK, Inv
  <1> QED  BY <1>3, <1>4, <1>5, <1>6, <1>7, <1>8, <1>9

\* A callback that hands over a sound terminal keeps the invariant.
LEMMA CallbackStep ==
    ASSUME Inv, NEW w, Sound(w), Callback(w), dest' \in BOOLEAN, armed' \subseteq CallIds
    PROVE  Inv'
  BY DEF Inv, FrameOK, Callback

\* A call's state changes without leaving current_call behind.
LEMMA SetLegSound ==
    ASSUME NEW w, Sound(w), NEW c \in CallIds, NEW leg \in LegStates \ {"null"}
    PROVE  Sound([w EXCEPT !.legs = [w.legs EXCEPT ![c] = leg],
                           !.cur = IF @ = NoCall THEN c ELSE @])
  <1> DEFINE v == [w EXCEPT !.legs = [w.legs EXCEPT ![c] = leg],
                            !.cur = IF @ = NoCall THEN c ELSE @]
  <1>1. v \in Terminal
    BY DEF Sound, Terminal
  <1>2. Named(v)
    BY DEF Sound, Named, Terminal
  <1>3. v.cur # NoCall /\ v.legs[v.cur] # "null"
    BY CallIdAssumption DEF Sound, CallsTracked, Terminal
  <1> QED  BY <1>1, <1>2, <1>3 DEF Sound, CallsTracked

\* The end of a call moves current_call to a call that is left, if any.
LEMMA DropLegSound ==
    ASSUME NEW w, Sound(w), NEW c \in CallIds,
           NEW next \in (IF w.cur = c THEN NextCalls(w, c) ELSE {w.cur})
    PROVE  Sound([w EXCEPT !.legs = [w.legs EXCEPT ![c] = "null"], !.cur = next])
  <1> DEFINE v == [w EXCEPT !.legs = [w.legs EXCEPT ![c] = "null"], !.cur = next]
  <1>1. next \in CallIds \cup {NoCall}
    BY DEF Sound, Terminal, NextCalls
  <1>2. v \in Terminal
    BY <1>1 DEF Sound, Terminal, LegStates
  <1>3. Named(v)
    BY DEF Sound, Named, Terminal
  <1>4. v.cur = next /\ \A d \in CallIds : v.legs[d] = IF d = c THEN "null" ELSE w.legs[d]
    BY DEF Sound, Terminal
  <1>5. CASE next = NoCall
    <2>1. \A d \in CallIds \ {c} : w.legs[d] \in {"null", "rejecting"}
      BY <1>5, CallIdAssumption DEF Sound, CallsTracked, NextCalls
    <2> QED  BY <1>2, <1>3, <1>4, <1>5, <2>1 DEF Sound, CallsTracked
  <1>6. CASE next # NoCall
    <2>1. next \in CallIds \ {c} /\ w.legs[next] # "null"
      BY <1>1, <1>6 DEF Sound, CallsTracked, NextCalls
    <2> QED  BY <1>2, <1>3, <1>4, <1>6, <2>1 DEF Sound, CallsTracked
  <1> QED  BY <1>5, <1>6

\* show_call_state for a call that is gone keeps the invariant.
LEMMA DisconnectedStep ==
    ASSUME Inv, NEW w, Sound(w), NEW c \in CallIds, NEW code,
           ShowDisconnected(w, c, code), armed' \subseteq CallIds
    PROVE  Inv'
  <1>1. \A ok \in BOOLEAN : Sound(showCallState(w, c, "ENDED", code, top, ok))
    BY ShowCallSound
  <1>2. dest \in BOOLEAN
    BY DEF Inv, FrameOK
  <1>3. dest' \in BOOLEAN /\ \E v : Sound(v) /\ Callback(v)
    BY <1>1, <1>2 DEF ShowDisconnected
  <1> QED  BY <1>3, CallbackStep

\* Call events and the call timers of the native side keep the invariant.
LEMMA CallStep ==
    ASSUME Inv, NEW c \in CallIds,
           \/ on_incoming_call(c) \/ CallConfirmed(c) \/ CallDisconnected(c)
           \/ call_timeout_callback(c) \/ ptt_signal_timer_cb(c)
    PROVE  Inv'
  <1>1. Sound(term) /\ dest \in BOOLEAN /\ armed \subseteq CallIds
    BY DEF Inv, FrameOK
  <1>2. CASE on_incoming_call(c)
    <2> DEFINE w == [term EXCEPT !.legs = [term.legs EXCEPT ![c] = "incoming"],
                                 !.cur = IF @ = NoCall THEN c ELSE @]
    <2>1. Sound(w)
      BY <1>1, SetLegSound DEF LegStates
    <2> HIDE DEF w
    <2>2. Sound(showCallState(w, c, "RINGING", "ok", top, TRUE))
      BY <2>1, ShowCallSound
    <2>3. Callback(showCallState(w, c, "RINGING", "ok", top, TRUE))
      BY <1>2 DEF on_incoming_call, w
    <2> QED  BY <1>1, <1>2, <2>2, <2>3, CallbackStep DEF on_incoming_call
  <1>3. CASE CallConfirmed(c)
    <2> DEFINE w == [term EXCEPT !.legs = [term.legs EXCEPT ![c] = Acknowledged(@)],
                                 !.cur = IF @ = NoCall THEN c ELSE @]
    <2>1. Sound(w)
      BY <1>1, SetLegSound DEF Acknowledged, LegStates
    <2> HIDE DEF w
    <2>2. PICK ok \in BOOLEAN : Callback(showCallState(w, c, "TALKING", "ok", top, ok))
      BY <1>3 DEF CallConfirmed, w
    <2>3. Sound(showCallState(w, c, "TALKING", "ok", top, ok))
      BY <2>1, ShowCallSound
    <2> QED  BY <1>1, <1>3, <2>2, <2>3, CallbackStep DEF CallConfirmed
  <1>4. CASE CallDisconnected(c)
    <2>1. PICK code \in EndCodes(term.legs[c]),
               next \in IF term.cur = c THEN NextCalls(term, c) ELSE {term.cur} :
            ShowDisconnected([term EXCEPT !.legs = [term.legs EXCEPT ![c] = "null"],
                                          !.cur = next], c, code)
      BY <1>4 DEF CallDisconnected
    <2>2. Sound([term EXCEPT !.legs = [term.legs EXCEPT ![c] = "null"], !.cur = next])
      BY <1>1, DropLegSound
    <2> QED  BY <1>1, <1>4, <2>1, <2>2, DisconnectedStep DEF CallDisconnected
  <1>5. CASE call_timeout_callback(c)
    BY <1>1, <1>5, DisconnectedStep DEF call_timeout_callback
  <1>6. CASE ptt_signal_timer_cb(c)
    BY <1>1, <1>6, HangupSound, CallbackStep DEF ptt_signal_timer_cb
  <1> QED  BY <1>2, <1>3, <1>4, <1>5, <1>6

\* Messages and reports of the server keep the invariant.
LEMMA ServerStep ==
    ASSUME Inv, \/ \E r \in RightResponses : RightResponse(r)
                \/ Forbidden
                \/ \E s \in {"FREE", "WAITING", "REJECTED"} : updatePttState(s)
                \/ \E spk \in Speakers : CallInfo(spk)
                \/ mByeIndicate \/ GroupInfo
                \/ \E state \in RegReports : RegisterState(state)
    PROVE  Inv'
  <1>1. Sound(term) /\ dest \in BOOLEAN /\ armed \subseteq CallIds
    BY DEF Inv, FrameOK
  <1>2. ASSUME NEW r \in RightResponses, RightResponse(r) PROVE Inv'
    BY <1>1, <1>2, ResponseSound, CallbackStep DEF RightResponse
  <1>3. CASE Forbidden
    <2>1. Sound(term')
      BY <1>1, <1>3, ResponseSound DEF Forbidden
    <2>2. inbox' \in Seq(Broadcasts)
      BY <1>3, QueueType DEF Forbidden, Inv, FrameOK, Broadcasts
    <2> QED  BY <1>3, <2>1, <2>2 DEF Forbidden, Inv, FrameOK
  <1>4. ASSUME NEW s \in {"FREE", "WAITING", "REJECTED"}, updatePttState(s) PROVE Inv'
    <2>1. [status |-> s, speaker |-> "none"] \in Reports
      BY DEF Reports, Statuses, Speakers
    <2>2. \A ok \in BOOLEAN :
            Sound(JNIUpdatePTTState(term, [status |-> s, speaker |-> "none"], top, ok))
      BY <1>1, <2>1, UpdatePTTSound
    <2> QED  BY <1>1, <1>4, <2>2, CallbackStep DEF updatePttState
  <1>5. ASSUME NEW spk \in Speakers, CallInfo(spk) PROVE Inv'
    BY <1>1, <1>5, CallInfoSound, CallbackStep DEF CallInfo
  <1>6. CASE mByeIndicate
    BY <1>1, <1>6, ClearSound, CallbackStep DEF mByeIndicate
  <1>7. CASE GroupInfo
    BY <1>1, <1>7, GroupListAssumption, GroupInfoSound, CallbackStep DEF GroupInfo
  <1>8. ASSUME NEW state \in RegReports, RegisterState(state) PROVE Inv'
    BY <1>1, <1>8, RegisterSound, CallbackStep DEF RegisterState
  <1> QED  BY <1>2, <1>3, <1>4, <1>5, <1>6, <1>7, <1>8

\* Activities that come and go keep the invariant.
LEMMA ScreenStep ==
    ASSUME Inv, BackKey \/ (\E s \in Screens : SwitchScreen(s)) \/ CallScreenDestroyed
    PROVE  Inv'
  <1>1. Sound(term) /\ inbox \in Seq(Broadcasts)
    BY DEF Inv, FrameOK
  <1>2. \A b \in BOOLEAN : Sound([term EXCEPT !.inCall = b])
    <2>1. \A b \in BOOLEAN : [term EXCEPT !.inCall = b] \in Terminal
      BY <1>1 DEF Sound, Terminal
    <2> QED  BY <1>1, <2>1 DEF Sound, Named, CallsTracked, Terminal
  <1>3. CASE BackKey
    <2>1. inbox' \in Seq(Broadcasts)
      BY <1>1, <1>3, QueueType DEF BackKey, Broadcasts
    <2> QED  BY <1>1, <1>3, <2>1 DEF BackKey, Inv, FrameOK
  <1>4. ASSUME NEW s \in Screens, SwitchScreen(s) PROVE Inv'
    <2>1. (term.inCall \/ s = "call") \in BOOLEAN
      BY <1>1 DEF Sound, Terminal
    <2>2. Sound(term')
      BY <1>2, <1>4, <2>1 DEF SwitchScreen
    <2> QED  BY <1>4, <2>2 DEF SwitchScreen, Inv, FrameOK
  <1>5. CASE CallScreenDestroyed
    <2>1. Sound(term')
      BY <1>2, <1>5, ClearSingleSound DEF CallScreenDestroyed
    <2> QED  BY <1>5, <2>1 DEF CallScreenDestroyed, Inv, FrameOK
  <1> QED  BY <1>3, <1>4, <1>5

\* A forced registration and its thread keep the invariant.
LEMMA RegisterStep ==
    ASSUME Inv, RegisterNext
    PROVE  Inv'
  <1>1. Sound(term) /\ dest \in BOOLEAN /\ armed \subseteq CallIds
    BY DEF Inv, FrameOK
  <1>2. CASE Reregister
    BY <1>1, <1>2, ReregisterSound, CallbackStep DEF Reregister
  <1>3. CASE RegisterThread
    <2> DEFINE w == [term EXCEPT !.registered = FALSE, !.threads = @ - 1]
    <2>1. w \in Terminal
      <3>1. term \in Terminal /\ term.threads \in Nat /\ term.threads > 0
        BY <1>1, <1>3 DEF RegisterThread, Sound, Terminal
      <3>2. term.threads - 1 \in Nat
        BY <3>1
      <3>3. \A n \in Nat : [term EXCEPT !.registered = FALSE, !.threads = n] \in Terminal
        BY <3>1 DEF Terminal
      <3> QED  BY <3>2, <3>3
    <2>2. Sound(w)
      BY <1>1, <2>1 DEF Sound, Named, CallsTracked, Terminal
    <2>3. Callback(w)
      BY <1>3 DEF RegisterThread
    <2> HIDE DEF w
    <2> QED  BY <1>1, <1>3, <2>2, <2>3, CallbackStep DEF RegisterThread
  <1> QED  BY <1>2, <1>3 DEF RegisterNext

\* Every step of every thread keeps the invariant.
LEMMA InvStep == Inv /\ [Next]_vars => Inv'
  <1> SUFFICES ASSUME Inv, [Next]_vars PROVE Inv'
    OBVIOUS
  <1>1. CASE MainNext
    BY <1>1, KeyStep, CommandStep DEF MainNext
  <1>2. CASE WorkerNext
    BY <1>2, CallStep, ServerStep DEF WorkerNext
  <1>3. CASE UserNext
    BY <1>3, KeyStep, ScreenStep DEF UserNext
  <1>4. CASE RegisterNext
    BY <1>4, RegisterStep
  <1>5. CASE UNCHANGED vars
    BY <1>5 DEF vars, Inv, FrameOK
  <1> QED  BY <1>1, <1>2, <1>3, <1>4, <1>5 DEF Next

\* The inductive invariant: every handler of either thread takes a sound
\* terminal to a sound terminal, in any order of the two threads.
THEOREM Invariance == Spec => []Inv
  BY InvInit, InvStep, PTL DEF Spec

\* Every variable keeps its type, in particular every call id the handlers
\* store or pass to the stack is one pjsua handed out, or none.
THEOREM TypeCorrect == Spec => []TypeOK
  <1>1. Inv => TypeOK
    BY DEF Inv, FrameOK, TypeOK, Sound
  <1> QED  BY <1>1, Invariance, PTL

\* Status and speaker never contradict each other, whichever thread wrote
\* them last and whatever the server sent.
THEOREM FloorNamed == Spec => []FloorNaming
  <1>1. Inv => FloorNaming
    BY DEF Inv, FloorNaming, Sound, Named
  <1> QED  BY <1>1, Invariance, PTL

\* current_call of pjsua_app.c is a live call, or unset with none left to end.
THEOREM CurrentCallTracked == Spec => []CurrentCallLive
  <1>1. Inv => CurrentCallLive
    BY DEF Inv, CurrentCallLive, Sound, CallsTracked
  <1> QED  BY <1>1, Invariance, PTL

============================================================================
