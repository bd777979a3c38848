------------------------ MODULE PttFloorCalls_proofs ------------------------
(***************************************************************************)
(* TalkingIsReal and HangupReachesCall, for any number of call ids: the    *)
(* call PTTManager believes in is the call the stack has.                  *)
(*                                                                         *)
(* Both are about calls that come one at a time, with the PTT screen on    *)
(* top, a group list that stays and no registration lost or forced: the    *)
(* conditions SteadyGroup.  Without them the code drops the id or the end  *)
(* of a call on purpose or by oversight, see README.                       *)
(*                                                                         *)
(* The argument: almost every handler only settles the terminal (Settles): *)
(* it ends calls, drops the id and never makes callState TALKING.  The     *)
(* four call events are the rest.  The strengthening is about current_call *)
(* and dest_num of pjsua_app.c, because they decide which end is reported. *)
(***************************************************************************)
EXTENDS PttFloor_proofs

SteadyGroup ==
    /\ Screens = {"ptt"} /\ OneLeg /\ MaxThreads = 0
    /\ RegReports \subseteq {"REG_ED"}
    /\ \A g \in GroupLists : g.listed

\* One handler's effect on a call: none, or its end is asked for.
LegSettles(before, after) ==
    \/ after = before
    \/ before = "incoming" /\ after = "rejecting"
    \/ before = "connecting" /\ after = "closing"
    \/ before = "confirmed" /\ after = "ending"

\* The handler ends calls, drops the id and never makes callState TALKING.
Settles(w, v) ==
    /\ w \in Terminal /\ v \in Terminal
    /\ v.cur = w.cur
    /\ w.groups => v.groups
    /\ v.force => w.force
    /\ v.callId \in {w.callId, NoCall}
    /\ v.call = "TALKING" => w.call = "TALKING"
    /\ \A c \in CallIds : LegSettles(w.legs[c], v.legs[c])

\* A call that is up or may still be reported as up.
Open(leg) == leg \in {"incoming", "connecting", "closing", "confirmed"}

\* PTTManager and the stack agree about the one call there is.
Kept(w) ==
    /\ ~w.force
    /\ ~w.groups => w.callId = NoCall /\ w.call # "TALKING"
    /\ \A c, d \in CallIds : Open(w.legs[c]) /\ Open(w.legs[d]) => c = d
    /\ \A c \in CallIds : Live(w.legs[c]) => w.callId \in {c, NoCall}
    /\ \A c \in CallIds :
         w.legs[c] \in {"connecting", "closing", "confirmed"} => w.cur = c
    /\ w.call = "TALKING" =>
         /\ w.cur # NoCall /\ Established(w.legs[w.cur])
         /\ \A c \in CallIds : w.legs[c] \notin {"incoming", "connecting", "closing"}

\* A wiped dest_num, which silences the next end, goes with no talking call;
\* a supervised call was established.
Supervised ==
    /\ ~dest => /\ term.call # "TALKING"
                /\ \A c \in CallIds : term.legs[c] \notin {"connecting", "closing"}
    /\ \A c \in armed : Established(term.legs[c])

CallInv == Inv /\ Kept(term) /\ top = "ptt" /\ Supervised

-----------------------------------------------------------------------------
(* Handlers that settle *)

\* A handler that leaves calls, ids and the force flag alone settles.
LEMMA SameSettles ==
    ASSUME NEW w \in Terminal, NEW v \in Terminal,
           v.cur = w.cur, v.groups = w.groups, v.force = w.force,
           v.callId = w.callId, v.call = w.call, v.legs = w.legs
    PROVE  Settles(w, v)
  BY DEF Settles, LegSettles

\* Two handlers in a row.
LEMMA SettlesTransitive ==
    ASSUME NEW u, NEW v, NEW w, Settles(u, v), Settles(v, w)
    PROVE  Settles(u, w)
  <1>1. \A c \in CallIds : LegSettles(u.legs[c], w.legs[c])
    BY DEF Settles, LegSettles
  <1> QED  BY <1>1 DEF Settles

\* A hangup request ends one call.
LEMMA HangupSettles ==
    ASSUME NEW w \in Terminal, NEW c \in CallIds
    PROVE  Settles(w, RequestHangup(w, c))
  <1> DEFINE v == RequestHangup(w, c)
  <1>1. v \in Terminal
    BY DEF RequestHangup, Terminal, LegStates
  <1>2. \A d \in CallIds : LegSettles(w.legs[d], v.legs[d])
    BY DEF RequestHangup, Terminal, LegStates, LegSettles
  <1> QED  BY <1>1, <1>2 DEF RequestHangup, Settles, Terminal

\* hangupPttCall ends the call PTTManager knows of, if any.
LEMMA HangupPttSettles ==
    ASSUME NEW w \in Terminal
    PROVE  Settles(w, hangupPttCall(w))
  <1>1. Settles(w, w)
    BY SameSettles
  <1> QED  BY <1>1, HangupSettles DEF hangupPttCall, Terminal

\* Writing the status and the speaker concerns no call.
LEMMA FloorSettles ==
    ASSUME NEW w \in Terminal, NEW s \in Statuses, NEW p \in Speakers
    PROVE  /\ Settles(w, [w EXCEPT !.status = s, !.speaker = p])
           /\ Settles(w, [w EXCEPT !.speaker = p, !.status = s])
           /\ Settles(w, [w EXCEPT !.status = s])
  <1>1. /\ [w EXCEPT !.status = s, !.speaker = p] \in Terminal
        /\ [w EXCEPT !.speaker = p, !.status = s] \in Terminal
        /\ [w EXCEPT !.status = s] \in Terminal
    BY DEF Terminal
  <1> QED  BY <1>1 DEF Settles, LegSettles, Terminal

\* A refused request frees the floor; the two requests go through it.
LEMMA RequestSettles ==
    ASSUME NEW w \in Terminal, NEW ok \in BOOLEAN
    PROVE  /\ Settles(w, cancelPttRight(w, ok))
           /\ Settles(w, applyPttRight(w, ok))
  <1>1. Settles(w, w)
    BY SameSettles
  <1>2. Settles(w, [w EXCEPT !.speaker = "none", !.status = "FREE"])
    BY FloorSettles DEF Statuses, Speakers
  <1> QED  BY <1>1, <1>2 DEF cancelPttRight, applyPttRight, checkResult

\* The two clear methods drop ids and end nothing.
LEMMA ClearSettles ==
    ASSUME NEW w \in Terminal
    PROVE  Settles(w, clear(w)) /\ Settles(w, clearSingleCall(w))
  <1>1. clear(w) \in Terminal
    BY DEF clear, Terminal, Statuses, Speakers
  <1>2. clearSingleCall(w) \in Terminal
    BY CallIdAssumption DEF clearSingleCall, Terminal, CallStates
  <1>3. Settles(w, clear(w))
    BY <1>1 DEF clear, Settles, LegSettles, Terminal
  <1>4. Settles(w, clearSingleCall(w))
    BY <1>2 DEF clearSingleCall, Settles, LegSettles, Terminal
  <1> QED  BY <1>3, <1>4

\* FREE or LISTENING, whoever speaks.
LEMMA FreeOrListeningSettles ==
    ASSUME NEW w \in Terminal
    PROVE  Settles(w, FreeOrListening(w))
  BY FloorSettles DEF FreeOrListening, Statuses, Terminal

\* First part of JNIUpdatePTTState.
LEMMA AdoptSettles ==
    ASSUME NEW w \in Terminal, NEW obj \in Reports
    PROVE  Settles(w, adoptPttState(w, obj))
  <1>1. Settles(w, w)
    BY SameSettles
  <1>2. Settles(w, [w EXCEPT !.status = "FREE", !.speaker = obj.speaker])
    BY FloorSettles DEF Statuses, Reports
  <1>3. Settles(w, [w EXCEPT !.status = obj.status])
    BY FloorSettles DEF Reports
  <1> QED  BY <1>1, <1>2, <1>3 DEF adoptPttState

\* Second part: with the key up the call is hung up.
LEMMA ClaimSettles ==
    ASSUME NEW w \in Terminal, NEW obj \in Reports, NEW said
    PROVE  Settles(w, claimFloor(w, obj, said))
  <1> DEFINE talking == /\ w.call = "TALKING" /\ obj.status # "SPEAKING"
                        /\ w.key = "DOWN" /\ said = "me"
             v == IF talking THEN [w EXCEPT !.status = "SPEAKING", !.speaker = "me"] ELSE w
             u == IF v.call = "TALKING" THEN hangupPttCall(v) ELSE v
  <1>1. Settles(w, v)
    <2>1. Settles(w, w)
      BY SameSettles
    <2> QED  BY <2>1, FloorSettles DEF Statuses, Speakers
  <1>2. v \in Terminal
    BY <1>1 DEF Settles
  <1> HIDE DEF v
  <1>3. Settles(v, [v EXCEPT !.status = "SPEAKING"])
    BY <1>2, FloorSettles DEF Statuses, Speakers
  <1>4. Settles(v, u)
    <2>1. Settles(v, v)
      BY <1>2, SameSettles
    <2> QED  BY <1>2, <2>1, HangupPttSettles
  <1>5. u \in Terminal
    BY <1>4 DEF Settles
  <1> HIDE DEF u
  <1>6. Settles(v, [u EXCEPT !.status = "FREE", !.speaker = "none"])
    <2>1. Settles(u, [u EXCEPT !.status = "FREE", !.speaker = "none"])
      BY <1>5, FloorSettles DEF Statuses, Speakers
    <2> QED  BY <1>4, <2>1, SettlesTransitive
  <1>7. /\ Settles(w, [v EXCEPT !.status = "SPEAKING"])
        /\ Settles(w, [u EXCEPT !.status = "FREE", !.speaker = "none"])
    BY <1>1, <1>3, <1>6, SettlesTransitive
  <1>8. claimFloor(w, obj, said) =
          IF v.status \notin {"LISTENING", "SPEAKING"} \/ said # "me" THEN v
          ELSE IF v.key = "DOWN" THEN [v EXCEPT !.status = "SPEAKING"]
          ELSE [u EXCEPT !.status = "FREE", !.speaker = "none"]
    BY DEF claimFloor, v, u
  <1> QED  BY <1>1, <1>7, <1>8

\* Third part: what a released key gives back.
LEMMA ReleaseSettles ==
    ASSUME NEW w \in Terminal, NEW ok \in BOOLEAN
    PROVE  Settles(w, releaseIfUp(w, ok))
  <1>1. /\ Settles(w, w) /\ Settles(w, hangupPttCall(w))
        /\ Settles(w, cancelPttRight(w, ok))
    BY SameSettles, HangupPttSettles, RequestSettles
  <1>2. Settles(w, [w EXCEPT !.status = "FREE", !.speaker = "none"])
    BY FloorSettles DEF Statuses, Speakers
  <1> QED  BY <1>1, <1>2 DEF releaseIfUp

\* JNIUpdatePTTState as a whole.
LEMMA UpdatePTTSettles ==
    ASSUME NEW w \in Terminal, NEW obj \in Reports, NEW t, NEW ok \in BOOLEAN
    PROVE  Settles(w, JNIUpdatePTTState(w, obj, t, ok))
  <1> DEFINE asked == obj.status \in {"WAITING", "REJECTED"}
             said  == IF asked THEN w.speaker ELSE obj.speaker
             v     == adoptPttState(w, obj)
             u     == claimFloor(v, obj, said)
  <1>1. Settles(w, w) /\ Settles(w, v)
    BY SameSettles, AdoptSettles
  <1>2. v \in Terminal
    BY <1>1 DEF Settles
  <1>3. Settles(v, u)
    BY <1>2, ClaimSettles
  <1>4. u \in Terminal
    BY <1>3 DEF Settles
  <1>5. Settles(u, releaseIfUp(u, ok))
    BY <1>4, ReleaseSettles
  <1>6. Settles(w, releaseIfUp(u, ok))
    BY <1>1, <1>3, <1>5, SettlesTransitive
  <1> QED  BY <1>1, <1>6 DEF JNIUpdatePTTState

\* JNIUpdatePTTState called with the current status itself.
LEMMA RefreshSettles ==
    ASSUME NEW w, NEW v, Settles(w, v), NEW t, NEW ok \in BOOLEAN
    PROVE  Settles(w, refreshPttState(v, t, ok))
  <1>1. v \in Terminal /\ [status |-> v.status, speaker |-> v.speaker] \in Reports
    BY DEF Settles, Terminal, Reports
  <1>2. Settles(v, refreshPttState(v, t, ok))
    BY <1>1, UpdatePTTSettles DEF refreshPttState
  <1> QED  BY <1>2, SettlesTransitive

\* JNIUpdateCallState writes the single-call side only.
LEMMA UpdateCallSettles ==
    ASSUME NEW w \in Terminal, NEW c \in CallIds, NEW cs \in CallStates
    PROVE  Settles(w, JNIUpdateCallState(w, c, cs))
  <1>1. JNIUpdateCallState(w, c, cs) \in Terminal
    BY DEF JNIUpdateCallState, Terminal, CallStates
  <1> QED  BY <1>1 DEF JNIUpdateCallState, Settles, LegSettles, Terminal

\* With the PTT screen on top the tail of showCallState does no more.
LEMMA PassSettles ==
    ASSUME NEW w, NEW v, Settles(w, v), NEW before, NEW c \in CallIds,
           NEW cs \in CallStates
    PROVE  Settles(w, passToSingleCall(v, before, c, cs, "ptt"))
  <1>1. v \in Terminal
    BY DEF Settles
  <1>2. Settles(v, v) /\ Settles(v, JNIUpdateCallState(v, c, cs))
    BY <1>1, SameSettles, UpdateCallSettles
  <1>3. Settles(v, passToSingleCall(v, before, c, cs, "ptt"))
    BY <1>2 DEF passToSingleCall
  <1> QED  BY <1>3, SettlesTransitive

\* mInviteIndicate hangs up at most the call whose id it knows.
LEMMA CallInfoSettles ==
    ASSUME NEW w0 \in Terminal, NEW spk \in Speakers, NEW t, NEW ok \in BOOLEAN
    PROVE  Settles(w0, mInviteIndicate(w0, spk, t, ok))
  <1> DEFINE single == w0.scState \notin {"ENDED", "IDLE"}
             w == IF single THEN clearSingleCall(w0) ELSE w0
             kept == w.status \in {"WAITING", "APPLYING", "REJECTED"} /\ w.key = "DOWN"
             ended == IF w.status = "LISTENING" THEN hangupPttCall(w) ELSE w
             named == [w EXCEPT !.speaker = spk,
                                !.status = IF kept THEN @ ELSE "LISTENING"]
  <1>1. Settles(w0, w0) /\ Settles(w0, w)
    BY SameSettles, ClearSettles
  <1> HIDE DEF w, single
  <1>2. w \in Terminal
    BY <1>1 DEF Settles
  <1>3. Settles(w, w) /\ Settles(w, hangupPttCall(w))
    BY <1>2, SameSettles, HangupPttSettles
  <1>4. Settles(w0, ended) /\ Settles(w0, hangupPttCall(w))
    BY <1>1, <1>3, SettlesTransitive
  <1>5. Settles(w0, named)
    <2>1. (IF kept THEN w.status ELSE "LISTENING") \in Statuses
      BY <1>2 DEF Terminal, Statuses
    <2>2. Settles(w, [w EXCEPT !.speaker = spk,
                               !.status = IF kept THEN w.status ELSE "LISTENING"])
      BY <1>2, <2>1, FloorSettles
    <2>3. [w EXCEPT !.speaker = spk, !.status = IF kept THEN w.status ELSE "LISTENING"]
            = named
      BY <1>2 DEF Terminal
    <2> QED  BY <1>1, <2>2, <2>3, SettlesTransitive
  <1> HIDE DEF ended, named
  <1>6. ASSUME NEW v, Settles(w0, v), NEW s \in Statuses, NEW p \in Speakers
        PROVE  Settles(w0, [v EXCEPT !.status = s, !.speaker = p])
    <2>1. v \in Terminal
      BY <1>6 DEF Settles
    <2> QED  BY <1>6, <2>1, FloorSettles, SettlesTransitive
  <1>7. /\ spk # "none" => Settles(w0, [w0 EXCEPT !.status = "LISTENING", !.speaker = spk])
        /\ Settles(w0, [hangupPttCall(w) EXCEPT !.status = "APPLYING", !.speaker = "none"])
        /\ Settles(w0, [ended EXCEPT !.status = "FREE", !.speaker = "none"])
        /\ Settles(w0, [w EXCEPT !.status = "SPEAKING", !.speaker = "me"])
    BY <1>1, <1>4, <1>6 DEF Statuses, Speakers
  <1>8. /\ Settles(w0, refreshPttState([ended EXCEPT !.status = "FREE", !.speaker = "none"], t, ok))
        /\ Settles(w0, refreshPttState([w EXCEPT !.status = "SPEAKING", !.speaker = "me"], t, ok))
        /\ Settles(w0, refreshPttState(named, t, ok))
    BY <1>5, <1>7, RefreshSettles
  <1> QED
    BY <1>1, <1>7, <1>8 DEF mInviteIndicate, w, ended, single, named

\* A group list that is not empty ends no group call of its own accord.
LEMMA GroupInfoSettles ==
    ASSUME NEW w0 \in Terminal, NEW t, NEW ok \in BOOLEAN,
           NEW g \in [listed : BOOLEAN, gone : BOOLEAN, dynamic : BOOLEAN], g.listed
    PROVE  Settles(w0, JNIAddGroupInfo(w0, g, t, ok))
  <1> DEFINE w == [w0 EXCEPT !.groups = g.listed]
             v == IF w.status # "INIT" THEN w
                  ELSE IF ~g.listed THEN clear(w)
                  ELSE IF w.key = "UP" THEN [w EXCEPT !.status = "FREE"]
                  ELSE IF t # "alert" /\ w.registered
                       THEN applyPttRight([w EXCEPT !.status = "APPLYING"], ok) ELSE w
             u == IF v.status = "SPEAKING" /\ v.key = "DOWN" THEN hangupPttCall(v) ELSE v
  <1>1. Settles(w0, w)
    <2>1. w \in Terminal
      BY DEF Terminal
    <2> QED  BY <2>1 DEF Settles, LegSettles, Terminal
  <1>2. w \in Terminal
    BY <1>1 DEF Settles
  <1> HIDE DEF w
  <1>3. Settles(w, v)
    <2>1. /\ Settles(w, w) /\ Settles(w, clear(w))
          /\ Settles(w, [w EXCEPT !.status = "FREE"])
          /\ Settles(w, [w EXCEPT !.status = "APPLYING"])
      BY <1>2, SameSettles, ClearSettles, FloorSettles DEF Statuses, Speakers
    <2>2. [w EXCEPT !.status = "APPLYING"] \in Terminal
      BY <2>1 DEF Settles
    <2>3. Settles(w, applyPttRight([w EXCEPT !.status = "APPLYING"], ok))
      BY <2>1, <2>2, RequestSettles, SettlesTransitive
    <2> QED  BY <2>1, <2>3
  <1>4. v \in Terminal
    BY <1>3 DEF Settles
  <1> HIDE DEF v
  <1>5. Settles(v, u)
    <2>1. Settles(v, v)
      BY <1>4, SameSettles
    <2> QED  BY <1>4, <2>1, HangupPttSettles
  <1>6. u \in Terminal
    BY <1>5 DEF Settles
  <1> HIDE DEF u
  <1>7. Settles(w0, v) /\ Settles(w0, clear(u))
    BY <1>1, <1>3, <1>5, <1>6, ClearSettles, SettlesTransitive
  <1> QED  BY <1>7 DEF JNIAddGroupInfo, w, v, u

\* receivePttRightResponse, for each answer of the server.
LEMMA ResponseSettles ==
    ASSUME NEW w \in Terminal, NEW r, NEW t, NEW ok \in BOOLEAN
    PROVE  Settles(w, receivePttRightResponse(w, r, t, ok))
  <1>1. /\ Settles(w, w)
        /\ Settles(w, [w EXCEPT !.status = "ACCEPTED"])
        /\ Settles(w, [w EXCEPT !.status = "CANCELED"])
        /\ Settles(w, FreeOrListening(w))
    BY SameSettles, FloorSettles, FreeOrListeningSettles DEF Statuses, Speakers
  <1>2. Settles(w, [clear(w) EXCEPT !.key = w.key])
    <2>1. Settles(w, clear(w)) /\ clear(w) \in Terminal
      BY ClearSettles DEF Settles
    <2>2. [clear(w) EXCEPT !.key = w.key] \in Terminal
      BY <2>1 DEF Terminal
    <2>3. Settles(clear(w), [clear(w) EXCEPT !.key = w.key])
      BY <2>1, <2>2, SameSettles DEF Terminal
    <2> QED  BY <2>1, <2>3, SettlesTransitive
  <1>3. /\ Settles(w, refreshPttState([w EXCEPT !.status = "ACCEPTED"], t, ok))
        /\ Settles(w, refreshPttState(IF w.key = "UP" THEN FreeOrListening(w)
                                      ELSE [w EXCEPT !.status = "CANCELED"], t, ok))
    BY <1>1, RefreshSettles
  <1> QED  BY <1>1, <1>2, <1>3 DEF receivePttRightResponse

\* A confirmed call: from the noted call on, nothing but hangups.
LEMMA TalkingSettles ==
    ASSUME NEW w \in Terminal, NEW c \in CallIds, NEW ok \in BOOLEAN
    PROVE  Settles(w, groupCallTalking(w, c, "ptt", ok))
  <1> DEFINE s == IF w.speaker = "peer" THEN w.status ELSE "SPEAKING"
             p == IF w.key = "DOWN" THEN "me" ELSE w.speaker
             mine == [w EXCEPT !.status = IF w.speaker = "peer" THEN @ ELSE "SPEAKING",
                               !.speaker = IF w.key = "DOWN" THEN "me" ELSE @]
             v == CASE w.status \in {"REJECTED", "INIT", "SPEAKING"} -> w
                    [] w.key = "DOWN" \/ w.status = "LISTENING" -> refreshPttState(mine, "ptt", ok)
                    [] OTHER -> hangupPttCall(w)
  <1>1. Settles(w, mine)
    <2>1. s \in Statuses /\ p \in Speakers
      BY DEF Terminal, Statuses, Speakers
    <2>2. mine = [w EXCEPT !.status = s, !.speaker = p]
      BY DEF Terminal
    <2> HIDE DEF s, p, mine
    <2> QED  BY <2>1, <2>2, FloorSettles
  <1> HIDE DEF mine
  <1>2. Settles(w, v)
    <2>1. Settles(w, w) /\ Settles(w, hangupPttCall(w))
      BY SameSettles, HangupPttSettles
    <2>2. Settles(w, refreshPttState(mine, "ptt", ok))
      BY <1>1, RefreshSettles
    <2> QED  BY <2>1, <2>2
  <1> HIDE DEF v
  <1>3. Settles(w, passToSingleCall(v, w.status, c, "TALKING", "ptt"))
    BY <1>2, PassSettles DEF CallStates
  <1> QED  BY <1>3 DEF groupCallTalking, v, mine

\* The end of a call: likewise.
LEMMA EndedSettles ==
    ASSUME NEW w \in Terminal, NEW c \in CallIds, NEW ok \in BOOLEAN
    PROVE  Settles(w, groupCallEnded(w, c, "ptt", ok))
  <1> DEFINE freed == refreshPttState([w EXCEPT !.status = "FREE", !.speaker = "none"], "ptt", ok)
             taken == [cancelPttRight(w, ok) EXCEPT !.status = "CANCELING"]
  <1>1. Settles(w, w) /\ Settles(w, freed)
    BY SameSettles, FloorSettles, RefreshSettles DEF Statuses, Speakers
  <1> HIDE DEF freed
  <1>2. Settles(w, refreshPttState(FreeOrListening(w), "ptt", ok))
    BY FreeOrListeningSettles, RefreshSettles
  <1>3. Settles(w, refreshPttState(taken, "ptt", ok))
    <2>1. Settles(w, cancelPttRight(w, ok)) /\ cancelPttRight(w, ok) \in Terminal
      BY RequestSettles DEF Settles
    <2>2. Settles(w, taken)
      BY <2>1, FloorSettles, SettlesTransitive DEF Statuses, Speakers
    <2> QED  BY <2>2, RefreshSettles
  <1>4. /\ Settles(w, passToSingleCall(freed, "LISTENING", c, "ENDED", "ptt"))
        /\ Settles(w, passToSingleCall(w, w.status, c, "ENDED", "ptt"))
    BY <1>1, PassSettles DEF CallStates
  <1> QED  BY <1>1, <1>2, <1>3, <1>4 DEF groupCallEnded, freed

\* A call that ended with an error is recorded as ended, if it is a group's.
LEMMA ErrorSettles ==
    ASSUME NEW w \in Terminal, ~w.force, NEW c \in CallIds, NEW code
    PROVE  /\ Settles(w, showCallError(w, c, code, "ptt"))
           /\ w.groups => showCallError(w, c, code, "ptt").call # "TALKING"
  <1> DEFINE freed == [w EXCEPT !.status = "FREE", !.speaker = "none", !.call = "ENDED"]
             over  == [w EXCEPT !.call = "ENDED"]
             v == IF InSingleCall(w, "ptt") \/ ~w.groups
                  THEN IF w.scState \in {"RINGING", "REJECTING"} /\ code # "486"
                       THEN w ELSE JNIUpdateCallState(w, c, "ENDED")
                  ELSE IF w.key # "DOWN" /\ "ptt" # "ptt" THEN w
                  ELSE IF code \in {"486", "504"} THEN freed ELSE over
  <1>1. Settles(w, w) /\ Settles(w, JNIUpdateCallState(w, c, "ENDED"))
    BY SameSettles, UpdateCallSettles DEF CallStates
  <1>2. Settles(w, freed) /\ freed.call = "ENDED"
    <2>1. freed \in Terminal
      BY DEF Terminal, Statuses, Speakers, CallStates
    <2> QED  BY <2>1 DEF Settles, LegSettles, Terminal
  <1>3. Settles(w, over) /\ over.call = "ENDED"
    <2>1. over \in Terminal
      BY DEF Terminal, CallStates
    <2> QED  BY <2>1 DEF Settles, LegSettles, Terminal
  <1> HIDE DEF freed, over
  <1>4. Settles(w, v) /\ (w.groups => v.call = "ENDED")
    BY <1>1, <1>2, <1>3 DEF InSingleCall, SingleCallOnTop
  <1>5. v \in Terminal
    BY <1>4 DEF Settles
  <1> HIDE DEF v
  <1>6. Settles(v, RequestHangup(v, c)) /\ RequestHangup(v, c).call = v.call
    BY <1>5, HangupSettles DEF RequestHangup, Terminal
  <1>7. Settles(w, RequestHangup(v, c))
    BY <1>4, <1>6, SettlesTransitive
  <1> QED  BY <1>4, <1>6, <1>7 DEF showCallError, v, freed, over

-----------------------------------------------------------------------------
(* Steps *)

\* What only settles keeps PTTManager and the stack in agreement.
LEMMA KeptSettles ==
    ASSUME NEW w, NEW v, Kept(w), Settles(w, v)
    PROVE  Kept(v)
  <1>1. \A c \in CallIds : /\ Live(v.legs[c]) => Live(w.legs[c])
                           /\ Open(v.legs[c]) => Open(w.legs[c])
    BY DEF Settles, LegSettles, Live, Open
  <1>2. \A c \in CallIds : Established(w.legs[c]) => Established(v.legs[c])
    BY DEF Settles, LegSettles, Established
  <1>3. \A c \in CallIds : v.legs[c] \in {"incoming", "connecting", "closing"}
                             => w.legs[c] \in {"incoming", "connecting", "closing"}
    BY DEF Settles, LegSettles
  <1>4. w.cur # NoCall => w.cur \in CallIds
    BY DEF Settles, Terminal
  <1>5. v.call = "TALKING" =>
          /\ v.cur # NoCall /\ Established(v.legs[v.cur])
          /\ \A c \in CallIds : v.legs[c] \notin {"incoming", "connecting", "closing"}
    BY <1>2, <1>3, <1>4 DEF Settles, Kept
  <1>6. \A c \in CallIds :
          v.legs[c] \in {"connecting", "closing", "confirmed"} => v.cur = c
    BY DEF Settles, LegSettles, Kept
  <1>7. ~v.groups => v.callId = NoCall /\ v.call # "TALKING"
    BY DEF Settles, Kept
  <1> QED  BY <1>1, <1>5, <1>6, <1>7 DEF Settles, Kept

\* Established calls stay established, and no call comes to wait for its ACK.
LEMMA SupervisedSettles ==
    ASSUME NEW w, NEW v, Settles(w, v), NEW c \in CallIds
    PROVE  /\ Established(w.legs[c]) => Established(v.legs[c])
           /\ v.legs[c] \in {"connecting", "closing"}
                => w.legs[c] \in {"connecting", "closing"}
  BY DEF Settles, LegSettles, Established

\* A step that only settles keeps the invariant.
LEMMA SettledStep ==
    ASSUME CallInv, Inv', Settles(term, term'),
           top' = top, dest' = dest, armed' = armed
    PROVE  CallInv'
  <1>1. Kept(term')
    BY KeptSettles DEF CallInv
  <1>2. armed \subseteq CallIds
    BY DEF CallInv, Inv, FrameOK
  <1>3. Supervised'
    BY <1>2, SupervisedSettles DEF CallInv, Supervised, Settles
  <1> QED  BY <1>1, <1>3 DEF CallInv

\* The server's call for a group: it is the only live one.
LEMMA IncomingStep ==
    ASSUME SteadyGroup, CallInv, Inv', NEW c \in CallIds, on_incoming_call(c)
    PROVE  CallInv'
  <1> DEFINE w == [term EXCEPT !.legs = [term.legs EXCEPT ![c] = "incoming"],
                               !.cur = IF @ = NoCall THEN c ELSE @]
             v == noteGroupCall(w, c, "RINGING")
  <1>1. /\ Sound(term) /\ Kept(term) /\ top = "ptt" /\ armed \subseteq CallIds
        /\ term.legs[c] = "null"
        /\ \A d \in CallIds : ~Open(term.legs[d])
    BY DEF CallInv, Inv, FrameOK, on_incoming_call, SteadyGroup, Open
  <1>2. w \in Terminal
    BY <1>1 DEF Sound, Terminal, LegStates
  <1>3. /\ w.groups = term.groups /\ w.force = term.force /\ w.status = term.status
        /\ w.callId = term.callId /\ w.call = term.call
        /\ w.cur = (IF term.cur = NoCall THEN c ELSE term.cur)
        /\ \A d \in CallIds : w.legs[d] = IF d = c THEN "incoming" ELSE term.legs[d]
    BY <1>1 DEF Sound, Terminal
  <1> HIDE DEF w
  <1>4. v \in Terminal
    BY <1>2 DEF noteGroupCall, Terminal, CallStates
  <1>5. /\ v.groups = w.groups /\ v.force = w.force /\ v.cur = w.cur /\ v.legs = w.legs
        /\ v.callId = c /\ v.call = "RINGING"
    BY <1>2 DEF noteGroupCall, Terminal
  <1> HIDE DEF v
  <1>6. ~w.groups => Kept(w)
    BY <1>1, <1>3 DEF Kept, Live, Open
  <1>7. w.groups => Kept(v)
    BY <1>1, <1>3, <1>5 DEF Kept, Live, Open
  <1>8. ASSUME NEW u, NEW x, Kept(u), Settles(u, x), u.legs = w.legs, term' = x
        PROVE  CallInv'
    <2>1. Kept(term')
      BY <1>8, KeptSettles
    <2>2. \A d \in armed : Established(x.legs[d])
      <3>1. \A d \in armed : d \in CallIds /\ Established(w.legs[d])
        BY <1>1, <1>3 DEF CallInv, Supervised, Established
      <3> QED  BY <1>8, <3>1, SupervisedSettles
    <2>3. Supervised'
      BY <1>8, <2>2 DEF Supervised, on_incoming_call
    <2> QED  BY <1>1, <2>1, <2>3 DEF CallInv, on_incoming_call, Callback
  <1>9. term' = showCallState(w, c, "RINGING", "ok", "ptt", TRUE)
    BY <1>1 DEF on_incoming_call, Callback, w
  <1>10. CASE ~w.groups
    <2>1. term' = passToSingleCall(w, w.status, c, "RINGING", "ptt")
      BY <1>9, <1>10 DEF showCallState
    <2>2. Settles(w, term')
      BY <1>2, <2>1, SameSettles, PassSettles DEF CallStates
    <2> QED  BY <1>6, <1>8, <1>10, <2>2
  <1>11. CASE w.groups
    <2>1. term' = groupCallRinging(v, c, "ptt")
      BY <1>1, <1>3, <1>9, <1>11 DEF showCallState, v, Kept
    <2>2. CASE v.status \notin {"SPEAKING", "INIT", "CANCELED"} /\ RequestAnswer(v, c) # v
      <3>1. /\ v.cur # NoCall /\ v.legs[v.cur] = "incoming"
            /\ term' = [v EXCEPT !.legs = [v.legs EXCEPT ![c] = "connecting"]]
        BY <2>1, <2>2 DEF groupCallRinging, RequestAnswer
      <3>2. v.cur = c
        <4>1. v.cur \in CallIds
          BY <1>4, <3>1 DEF Terminal
        <4> QED  BY <1>1, <1>3, <1>5, <3>1, <4>1 DEF Open
      <3>3. /\ term'.groups = v.groups /\ term'.force = v.force /\ term'.cur = v.cur
            /\ term'.callId = v.callId /\ term'.call = v.call
            /\ \A d \in CallIds : term'.legs[d] = IF d = c THEN "connecting" ELSE v.legs[d]
        BY <1>4, <3>1 DEF Terminal
      <3>4. Kept(term')
        <4>1. \A d \in CallIds \ {c} : ~Open(term'.legs[d])
          BY <1>1, <1>3, <1>5, <3>3
        <4>2. ~term'.force /\ term'.groups
          BY <1>1, <1>3, <1>5, <1>11, <3>3 DEF Kept
        <4>3. term'.callId = c /\ term'.cur = c /\ term'.call # "TALKING"
          BY <1>5, <3>2, <3>3
        <4>4. \A d \in CallIds : /\ Live(term'.legs[d]) => d = c
                                 /\ term'.legs[d] \in {"connecting", "closing", "confirmed"}
                                      => d = c
          BY <4>1 DEF Live, Open
        <4> QED  BY <4>1, <4>2, <4>3, <4>4 DEF Kept
      <3>5. \A d \in armed : Established(term'.legs[d])
        BY <1>1, <1>3, <1>5, <3>3 DEF CallInv, Supervised, Established
      <3>6. Supervised'
        BY <3>5 DEF Supervised, on_incoming_call
      <3> QED  BY <1>1, <3>4, <3>6 DEF CallInv, on_incoming_call, Callback
    <2>3. CASE v.status \notin {"SPEAKING", "INIT", "CANCELED"} /\ RequestAnswer(v, c) = v
      <3>1. term' = v
        BY <2>1, <2>3 DEF groupCallRinging
      <3> QED  BY <1>4, <1>5, <1>7, <1>8, <1>11, <3>1, SameSettles
    <2>4. CASE v.status \in {"SPEAKING", "INIT", "CANCELED"}
      <3> DEFINE u == IF v.key = "UP" THEN RequestHangup(v, c) ELSE v
      <3>1. Settles(v, u)
        BY <1>4, HangupSettles, SameSettles
      <3> HIDE DEF u
      <3>2. term' = passToSingleCall(u, v.status, c, "RINGING", "ptt")
        BY <2>1, <2>4 DEF groupCallRinging, u
      <3>3. Settles(v, term')
        BY <3>1, <3>2, PassSettles DEF CallStates
      <3> QED  BY <1>5, <1>7, <1>8, <1>11, <3>3
    <2> QED  BY <2>2, <2>3, <2>4
  <1>12. w.groups \in BOOLEAN
    BY <1>2 DEF Terminal
  <1> QED  BY <1>10, <1>11, <1>12

\* The ACK came: the call was current_call, and dest_num names it, even when
\* it was hung up before.
LEMMA ConfirmedStep ==
    ASSUME CallInv, Inv', NEW c \in CallIds, CallConfirmed(c)
    PROVE  CallInv'
  <1> DEFINE leg == Acknowledged(term.legs[c])
             w == [term EXCEPT !.legs = [term.legs EXCEPT ![c] = leg],
                               !.cur = IF @ = NoCall THEN c ELSE @]
             v == noteGroupCall(w, c, "TALKING")
  <1>1. /\ Sound(term) /\ Kept(term) /\ top = "ptt" /\ armed \subseteq CallIds
        /\ term.legs[c] \in {"connecting", "closing"} /\ term.cur = c
        /\ \A d \in CallIds \ {c} : ~Open(term.legs[d])
    BY DEF CallInv, Inv, FrameOK, CallConfirmed, Kept, Open
  <1>a. Established(leg) /\ leg \in LegStates
    BY DEF Acknowledged, Established, LegStates
  <1>b. \E ok \in BOOLEAN :
          term' = showCallState(w, c, "TALKING", "ok", "ptt", ok)
    BY <1>1 DEF CallConfirmed, Callback, Sound, Terminal
  <1> HIDE DEF leg
  <1>2. w \in Terminal
    BY <1>1, <1>a DEF Sound, Terminal
  <1>3. /\ w.groups = term.groups /\ w.force = term.force /\ w.status = term.status
        /\ w.callId = term.callId /\ w.call = term.call /\ w.cur = c
        /\ \A d \in CallIds : w.legs[d] = IF d = c THEN leg ELSE term.legs[d]
    BY <1>1, CallIdAssumption DEF Sound, Terminal
  <1> HIDE DEF w
  <1>4. v \in Terminal
    BY <1>2 DEF noteGroupCall, Terminal, CallStates
  <1>5. /\ v.groups = w.groups /\ v.force = w.force /\ v.cur = w.cur /\ v.legs = w.legs
        /\ v.callId = c /\ v.call = "TALKING"
    BY <1>2 DEF noteGroupCall, Terminal
  <1> HIDE DEF v
  <1>6. ASSUME ~w.groups PROVE Kept(w)
    BY <1>1, <1>a, <1>3, <1>6 DEF Kept, Live, Open, Established
  <1>7. ASSUME w.groups PROVE Kept(v)
    <2>1. \A d \in CallIds \ {c} : ~Open(v.legs[d])
      BY <1>1, <1>3, <1>5
    <2>2. v.legs[c] \in {"confirmed", "ending"} /\ v.cur = c /\ c # NoCall
      BY <1>a, <1>3, <1>5, CallIdAssumption DEF Established
    <2>3. ~v.force /\ v.groups
      BY <1>1, <1>3, <1>5, <1>7 DEF Kept
    <2> QED  BY <1>5, <2>1, <2>2, <2>3 DEF Kept, Live, Open, Established
  <1>8. ASSUME NEW u, NEW x, Kept(u), Settles(u, x), u.legs = w.legs, term' = x
        PROVE  CallInv'
    <2>1. Kept(term')
      BY <1>8, KeptSettles
    <2>2. \A d \in armed \cup {c} : Established(x.legs[d])
      <3>1. \A d \in armed \cup {c} : d \in CallIds /\ Established(w.legs[d])
        BY <1>1, <1>a, <1>3 DEF CallInv, Supervised
      <3> QED  BY <1>8, <3>1, SupervisedSettles
    <2>3. dest /\ dest' = dest
      BY <1>1 DEF CallInv, Supervised, CallConfirmed
    <2>4. Supervised'
      BY <1>8, <2>2, <2>3 DEF Supervised, CallConfirmed
    <2> QED  BY <1>1, <2>1, <2>4 DEF CallInv, CallConfirmed, Callback
  <1>9. PICK ok \in BOOLEAN : term' = showCallState(w, c, "TALKING", "ok", "ptt", ok)
    BY <1>b
  <1>10. CASE ~w.groups
    <2>1. term' = passToSingleCall(w, w.status, c, "TALKING", "ptt")
      BY <1>9, <1>10 DEF showCallState
    <2>2. Settles(w, term')
      BY <1>2, <2>1, SameSettles, PassSettles DEF CallStates
    <2> QED  BY <1>6, <1>8, <1>10, <2>2
  <1>11. CASE w.groups
    <2>1. term' = groupCallTalking(v, c, "ptt", ok)
      BY <1>1, <1>3, <1>9, <1>11 DEF showCallState, v, Kept
    <2>2. Settles(v, term')
      BY <1>4, <2>1, TalkingSettles
    <2> QED  BY <1>5, <1>7, <1>8, <1>11, <2>2
  <1>12. w.groups \in BOOLEAN
    BY <1>2 DEF Terminal
  <1> QED  BY <1>10, <1>11, <1>12

\* A reported end leaves a callState other than TALKING, and the id of the
\* ended call only where a group list is there.
LEMMA EndReported ==
    ASSUME NEW w \in Terminal, ~w.force, ~w.groups => w.call # "TALKING",
           NEW c \in CallIds, NEW code, NEW ok \in BOOLEAN, NEW v,
           v = showCallState(w, c, "ENDED", code, "ptt", ok)
    PROVE  /\ v \in Terminal /\ v.call # "TALKING" /\ v.cur = w.cur
           /\ ~v.force /\ (w.groups => v.groups)
           /\ ~v.groups => v.callId \in {w.callId, NoCall}
           /\ \A d \in CallIds : LegSettles(w.legs[d], v.legs[d])
  <1> DEFINE u == noteGroupCall(w, c, "ENDED")
  <1>1. CASE code # "ok"
    <2>1. v = showCallError(w, c, code, "ptt")
      BY <1>1 DEF showCallState
    <2> QED  BY <2>1, ErrorSettles DEF Settles
  <1>2. CASE code = "ok" /\ ~w.groups
    <2>1. v = passToSingleCall(w, w.status, c, "ENDED", "ptt")
      BY <1>2 DEF showCallState
    <2>2. Settles(w, v)
      BY <2>1, SameSettles, PassSettles DEF CallStates
    <2> QED  BY <1>2, <2>2 DEF Settles
  <1>3. CASE code = "ok" /\ w.groups
    <2>1. u \in Terminal
      BY DEF noteGroupCall, Terminal, CallStates
    <2>2. /\ u.groups = w.groups /\ u.force = w.force /\ u.cur = w.cur
          /\ u.legs = w.legs /\ u.call = "ENDED"
      BY DEF noteGroupCall, Terminal
    <2>3. v = groupCallEnded(u, c, "ptt", ok)
      BY <1>3 DEF showCallState
    <2> HIDE DEF u
    <2>4. Settles(u, v)
      BY <2>1, <2>3, EndedSettles
    <2> QED  BY <1>3, <2>2, <2>4 DEF Settles
  <1>4. w.groups \in BOOLEAN
    BY DEF Terminal
  <1> QED  BY <1>1, <1>2, <1>3, <1>4

\* The end of a call: silent ends leave an established call behind, or had
\* none; a reported one leaves no call in progress.
LEMMA DisconnectStep ==
    ASSUME CallInv, Inv', NEW c \in CallIds, CallDisconnected(c)
    PROVE  CallInv'
  <1>1. /\ Sound(term) /\ Kept(term) /\ top = "ptt" /\ armed \subseteq CallIds
        /\ Supervised /\ armed' = armed \ {c}
    BY DEF CallInv, Inv, FrameOK, CallDisconnected
  <1>2. PICK code \in EndCodes(term.legs[c]),
             next \in IF term.cur = c THEN NextCalls(term, c) ELSE {term.cur} :
          ShowDisconnected([term EXCEPT !.legs = [term.legs EXCEPT ![c] = "null"],
                                        !.cur = next], c, code)
    BY DEF CallDisconnected
  <1> DEFINE w == [term EXCEPT !.legs = [term.legs EXCEPT ![c] = "null"], !.cur = next]
  <1>3. Sound(w)
    BY <1>1, DropLegSound
  <1>4. /\ w.groups = term.groups /\ w.force = term.force
        /\ w.callId = term.callId /\ w.call = term.call /\ w.cur = next
        /\ \A d \in CallIds : w.legs[d] = IF d = c THEN "null" ELSE term.legs[d]
    BY <1>1 DEF Sound, Terminal
  <1>5. ShowDisconnected(w, c, code)
    BY <1>2
  <1> HIDE DEF w
  <1>6. term.cur # c => next = term.cur
    BY <1>2
  <1>7. next # c
    BY <1>2, CallIdAssumption DEF NextCalls
  <1>8. CASE term' = w /\ top' = top /\ dest' = dest /\ (next # NoCall \/ ~dest)
    <2>1. w.call = "TALKING" => w.cur # NoCall /\ Established(w.legs[w.cur])
      <3> SUFFICES ASSUME w.call = "TALKING"
                   PROVE  w.cur # NoCall /\ Established(w.legs[w.cur])
        OBVIOUS
      <3>1. /\ next # NoCall /\ term.cur # NoCall /\ Established(term.legs[term.cur])
            /\ \A d \in CallIds : term.legs[d] \notin {"incoming", "connecting", "closing"}
        BY <1>1, <1>4, <1>8 DEF Supervised, Kept
      <3>2. CASE term.cur # c
        <4>1. term.cur \in CallIds
          BY <1>1, <3>1 DEF Sound, Terminal
        <4> QED  BY <1>4, <1>6, <3>1, <3>2, <4>1
      <3>3. CASE term.cur = c
        <4>1. next \in CallIds \ {c} /\ term.legs[next] \notin {"null", "rejecting"}
          BY <1>2, <3>1, <3>3 DEF NextCalls
        <4>2. Established(term.legs[next])
          BY <1>1, <3>1, <4>1 DEF Sound, Terminal, LegStates, Established
        <4> QED  BY <1>4, <3>1, <4>1, <4>2
      <3> QED  BY <3>2, <3>3
    <2>2. \A d \in CallIds :
            w.legs[d] \in {"connecting", "closing", "confirmed"} => w.cur = d
      BY <1>1, <1>4, <1>6 DEF Kept
    <2>3. Kept(w)
      BY <1>1, <1>4, <2>1, <2>2 DEF Kept, Live, Open
    <2>4. Supervised'
      BY <1>1, <1>4, <1>8 DEF Supervised
    <2> QED  BY <1>1, <1>8, <2>3, <2>4 DEF CallInv
  <1>9. ASSUME next = NoCall, NEW ok \in BOOLEAN, top' = top,
               term' = showCallState(w, c, "ENDED", code, "ptt", ok)
        PROVE  CallInv'
    <2>1. \A d \in CallIds : w.legs[d] \in {"null", "rejecting"}
      BY <1>3, <1>4, <1>9 DEF Sound, CallsTracked
    <2>2. /\ w \in Terminal /\ ~w.force
          /\ ~w.groups => w.call # "TALKING" /\ w.callId = NoCall
      BY <1>1, <1>3, <1>4 DEF Sound, Kept
    <2>3. /\ term'.call # "TALKING" /\ term'.cur = w.cur
          /\ ~term'.force /\ (w.groups => term'.groups)
          /\ ~term'.groups => term'.callId \in {w.callId, NoCall}
          /\ \A d \in CallIds : LegSettles(w.legs[d], term'.legs[d])
      BY <1>9, <2>2, EndReported
    <2>4. \A d \in CallIds : term'.legs[d] \in {"null", "rejecting"}
      BY <2>1, <2>3 DEF LegSettles
    <2>5. Kept(term')
      BY <2>2, <2>3, <2>4 DEF Kept, Live, Open
    <2>6. armed' = {}
      <3>1. \A d \in armed : d = c
        BY <1>1, <1>4, <2>1 DEF Supervised, Established
      <3> QED  BY <1>1, <3>1
    <2>7. Supervised'
      BY <2>3, <2>4, <2>6 DEF Supervised
    <2> QED  BY <1>1, <1>9, <2>5, <2>7 DEF CallInv
  <1>10. \/ term' = w /\ top' = top /\ dest' = dest /\ (next # NoCall \/ ~dest)
         \/ /\ next = NoCall /\ top' = top
            /\ \E ok \in BOOLEAN : term' = showCallState(w, c, "ENDED", code, "ptt", ok)
    BY <1>1, <1>4, <1>5, <1>7 DEF ShowDisconnected, Callback
  <1> QED  BY <1>8, <1>9, <1>10

\* The ninth supervision tick ends an established call, which is current:
\* no other call waits for its ACK when dest_num is wiped.
LEMMA TimeoutStep ==
    ASSUME CallInv, Inv', NEW c \in CallIds, call_timeout_callback(c)
    PROVE  CallInv'
  <1>1. /\ Sound(term) /\ Kept(term) /\ top = "ptt" /\ armed \subseteq CallIds
        /\ Supervised /\ armed' = armed \ {c} /\ Established(term.legs[c])
        /\ ShowDisconnected(term, c, "504") /\ term \in Terminal
    BY DEF CallInv, Inv, FrameOK, Supervised, call_timeout_callback, Sound
  <1>2. ASSUME Settles(term, term'), top' = top,
               dest' = dest \/ (/\ dest' = FALSE /\ term'.call # "TALKING"
                                /\ \A d \in CallIds : term'.legs[d] \notin {"connecting", "closing"})
        PROVE  CallInv'
    <2>1. Kept(term')
      BY <1>1, <1>2, KeptSettles
    <2>2. \A d \in armed \ {c} : Established(term'.legs[d])
      BY <1>1, <1>2, SupervisedSettles DEF Supervised
    <2>3. ~dest' => /\ term'.call # "TALKING"
                    /\ \A d \in CallIds : term'.legs[d] \notin {"connecting", "closing"}
      BY <1>1, <1>2, SupervisedSettles DEF Supervised, Settles
    <2>4. Supervised'
      BY <1>1, <2>2, <2>3 DEF Supervised
    <2> QED  BY <1>1, <1>2, <2>1, <2>4 DEF CallInv
  <1>3. CASE term' = term /\ top' = top /\ dest' = dest
    BY <1>1, <1>2, <1>3, SameSettles
  <1>4. ASSUME NEW ok \in BOOLEAN, term.cur \in {NoCall, c}, top' = top, dest' = FALSE,
               term' = showCallState(term, c, "ENDED", "504", "ptt", ok)
        PROVE  CallInv'
    <2>1. term' = showCallError(term, c, "504", "ptt")
      BY <1>4 DEF showCallState
    <2>2. /\ Settles(term, term')
          /\ term.groups => term'.call # "TALKING"
      BY <1>1, <2>1, ErrorSettles DEF Kept
    <2>3. term'.call # "TALKING"
      BY <1>1, <2>2 DEF Kept, Settles
    <2>4. term.cur = c
      BY <1>1, <1>4 DEF Sound, CallsTracked, Established
    <2>5. \A d \in CallIds : term.legs[d] \notin {"connecting", "closing"}
      BY <1>1, <2>4 DEF Kept, Established
    <2>6. \A d \in CallIds : term'.legs[d] \notin {"connecting", "closing"}
      BY <2>2, <2>5, SupervisedSettles
    <2> QED  BY <1>2, <1>4, <2>2, <2>3, <2>6
  <1> QED  BY <1>1, <1>3, <1>4 DEF ShowDisconnected, Callback

\* Key broadcasts and commands settle the terminal.
LEMMA MainSettles ==
    ASSUME term \in Terminal, MainNext
    PROVE  Settles(term, term') /\ top' = top /\ dest' = dest /\ armed' = armed
  <1>0. Settles(term, term)
    BY SameSettles
  <1>1. \A k \in {"UP", "DOWN"} : Settles(term, [term EXCEPT !.key = k])
    <2>1. \A k \in {"UP", "DOWN"} : [term EXCEPT !.key = k] \in Terminal
      BY DEF Terminal
    <2> QED  BY <2>1 DEF Settles, LegSettles, Terminal
  <1>2. CASE handlePttDown
    BY <1>0, <1>1, <1>2 DEF handlePttDown
  <1>3. CASE handlePttUp
    BY <1>1, <1>3 DEF handlePttUp
  <1>4. CASE handlePttUpAwake
    BY <1>0, <1>4, FreeOrListeningSettles DEF handlePttUpAwake
  <1>5. CASE CommApply
    <2>1. /\ Settles(term, [term EXCEPT !.status = "APPLYING"])
          /\ Settles(term, [term EXCEPT !.status = "INIT"])
      BY FloorSettles DEF Statuses, Speakers
    <2> QED  BY <1>0, <1>5, <2>1 DEF CommApply
  <1>6. CASE CommApplyRequest
    BY <1>6, RequestSettles DEF CommApplyRequest
  <1>7. CASE CommCancel
    BY <1>7, FreeOrListeningSettles DEF CommCancel
  <1>8. CASE CommCancelRequest
    BY <1>8, RequestSettles DEF CommCancelRequest
  <1>9. CASE CommHangup
    <2>1. term' \in Terminal
      BY <1>9 DEF CommHangup, Terminal, Statuses, Speakers, CallStates
    <2> QED  BY <1>9, <2>1 DEF CommHangup, Settles, LegSettles, Terminal
  <1>10. CASE CommHangupRequest
    BY <1>0, <1>10, HangupPttSettles DEF CommHangupRequest
  <1>11. CASE CommUpdateUI
    BY <1>0, <1>11 DEF CommUpdateUI
  <1> QED
    BY <1>2, <1>3, <1>4, <1>5, <1>6, <1>7, <1>8, <1>9, <1>10, <1>11 DEF MainNext

\* Messages of the server settle the terminal.
LEMMA ServerSettles ==
    ASSUME SteadyGroup, term \in Terminal,
           \/ \E r \in RightResponses : RightResponse(r)
           \/ Forbidden
           \/ \E s \in {"FREE", "WAITING", "REJECTED"} : updatePttState(s)
           \/ \E spk \in Speakers : CallInfo(spk)
           \/ mByeIndicate \/ GroupInfo
           \/ \E state \in RegReports : RegisterState(state)
    PROVE  Settles(term, term') /\ top' = top /\ dest' = dest /\ armed' = armed
  <1> DEFINE Goal == Settles(term, term') /\ top' = top /\ dest' = dest /\ armed' = armed
  <1>1. ASSUME NEW r \in RightResponses, RightResponse(r) PROVE Goal
    BY <1>1, ResponseSettles DEF RightResponse, Callback
  <1>2. CASE Forbidden
    BY <1>2, ResponseSettles DEF Forbidden
  <1>3. ASSUME NEW s \in {"FREE", "WAITING", "REJECTED"}, updatePttState(s) PROVE Goal
    <2>1. [status |-> s, speaker |-> "none"] \in Reports
      BY DEF Reports, Statuses, Speakers
    <2> QED  BY <1>3, <2>1, UpdatePTTSettles DEF updatePttState, Callback
  <1>4. ASSUME NEW spk \in Speakers, CallInfo(spk) PROVE Goal
    BY <1>4, CallInfoSettles DEF CallInfo, Callback
  <1>5. CASE mByeIndicate
    BY <1>5, ClearSettles DEF mByeIndicate, Callback
  <1>6. CASE GroupInfo
    BY <1>6, GroupInfoSettles, GroupListAssumption DEF GroupInfo, Callback, SteadyGroup
  <1>7. ASSUME NEW state \in RegReports, RegisterState(state) PROVE Goal
    <2>1. term' = [term EXCEPT !.registered = TRUE]
      BY <1>7 DEF RegisterState, Callback, JNIUpdateRegisterState, SteadyGroup
    <2>2. term' \in Terminal
      BY <2>1 DEF Terminal
    <2>3. Settles(term, term')
      BY <2>1, <2>2 DEF Settles, LegSettles, Terminal
    <2> QED  BY <1>7, <2>3 DEF RegisterState, Callback
  <1> QED  BY <1>1, <1>2, <1>3, <1>4, <1>5, <1>6, <1>7

\* The user and the threads: the screen stays, no registration is forced.
LEMMA UserSettles ==
    ASSUME SteadyGroup, Inv, top = "ptt", UserNext \/ RegisterNext
    PROVE  Settles(term, term') /\ top' = top /\ dest' = dest /\ armed' = armed
  <1>0. term \in Terminal /\ Settles(term, term)
    BY SameSettles DEF Inv, Sound
  <1>1. CASE Press \/ Release
    BY <1>0, <1>1 DEF Press, Release
  <1>2. CASE BackKey
    BY <1>2 DEF BackKey, SteadyGroup
  <1>3. ASSUME NEW s \in Screens, SwitchScreen(s) PROVE FALSE
    BY <1>3 DEF SwitchScreen, SteadyGroup
  <1>4. CASE CallScreenDestroyed
    <2>1. [term EXCEPT !.inCall = FALSE] \in Terminal
      BY <1>0 DEF Terminal
    <2>2. Settles(term, [term EXCEPT !.inCall = FALSE])
      BY <1>0, <2>1 DEF Settles, LegSettles, Terminal
    <2>3. Settles(term, term')
      BY <1>4, <2>1, <2>2, ClearSettles, SettlesTransitive DEF CallScreenDestroyed
    <2> QED  BY <1>4, <2>3 DEF CallScreenDestroyed, SteadyGroup
  <1>5. CASE Reregister
    <2>1. term.threads \in Nat /\ term.threads < 0
      BY <1>0, <1>5 DEF Reregister, SteadyGroup, Terminal
    <2> QED  BY <2>1
  <1>6. CASE RegisterThread
    <2>1. term' \in Terminal
      BY <1>6, RegisterStep DEF RegisterNext, Inv, Sound
    <2>2. term' = [term EXCEPT !.registered = FALSE, !.threads = @ - 1]
      BY <1>6 DEF RegisterThread, Callback
    <2>3. Settles(term, term')
      BY <1>0, <2>1, <2>2 DEF Settles, LegSettles, Terminal
    <2> QED  BY <1>6, <2>3 DEF RegisterThread, Callback
  <1> QED  BY <1>1, <1>2, <1>3, <1>4, <1>5, <1>6 DEF UserNext, RegisterNext

\* ptt_signal_timer_cb asks for the end of one call.
LEMMA SignalTimerSettles ==
    ASSUME term \in Terminal, NEW c \in CallIds, ptt_signal_timer_cb(c)
    PROVE  Settles(term, term') /\ top' = top /\ dest' = dest /\ armed' = armed
  BY HangupSettles DEF ptt_signal_timer_cb, Callback

\* The invariant of the one call: it needs current_call and dest_num, which
\* decide whether the end of a call is reported at all.
THEOREM OneCallKept ==
    ASSUME SteadyGroup
    PROVE  Spec => []CallInv
  <1>1. Init => CallInv
    <2> SUFFICES ASSUME Init PROVE CallInv
      OBVIOUS
    <2>1. Kept(term) /\ top = "ptt" /\ Supervised
      BY DEF Init, Kept, Supervised, Live, Open, SteadyGroup
    <2> QED  BY <2>1, InvInit DEF CallInv
  <1>2. CallInv /\ [Next]_vars => CallInv'
    <2> SUFFICES ASSUME CallInv, [Next]_vars PROVE CallInv'
      OBVIOUS
    <2>1. Inv' /\ Inv /\ term \in Terminal /\ top = "ptt"
      BY InvStep DEF CallInv, Inv, Sound
    <2>2. CASE MainNext
      BY <2>1, <2>2, MainSettles, SettledStep
    <2>3. CASE WorkerNext
      <3>1. ASSUME NEW c \in CallIds,
                   \/ on_incoming_call(c) \/ CallConfirmed(c) \/ CallDisconnected(c)
                   \/ call_timeout_callback(c) \/ ptt_signal_timer_cb(c)
            PROVE  CallInv'
        BY <2>1, <3>1, IncomingStep, ConfirmedStep, DisconnectStep, TimeoutStep,
           SignalTimerSettles, SettledStep
      <3> QED  BY <2>1, <2>3, <3>1, ServerSettles, SettledStep DEF WorkerNext
    <2>4. CASE UserNext \/ RegisterNext
      BY <2>1, <2>4, UserSettles, SettledStep
    <2>5. CASE UNCHANGED vars
      <3>1. Settles(term, term')
        BY <2>1, <2>5, SameSettles DEF vars
      <3> QED  BY <2>1, <2>5, <3>1, SettledStep DEF vars
    <2> QED  BY <2>2, <2>3, <2>4, <2>5 DEF Next
  <1> QED  BY <1>1, <1>2, PTL DEF Spec

\* callState TALKING stands for a call the stack still has, however its end
\* is reported: JNIUpdatePTTState never takes the floor on a dead call.
THEOREM TalkingHasCall ==
    ASSUME SteadyGroup
    PROVE  Spec => []TalkingIsReal
  <1>1. CallInv => TalkingIsReal
    BY DEF CallInv, Inv, Sound, Terminal, Kept, TalkingIsReal
  <1> QED  BY <1>1, OneCallKept, PTL

\* The id hangupPttCall uses is that of the live call, or dropped by a clear.
THEOREM HangupFindsCall ==
    ASSUME SteadyGroup
    PROVE  Spec => []HangupReachesCall
  <1>1. CallInv => HangupReachesCall
    BY DEF CallInv, Kept, HangupReachesCall
  <1> QED  BY <1>1, OneCallKept, PTL

=============================================================================
