------------------------- MODULE SingleCall_proofs -------------------------
(***************************************************************************)
(* Proofs about SingleCall, for a call table of any size and any number    *)
(* of events: type correctness, that a ringtone that plays is known to     *)
(* bRingPlaying, and, for calls that come one after the other, that it     *)
(* plays only for a call that waits to be answered.                        *)
(***************************************************************************)
EXTENDS SingleCall, WellFoundedInduction, TLAPS

\* What every operation on the terminal preserves.
Good(w) == w \in Terminal /\ (w.tone => w.ring)

\* The commands of COMM_MAKE_CALL that wait.
MakeAt(w) == {i \in 1 .. Len(w.inbox) : w.inbox[i] = "MAKE"}

\* An operation that leaves the native calls and the waiting COMM_MAKE_CALL
\* alone, and starts no ringtone.
Quiet(v, w) ==
    /\ v.calls = w.calls
    /\ v.cur = w.cur
    /\ MakeAt(v) = MakeAt(w)
    /\ v.tone => w.tone

\* The call table has a first entry.
LEMMA FirstCallId == FirstCall \in CallIds
  BY SlotsAssumption DEF FirstCall, CallIds

-----------------------------------------------------------------------------
(* CallStateManager *)

LEMMA PostGood ==
  ASSUME NEW w, Good(w), NEW m \in Messages
  PROVE  Good(post(w, m))
<1>1. Append(w.inbox, m) \in Seq(Messages)
  BY DEF Good, Terminal
<1> QED  BY <1>1 DEF Good, Terminal, post

LEMMA PostQuiet ==
  ASSUME NEW w, Good(w), NEW m \in Messages, m # "MAKE"
  PROVE  Quiet(post(w, m), w)
<1> DEFINE v == post(w, m)
<1>1. v.inbox = Append(w.inbox, m) /\ w.inbox \in Seq(Messages)
  BY DEF Good, Terminal, post
<1>2. MakeAt(v) = MakeAt(w)
  BY <1>1 DEF MakeAt
<1>3. v.calls = w.calls /\ v.cur = w.cur /\ v.tone = w.tone
  BY DEF Good, Terminal, post
<1> QED  BY <1>2, <1>3 DEF Quiet

LEMMA QuietTransitive ==
  ASSUME NEW u, NEW v, NEW w, Quiet(u, v), Quiet(v, w)
  PROVE  Quiet(u, w)
  BY DEF Quiet

LEMMA SetCallState ==
  ASSUME NEW w, Good(w), NEW s \in CallStates
  PROVE  Good(setCallState(w, s)) /\ Quiet(setCallState(w, s), w)
  BY DEF Good, Terminal, setCallState, Quiet, MakeAt

LEMMA SetCurrentCallState ==
  ASSUME NEW w, Good(w), NEW c \in CallIds, NEW s \in CallStates
  PROVE  /\ Good(setCurrentCallState(w, c, s))
         /\ Quiet(setCurrentCallState(w, c, s), w)
         /\ setCurrentCallState(w, c, s).ring = w.ring
  BY DEF Good, Terminal, setCurrentCallState, Quiet, MakeAt

LEMMA Clear ==
  ASSUME NEW w, Good(w)
  PROVE  Good(clear(w)) /\ Quiet(clear(w), w)
  BY FirstCallId DEF Good, Terminal, clear, Quiet, MakeAt, CallStates

LEMMA Finish ==
  ASSUME NEW w, Good(w)
  PROVE  Good(finish(w)) /\ Quiet(finish(w), w)
<1>1. CASE w.shown = "none"
  BY <1>1 DEF finish, Quiet
<1>2. CASE w.shown # "none"
  <2> DEFINE i == IF w.inst = "shown" THEN "gone" ELSE w.inst
  <2>1. i \in {"none", "shown", "gone"} /\ w.fin + 1 \in Nat
    BY DEF Good, Terminal
  <2> HIDE DEF i
  <2>2. finish(w) = [w EXCEPT !.shown = "none", !.answerBtn = FALSE,
                              !.dialog = FALSE, !.fin = w.fin + 1, !.inst = i]
    BY <1>2 DEF finish, i
  <2>3. Good(finish(w))
    BY <2>1, <2>2 DEF Good, Terminal
  <2>4. Quiet(finish(w), w)
    BY <2>2 DEF Good, Terminal, Quiet, MakeAt
  <2> QED  BY <2>3, <2>4
<1> QED  BY <1>1, <1>2

LEMMA CloseCallUI ==
  ASSUME NEW w, Good(w)
  PROVE  Good(closeCallUI(w)) /\ Quiet(closeCallUI(w), w)
  BY Finish DEF closeCallUI, Quiet

LEMMA StopRingtone ==
  ASSUME NEW w, Good(w)
  PROVE  Good(stopRingtone(w)) /\ Quiet(stopRingtone(w), w) /\ ~stopRingtone(w).tone
  BY DEF Good, Terminal, stopRingtone, Quiet, MakeAt

LEMMA EndRing ==
  ASSUME NEW w, Good(w), NEW s
  PROVE  Good(endRing(w, s)) /\ Quiet(endRing(w, s), w) /\ ~endRing(w, s).tone
<1>1. CASE w.ring
  <2>1. endRing(w, s) = [w EXCEPT !.tone = FALSE, !.ring = FALSE]
    BY <1>1 DEF endRing, stopRingtone, Good, Terminal
  <2>2. endRing(w, s) \in Terminal /\ endRing(w, s).tone = FALSE
    BY <2>1 DEF Good, Terminal
  <2>3. Quiet(endRing(w, s), w)
    BY <2>1, <2>2 DEF Good, Terminal, Quiet, MakeAt
  <2> QED  BY <2>2, <2>3 DEF Good
<1>2. CASE ~w.ring
  BY <1>2 DEF endRing, Good, Quiet
<1> QED  BY <1>1, <1>2

\* What JNIUpdateCallState leaves of a terminal.
LEMMA UpdateCallState ==
  ASSUME NEW w, Good(w), NEW c \in CallIds,
         NEW s \in {"RINGING", "DIALING", "TALKING", "ENDED"}
  PROVE  LET u == JNIUpdateCallState(w, c, s)
         IN  /\ Good(u)
             /\ s # "RINGING" => Quiet(u, w)
             /\ s = "RINGING" => /\ u.calls = w.calls /\ u.cur = w.cur
                                 /\ MakeAt(u) = MakeAt(w)
             /\ s \in {"TALKING", "ENDED"} => ~u.tone
<1> DEFINE v == setCurrentCallState(w, c, s)
           e == endRing(v, s)
           u == JNIUpdateCallState(w, c, s)
<1> USE DEF Messages
<1>0. s \in CallStates /\ "IDLE" \in CallStates
  BY DEF CallStates
<1>1. Good(v) /\ Quiet(v, w)
  BY <1>0, SetCurrentCallState
<1>2. Good(e) /\ Quiet(e, w) /\ ~e.tone
  <2>1. Good(e) /\ Quiet(e, v) /\ ~e.tone
    BY <1>1, EndRing
  <2> QED  BY <2>1, <1>1, QuietTransitive
<1> HIDE DEF v, e
<1>3. CASE s = "RINGING"
  <2> DEFINE r == [v EXCEPT !.ring = TRUE, !.tone = TRUE]
  <2>1. u = post(r, "OPEN")
    BY <1>3 DEF JNIUpdateCallState, v
  <2>2. r \in Terminal /\ r.ring = TRUE /\ r.calls = v.calls /\ r.cur = v.cur
        /\ r.inbox = v.inbox
    BY <1>1 DEF Good, Terminal
  <2> HIDE DEF r
  <2>3. Good(r) /\ MakeAt(r) = MakeAt(v)
    BY <2>2 DEF Good, MakeAt
  <2>4. Good(u) /\ Quiet(u, r)
    BY <2>1, <2>3, PostGood, PostQuiet
  <2> QED  BY <1>3, <2>2, <2>3, <2>4, <1>1 DEF Quiet
<1>4. CASE s = "DIALING"
  <2>1. u = v \/ u = post(v, "OPEN")
    BY <1>4 DEF JNIUpdateCallState, v
  <2>2. Good(post(v, "OPEN")) /\ Quiet(post(v, "OPEN"), v)
    BY <1>1, PostGood, PostQuiet
  <2>3. Quiet(v, v)
    BY DEF Quiet
  <2>4. Good(u) /\ Quiet(u, v)
    BY <2>1, <2>2, <2>3, <1>1
  <2> QED  BY <1>4, <2>4, <1>1, QuietTransitive
<1>5. CASE s = "TALKING"
  <2>1. u = post(e, "STATE") \/ u = post(e, "OPEN")
    BY <1>5 DEF JNIUpdateCallState, v, e
  <2>2. Good(u) /\ Quiet(u, e)
    BY <2>1, <1>2, PostGood, PostQuiet
  <2>3. Quiet(u, w) /\ ~u.tone
    BY <2>2, <1>2, QuietTransitive DEF Quiet
  <2> QED  BY <1>5, <2>2, <2>3
<1>6. CASE s = "ENDED"
  <2> DEFINE x == IF w.inst = "none" THEN setCurrentCallState(e, c, "IDLE") ELSE e
  <2>1. u = post(x, "STATE")
    BY <1>6 DEF JNIUpdateCallState, v, e
  <2>2. Good(x) /\ Quiet(x, e)
    BY <1>0, <1>2, SetCurrentCallState DEF Quiet
  <2> HIDE DEF x
  <2>3. Good(u) /\ Quiet(u, x)
    BY <2>1, <2>2, PostGood, PostQuiet
  <2>4. Quiet(u, e)
    BY <2>2, <2>3, QuietTransitive
  <2>5. Quiet(u, w) /\ ~u.tone
    BY <2>4, <1>2, QuietTransitive DEF Quiet
  <2> QED  BY <1>6, <2>3, <2>5
<1> QED  BY <1>3, <1>4, <1>5, <1>6

\* What a report leaves of a terminal.  Without a busy PTT side an end that is
\* not an error is taken, and a 486 always is.
LEMMA ShowCallState ==
  ASSUME NEW w, Good(w), NEW c \in CallIds, NEW code,
         NEW s \in {"RINGING", "DIALING", "TALKING", "ENDED"}
  PROVE  LET u == showCallState(w, c, s, code)
         IN  /\ Good(u)
             /\ s # "RINGING" => Quiet(u, w)
             /\ u.calls = w.calls /\ u.cur = w.cur /\ MakeAt(u) = MakeAt(w)
             /\ s = "ENDED" /\ ~ptt /\ code \in {"486", "487", "none"} => ~u.tone
<1> DEFINE u == showCallState(w, c, s, code)
           x == JNIUpdateCallState(w, c, s)
<1>1. /\ Good(x)
      /\ s # "RINGING" => Quiet(x, w)
      /\ s = "RINGING" => x.calls = w.calls /\ x.cur = w.cur /\ MakeAt(x) = MakeAt(w)
      /\ s = "ENDED" => ~x.tone
  BY UpdateCallState
<1>2. u = w \/ u = x
  BY DEF showCallState
<1>3. s = "ENDED" /\ ~ptt /\ code \in {"486", "487", "none"} => u = x
  BY DEF showCallState
<1> HIDE DEF u, x
<1>4. x.calls = w.calls /\ x.cur = w.cur /\ MakeAt(x) = MakeAt(w)
  BY <1>1 DEF Quiet
<1>5. Quiet(w, w)
  BY DEF Quiet
<1>6. /\ Good(u)
      /\ s # "RINGING" => Quiet(u, w)
      /\ u.calls = w.calls /\ u.cur = w.cur /\ MakeAt(u) = MakeAt(w)
      /\ s = "ENDED" /\ ~ptt /\ code \in {"486", "487", "none"} => ~u.tone
  BY <1>1, <1>2, <1>3, <1>4, <1>5
<1> QED  BY <1>6 DEF u

-----------------------------------------------------------------------------
(* Native calls *)

LEMMA LeastIsMember ==
  ASSUME NEW T \in SUBSET CallIds, T # {}
  PROVE  Least(T) \in T
<1>1. T \in SUBSET Nat
  BY SlotsAssumption DEF CallIds
<1>2. PICK c \in T : \A d \in T : ~(<<d, c>> \in OpToRel(<, Nat))
  BY <1>1, NatLessThanWellFounded, WFMin
<1>3. ASSUME NEW d \in T, ~(c <= d) PROVE FALSE
  <2>1. <<d, c>> \in Nat \X Nat /\ <<d, c>>[1] < <<d, c>>[2]
    BY <1>1, <1>3
  <2>2. <<d, c>> \in {ss \in Nat \X Nat : ss[1] < ss[2]}
    BY <2>1
  <2>3. <<d, c>> \in OpToRel(<, Nat)
    BY <2>2 DEF OpToRel
  <2> QED  BY <1>2, <2>3
<1> QED  BY <1>3 DEF Least

LEMMA FromIsMember ==
  ASSUME NEW T \in SUBSET CallIds, T # {}, NEW n \in Int
  PROVE  From(T, n) \in T
<1>1. CASE \E c \in T : c >= n
  <2>1. {c \in T : c >= n} \in SUBSET CallIds /\ {c \in T : c >= n} # {}
    BY <1>1
  <2>2. Least({c \in T : c >= n}) \in {c \in T : c >= n}
    BY <2>1, LeastIsMember
  <2> QED  BY <1>1, <2>2 DEF From
<1>2. CASE ~\E c \in T : c >= n
  BY <1>2, LeastIsMember DEF From
<1> QED  BY <1>1, <1>2

LEMMA AllocCallId ==
  ASSUME NEW w, Good(w), Free(w) # {}
  PROVE  alloc_call_id(w)[1] \in Free(w) /\ alloc_call_id(w)[2] \in 0 .. Slots
<1> DEFINE n == IF w.next >= Slots THEN 0 ELSE w.next
<1>1. n \in 0 .. Slots - 1
  BY SlotsAssumption DEF Good, Terminal
<1>2. Free(w) \in SUBSET CallIds
  BY DEF Free
<1>3. From(Free(w), n) \in Free(w)
  BY <1>1, <1>2, FromIsMember
<1>4. alloc_call_id(w) = <<From(Free(w), n), n + 1>>
  BY DEF alloc_call_id
<1> HIDE DEF n
<1> QED  BY <1>1, <1>3, <1>4, SlotsAssumption

\* The new call, and what newCall leaves alone.
LEMMA NewCall ==
  ASSUME NEW w, Good(w), Free(w) # {}, NEW s \in NativeStates
  PROVE  LET a == alloc_call_id(w)[1]
             u == newCall(w, s)
         IN  /\ Good(u)
             /\ a \in CallIds /\ w.calls[a] = "null"
             /\ u.calls = [w.calls EXCEPT ![a] = s]
             /\ u.cur = IF w.cur = NoCall THEN a ELSE w.cur
             /\ MakeAt(u) = MakeAt(w)
             /\ u.tone = w.tone /\ u.ring = w.ring
<1> DEFINE a == alloc_call_id(w)[1]
           k == alloc_call_id(w)[2]
           f == [w.calls EXCEPT ![a] = s]
           d == IF w.cur = NoCall THEN a ELSE w.cur
           u == newCall(w, s)
<1>1. a \in CallIds /\ w.calls[a] = "null" /\ k \in 0 .. Slots
  BY AllocCallId DEF Free
<1>2. f \in [CallIds -> NativeStates] /\ d \in CallIds \cup {NoCall}
  BY <1>1 DEF Good, Terminal
<1>3. u = [w EXCEPT !.calls = f, !.next = k, !.cur = d]
  BY DEF newCall
<1> HIDE DEF a, k, f, d, u
<1>4. u \in Terminal /\ u.calls = f /\ u.cur = d /\ u.inbox = w.inbox
      /\ u.tone = w.tone /\ u.ring = w.ring
  BY <1>1, <1>2, <1>3 DEF Good, Terminal
<1>5. Good(u) /\ MakeAt(u) = MakeAt(w)
  BY <1>4 DEF Good, MakeAt
<1> QED  BY <1>1, <1>4, <1>5 DEF a, f, d, u

LEMMA FindNextCall ==
  ASSUME NEW w, Good(w)
  PROVE  /\ find_next_call(w) \in CallIds \cup {NoCall}
         /\ (\A d \in CallIds \ {w.cur} : w.calls[d] = "null") => find_next_call(w) = NoCall
<1> DEFINE active == {d \in CallIds \ {w.cur} : w.calls[d] # "null"}
<1>1. active \in SUBSET CallIds /\ w.cur \in Int
  BY SlotsAssumption DEF Good, Terminal, CallIds, NoCall
<1>2. active # {} => From(active, w.cur) \in CallIds
  BY <1>1, FromIsMember
<1> QED  BY <1>2 DEF find_next_call

\* The end of a call; with no other call up, its report is taken.
LEMMA Disconnect ==
  ASSUME NEW w, Good(w), NEW c \in CallIds, NEW code
  PROVE  LET u == disconnect(w, c, code)
         IN  /\ Good(u)
             /\ u.calls = [w.calls EXCEPT ![c] = "null"]
             /\ u.cur = IF w.cur = c THEN find_next_call(w) ELSE w.cur
             /\ MakeAt(u) = MakeAt(w)
             /\ u.tone => w.tone
             /\ u.cur = NoCall /\ ~ptt /\ code \in {"486", "487", "none"} => ~u.tone
<1> DEFINE f == [w.calls EXCEPT ![c] = "null"]
           d == IF w.cur = c THEN find_next_call(w) ELSE w.cur
           v == [w EXCEPT !.calls = f, !.cur = d]
           u == disconnect(w, c, code)
<1>1. f \in [CallIds -> NativeStates] /\ d \in CallIds \cup {NoCall}
  BY FindNextCall DEF Good, Terminal, NativeStates
<1>2. u = IF v.cur \in {NoCall, c} THEN showCallState(v, c, "ENDED", code) ELSE v
  BY DEF disconnect
<1> HIDE DEF f, d
<1>3. v \in Terminal /\ v.calls = f /\ v.cur = d /\ v.inbox = w.inbox
      /\ v.tone = w.tone /\ v.ring = w.ring
  BY <1>1 DEF Good, Terminal
<1> HIDE DEF v, u
<1>4. Good(v) /\ MakeAt(v) = MakeAt(w)
  BY <1>3 DEF Good, MakeAt
<1>5. CASE v.cur \in {NoCall, c}
  <2>1. u = showCallState(v, c, "ENDED", code)
    BY <1>2, <1>5
  <2>2. /\ Good(u) /\ Quiet(u, v)
        /\ ~ptt /\ code \in {"486", "487", "none"} => ~u.tone
    BY <2>1, <1>4, ShowCallState
  <2> QED  BY <2>2, <1>3, <1>4 DEF Quiet, f, d, u
<1>6. CASE v.cur \notin {NoCall, c}
  BY <1>2, <1>3, <1>4, <1>6 DEF f, d, u
<1> QED  BY <1>5, <1>6

\* pjsua_call_hangup on a call that is not an unanswered one.
LEMMA HangupEstablished ==
  ASSUME NEW w, Good(w), NEW c \in CallIds, w.calls[c] # "incoming"
  PROVE  LET u == hangup(w, c)
         IN  /\ Good(u)
             /\ u.cur = w.cur /\ u.tone = w.tone /\ MakeAt(u) = MakeAt(w)
             /\ \A d \in CallIds : d # c => u.calls[d] = w.calls[d]
             /\ u.calls[c] = "null" <=> w.calls[c] = "null"
             /\ u.calls[c] # "incoming"
<1> DEFINE u == hangup(w, c)
           f(s) == [w.calls EXCEPT ![c] = s]
           v(s) == [w EXCEPT !.calls = f(s)]
<1>1. u = w \/ (w.calls[c] # "null" /\ \E s \in {"canceling", "closing", "ending"} : u = v(s))
  BY DEF hangup
<1>2. ASSUME NEW s \in {"canceling", "closing", "ending"}
      PROVE  /\ Good(v(s)) /\ v(s).calls = f(s) /\ v(s).cur = w.cur
             /\ v(s).tone = w.tone /\ MakeAt(v(s)) = MakeAt(w)
  <2>1. f(s) \in [CallIds -> NativeStates]
    BY DEF Good, Terminal, NativeStates
  <2> HIDE DEF f
  <2>2. v(s) \in Terminal /\ v(s).calls = f(s) /\ v(s).cur = w.cur
        /\ v(s).tone = w.tone /\ v(s).ring = w.ring /\ v(s).inbox = w.inbox
    BY <2>1 DEF Good, Terminal
  <2> HIDE DEF v
  <2> QED  BY <2>2 DEF Good, MakeAt
<1>3. ASSUME NEW s \in {"canceling", "closing", "ending"}
      PROVE  f(s)[c] = s /\ \A d \in CallIds : d # c => f(s)[d] = w.calls[d]
  BY DEF Good, Terminal
<1> HIDE DEF f, v, u
<1>4. CASE u = w
  BY <1>4 DEF u
<1>5. ASSUME NEW s \in {"canceling", "closing", "ending"}, u = v(s), w.calls[c] # "null"
      PROVE  /\ Good(u)
             /\ u.cur = w.cur /\ u.tone = w.tone /\ MakeAt(u) = MakeAt(w)
             /\ \A d \in CallIds : d # c => u.calls[d] = w.calls[d]
             /\ u.calls[c] = "null" <=> w.calls[c] = "null"
             /\ u.calls[c] # "incoming"
  <2>1. u.calls = f(s)
    BY <1>5, <1>2
  <2> QED  BY <2>1, <1>5, <1>2, <1>3
<1> QED  BY <1>1, <1>4, <1>5 DEF u

LEMMA Hangup ==
  ASSUME NEW w, Good(w), NEW c \in CallIds
  PROVE  Good(hangup(w, c)) /\ MakeAt(hangup(w, c)) = MakeAt(w)
         /\ (hangup(w, c).tone => w.tone)
<1>1. CASE w.calls[c] = "incoming"
  <2>1. hangup(w, c) = disconnect(w, c, "486")
    BY <1>1 DEF hangup
  <2>2. LET u == disconnect(w, c, "486")
        IN  Good(u) /\ MakeAt(u) = MakeAt(w) /\ (u.tone => w.tone)
    BY Disconnect
  <2> QED  BY <2>1, <2>2
<1>2. CASE w.calls[c] # "incoming"
  BY <1>2, HangupEstablished
<1> QED  BY <1>1, <1>2

LEMMA DropCurrent ==
  ASSUME NEW w, Good(w)
  PROVE  Good(dropCurrent(w)) /\ MakeAt(dropCurrent(w)) = MakeAt(w)
<1>1. w.cur \in CallIds \cup {NoCall}
  BY DEF Good, Terminal
<1>2. CASE dropCurrent(w) = w
  BY <1>2
<1>3. CASE dropCurrent(w) = [w EXCEPT !.cur = NoCall]
  BY <1>3 DEF Good, Terminal, MakeAt
<1>4. CASE w.cur # NoCall /\ dropCurrent(w) = hangup(w, w.cur)
  BY <1>1, <1>4, Hangup
<1> QED  BY <1>2, <1>3, <1>4 DEF dropCurrent

\* make_call: the call is there, and no ringtone is started.
LEMMA PlaceCall ==
  ASSUME NEW w, Good(w), Free(w) # {}
  PROVE  LET a == alloc_call_id(w)[1]
             u == placeCall(w)
         IN  /\ Good(u)
             /\ a \in CallIds /\ u.calls = [w.calls EXCEPT ![a] = "calling"]
             /\ u.cur = IF w.cur = NoCall THEN a ELSE w.cur
             /\ MakeAt(u) = MakeAt(w)
             /\ u.tone => w.tone
<1> DEFINE a == alloc_call_id(w)[1]
           n == newCall(w, "calling")
           u == placeCall(w)
<1>1. /\ Good(n) /\ a \in CallIds /\ n.calls = [w.calls EXCEPT ![a] = "calling"]
      /\ n.cur = IF w.cur = NoCall THEN a ELSE w.cur
      /\ MakeAt(n) = MakeAt(w) /\ n.tone = w.tone
  BY NewCall DEF NativeStates
<1>2. u = showCallState(n, a, "DIALING", "none")
  BY DEF placeCall
<1> HIDE DEF a, n, u
<1>3. Good(u) /\ Quiet(u, n)
  BY <1>1, <1>2, ShowCallState
<1> QED  BY <1>1, <1>3 DEF Quiet, a, u

-----------------------------------------------------------------------------
(* The call screen *)

LEMMA OnCreate ==
  ASSUME NEW w, Good(w)
  PROVE  Good(onCreate(w)) /\ Quiet(onCreate(w), w)
  BY DEF Good, Terminal, onCreate, Quiet, MakeAt

LEMMA OnResume ==
  ASSUME NEW w, Good(w)
  PROVE  Good(onResume(w)) /\ Quiet(onResume(w), w)
<1> DEFINE v == [w EXCEPT !.shown = "top"]
<1>1. Good(v) /\ Quiet(v, w)
  BY DEF Good, Terminal, Quiet, MakeAt
<1>2. onResume(w) = v \/ onResume(w) = finish(v)
  BY DEF onResume
<1> HIDE DEF v
<1> QED  BY <1>1, <1>2, Finish, QuietTransitive

LEMMA Refuse ==
  ASSUME NEW w, Good(w)
  PROVE  Good(Refused(w)) /\ Quiet(Refused(w), w)
<1>1. Refused(w) = clear(w) \/ Refused(w) = closeCallUI(clear(w))
  BY DEF Refused
<1> QED  BY <1>1, Clear, CloseCallUI, QuietTransitive

LEMMA HangupPressed ==
  ASSUME NEW w, Good(w)
  PROVE  Good(hangupPressed(w)) /\ Quiet(hangupPressed(w), w)
<1> DEFINE s == IF w.state \in DOMAIN HangupStates THEN HangupStates[w.state] ELSE w.state
           v == setCallState(w, s)
           x == [v EXCEPT !.force = FALSE]
<1>1. s \in CallStates
  BY DEF Good, Terminal, HangupStates, CallStates
<1>2. hangupPressed(w) = finish(w) \/ hangupPressed(w) = post(finish(x), "HANGUP")
  BY DEF hangupPressed
<1> HIDE DEF s
<1>3. Good(v) /\ Quiet(v, w)
  BY <1>1, SetCallState
<1> HIDE DEF v
<1>4. Good(x) /\ Quiet(x, v)
  BY <1>3 DEF Good, Terminal, Quiet, MakeAt
<1> HIDE DEF x
<1>5. Good(finish(x)) /\ Quiet(finish(x), w)
  BY <1>3, <1>4, Finish, QuietTransitive
<1>6. Good(post(finish(x), "HANGUP")) /\ Quiet(post(finish(x), "HANGUP"), finish(x))
  BY <1>5, PostGood, PostQuiet DEF Messages
<1> QED  BY <1>2, <1>5, <1>6, Finish, QuietTransitive

LEMMA AnswerPressed ==
  ASSUME NEW w, Good(w)
  PROVE  Good(answerPressed(w)) /\ Quiet(answerPressed(w), w)
<1> DEFINE v == setCallState(w, "TALKING")
           x == post(v, "ANSWER")
<1>1. Good(v) /\ Quiet(v, w)
  BY SetCallState DEF CallStates
<1> HIDE DEF v
<1>2. Good(x) /\ Quiet(x, v)
  BY <1>1, PostGood, PostQuiet DEF Messages
<1> HIDE DEF x
<1>3. answerPressed(w) = [x EXCEPT !.answerBtn = FALSE]
  BY DEF answerPressed, x, v
<1>4. LET y == [x EXCEPT !.answerBtn = FALSE] IN Good(y) /\ Quiet(y, x)
  BY <1>2 DEF Good, Terminal, Quiet, MakeAt
<1> QED  BY <1>1, <1>2, <1>3, <1>4, QuietTransitive

-----------------------------------------------------------------------------
(* Every step keeps the types and bRingPlaying *)

Inv == TypeOK /\ RingKnown

LEMMA InvIsGood == Inv <=> TypeOK /\ Good(term)
  BY DEF Inv, TypeOK, RingKnown, Good

\* The message the main thread takes from its queue.
LEMMA Popped ==
  ASSUME Good(term), term.inbox # <<>>
  PROVE  /\ Good(popped)
         /\ popped.calls = term.calls /\ popped.cur = term.cur
         /\ popped.tone = term.tone /\ popped.ring = term.ring
         /\ popped.inbox = Tail(term.inbox)
<1>1. Tail(term.inbox) \in Seq(Messages)
  BY DEF Good, Terminal
<1>2. popped \in Terminal
  BY <1>1 DEF Good, Terminal, popped
<1>3. /\ popped.calls = term.calls /\ popped.cur = term.cur
      /\ popped.tone = term.tone /\ popped.ring = term.ring
      /\ popped.inbox = Tail(term.inbox)
  BY DEF Good, Terminal, popped
<1> QED  BY <1>2, <1>3 DEF Good

LEMMA OpenScreenGood ==
  ASSUME Good(term), OpenScreen
  PROVE  Good(term') /\ Quiet(term', popped)
<1>1. Good(popped)
  BY Popped DEF OpenScreen, Receive
<1>2. Good(onCreate(popped)) /\ Quiet(onCreate(popped), popped)
  BY <1>1, OnCreate
<1> QED  BY <1>2, OnResume, QuietTransitive DEF OpenScreen, Main

LEMMA StateBroadcastGood ==
  ASSUME Good(term), StateBroadcast
  PROVE  Good(term') /\ Quiet(term', popped)
<1>1. Good(popped) /\ Quiet(popped, popped)
  BY Popped DEF StateBroadcast, Receive, Quiet
<1>2. term' = popped \/ term' = finish(popped)
  BY DEF StateBroadcast, Main, updateCallState
<1> QED  BY <1>1, <1>2, Finish

LEMMA PttBroadcastGood ==
  ASSUME Good(term), PttBroadcast
  PROVE  Good(term') /\ Quiet(term', popped)
<1>1. Good(popped)
  BY Popped DEF PttBroadcast, Receive
<1>2. PICK b \in BOOLEAN : term' = [popped EXCEPT !.dialog = b]
  <2>1. popped.dialog \in BOOLEAN
    BY <1>1 DEF Good, Terminal
  <2> QED  BY <2>1 DEF PttBroadcast, Main
<1> QED  BY <1>1, <1>2 DEF Good, Terminal, Quiet, MakeAt

LEMMA CommandGood ==
  ASSUME Good(term), NEW m, NEW call, Command(m, call)
  PROVE  Good(term') /\ Quiet(term', popped) /\ ~term'.tone
<1>1. Good(popped) /\ Quiet(popped, popped) /\ popped.ring = term.ring
      /\ popped.tone = term.tone
  BY Popped DEF Command, Receive, Quiet
<1>2. CASE term.ring
  BY <1>1, <1>2, StopRingtone DEF Command
<1>3. CASE ~term.ring
  BY <1>1, <1>3 DEF Command, Good
<1> QED  BY <1>2, <1>3

LEMMA MakeCommandGood ==
  ASSUME Good(term), MakeCommand
  PROVE  Good(term') /\ Quiet(term', popped)
<1>1. Good(popped)
  BY Popped DEF MakeCommand, Receive
<1>2. term' = [popped EXCEPT !.state = "DIALING", !.num = TRUE]
  BY DEF MakeCommand
<1> QED  BY <1>1, <1>2 DEF Good, Terminal, Quiet, MakeAt, CallStates

LEMMA RequestHangupGood ==
  ASSUME Good(term), jni \in Requests, RequestHangup
  PROVE  Good(term')
<1>1. jni.id \in CallIds
  BY DEF RequestHangup, Requests
<1>2. term' = Refused(term) \/ term' = hangup(term, jni.id)
  BY DEF RequestHangup, Returned
<1> QED  BY <1>1, <1>2, Refuse, Hangup

LEMMA RequestAnswerGood ==
  ASSUME Good(term), jni \in Requests, RequestAnswer
  PROVE  Good(term')
<1> DEFINE f == [term.calls EXCEPT ![jni.id] = "connecting"]
<1>1. term' = Refused(term) \/ term' = [term EXCEPT !.calls = f]
  BY DEF RequestAnswer, Returned
<1>2. f \in [CallIds -> NativeStates]
  BY DEF Good, Terminal, NativeStates
<1> HIDE DEF f
<1>3. Good([term EXCEPT !.calls = f])
  BY <1>2 DEF Good, Terminal
<1> QED  BY <1>1, <1>3, Refuse

LEMMA RequestMakeCallGood ==
  ASSUME Good(term), RequestMakeCall
  PROVE  Good(term')
<1> DEFINE x == [term EXCEPT !.force = TRUE]
           w == dropCurrent(x)
<1>1. Good(x)
  BY DEF Good, Terminal
<1>2. \/ term' = term \/ term' = clear(term) \/ term' = w \/ term' = clear(w)
      \/ Free(w) # {} /\ term' = placeCall(w)
  BY DEF RequestMakeCall, MakeFailed, Returned
<1> HIDE DEF x
<1>3. Good(w)
  BY <1>1, DropCurrent
<1> HIDE DEF w
<1> QED  BY <1>2, <1>3, Clear, PlaceCall

LEMMA OnDestroyGood ==
  ASSUME Good(term), onDestroy
  PROVE  Good(term') /\ Quiet(term', term)
<1> DEFINE w == [term EXCEPT !.fin = term.fin - 1]
<1>1. term.fin - 1 \in Nat
  BY DEF Good, Terminal, onDestroy
<1>2. Good(w) /\ Quiet(w, term)
  BY <1>1 DEF Good, Terminal, Quiet, MakeAt
<1>3. term' = w \/ term' = [clear(w) EXCEPT !.inst = "none"]
  BY DEF onDestroy, Main
<1> HIDE DEF w
<1>4. Good(clear(w)) /\ Quiet(clear(w), term)
  BY <1>2, Clear, QuietTransitive
<1>5. LET x == [clear(w) EXCEPT !.inst = "none"] IN Good(x) /\ Quiet(x, clear(w))
  BY <1>4 DEF Good, Terminal, Quiet, MakeAt
<1> QED  BY <1>2, <1>3, <1>4, <1>5, QuietTransitive

LEMMA DialPadGood ==
  ASSUME Good(term), DialPad
  PROVE  Good(term') /\ Quiet(term', term)
<1> DEFINE v == setCurrentCallState(term, FirstCall, "DIALING")
<1>1. Good(v) /\ Quiet(v, term)
  BY FirstCallId, SetCurrentCallState DEF CallStates
<1>2. term' = post(v, "OPEN")
  BY DEF DialPad
<1> HIDE DEF v
<1>3. Good(post(v, "OPEN")) /\ Quiet(post(v, "OPEN"), v)
  BY <1>1, PostGood, PostQuiet DEF Messages
<1> QED  BY <1>1, <1>2, <1>3, QuietTransitive

LEMMA DialBookGood ==
  ASSUME Good(term), DialBook
  PROVE  /\ Good(term')
         /\ term'.calls = term.calls /\ term'.cur = term.cur
         /\ term'.tone = term.tone /\ term'.inbox = <<"MAKE">>
<1>1. term' = post(term, "MAKE") /\ term.inbox = <<>>
  BY DEF DialBook, OtherPage
<1>2. Good(post(term, "MAKE"))
  BY PostGood DEF Messages
<1>3. term'.inbox = Append(<<>>, "MAKE") /\ Append(<<>>, "MAKE") = <<"MAKE">>
  BY <1>1 DEF Good, Terminal, post
<1> QED  BY <1>1, <1>2, <1>3 DEF Good, Terminal, post

LEMMA LeaveScreenGood ==
  ASSUME Good(term), LeaveScreen
  PROVE  Good(term') /\ Quiet(term', term)
  BY DEF LeaveScreen, Good, Terminal, Quiet, MakeAt

LEMMA ReturnToCallGood ==
  ASSUME Good(term), ReturnToCall
  PROVE  Good(term') /\ Quiet(term', term)
  BY PostGood, PostQuiet DEF ReturnToCall, Main, Messages

LEMMA SwitchToPttGood ==
  ASSUME Good(term), SwitchToPtt
  PROVE  Good(term') /\ Quiet(term', term)
<1>1. Good(finish(term)) /\ Quiet(finish(term), term)
  BY Finish
<1>2. term' = setCallState(finish(term), "ENDED")
  BY DEF SwitchToPtt, Main
<1> QED  BY <1>1, <1>2, SetCallState, QuietTransitive DEF CallStates

LEMMA RefuseSwitchGood ==
  ASSUME Good(term), RefuseSwitch
  PROVE  Good(term') /\ Quiet(term', term)
  BY DEF RefuseSwitch, Main, Good, Terminal, Quiet, MakeAt

LEMMA ReregisterGood ==
  ASSUME Good(term), Reregister
  PROVE  Good(term') /\ Quiet(term', term)
<1> DEFINE e == endRing(term, "ENDED")
<1>1. Good(e) /\ Quiet(e, term)
  BY EndRing
<1>2. term' = term \/ term' = clear(closeCallUI(e))
  BY DEF Reregister
<1> HIDE DEF e
<1>3. Good(closeCallUI(e)) /\ Quiet(closeCallUI(e), term)
  BY <1>1, CloseCallUI, QuietTransitive
<1>4. Good(clear(closeCallUI(e))) /\ Quiet(clear(closeCallUI(e)), term)
  BY <1>3, Clear, QuietTransitive
<1>5. Quiet(term, term)
  BY DEF Quiet
<1> QED  BY <1>2, <1>4, <1>5

LEMMA IncomingGood ==
  ASSUME Good(term), Incoming
  PROVE  LET a == alloc_call_id(term)[1]
         IN  /\ Good(term')
             /\ a \in CallIds /\ term.calls[a] = "null"
             /\ term'.calls = [term.calls EXCEPT ![a] = "incoming"]
             /\ term'.cur = IF term.cur = NoCall THEN a ELSE term.cur
             /\ MakeAt(term') = MakeAt(term)
<1> DEFINE a == alloc_call_id(term)[1]
           n == newCall(term, "incoming")
<1>1. /\ Good(n) /\ a \in CallIds /\ term.calls[a] = "null"
      /\ n.calls = [term.calls EXCEPT ![a] = "incoming"]
      /\ n.cur = IF term.cur = NoCall THEN a ELSE term.cur
      /\ MakeAt(n) = MakeAt(term)
  BY NewCall DEF NativeStates, Incoming
<1>2. term' = showCallState(n, a, "RINGING", "none")
  BY DEF Incoming, Callback
<1> HIDE DEF a, n
<1>3. LET u == showCallState(n, a, "RINGING", "none")
      IN  Good(u) /\ u.calls = n.calls /\ u.cur = n.cur /\ MakeAt(u) = MakeAt(n)
  BY <1>1, ShowCallState
<1> QED  BY <1>1, <1>2, <1>3 DEF a

LEMMA ConfirmedGood ==
  ASSUME Good(term), NEW c \in CallIds, Confirmed(c)
  PROVE  /\ Good(term')
         /\ term'.calls = [term.calls EXCEPT ![c] = Answered(term.calls[c])]
         /\ Answered(term.calls[c]) \in {"confirmed", "crossed", "ending"}
         /\ term'.cur = IF term.cur = NoCall THEN c ELSE term.cur
         /\ MakeAt(term') = MakeAt(term)
         /\ term'.tone => term.tone
<1> DEFINE f == [term.calls EXCEPT ![c] = Answered(term.calls[c])]
           d == IF term.cur = NoCall THEN c ELSE term.cur
           v == [term EXCEPT !.calls = f, !.cur = d]
<1>0. Answered(term.calls[c]) \in {"confirmed", "crossed", "ending"}
  BY DEF Answered
<1>1. f \in [CallIds -> NativeStates] /\ d \in CallIds \cup {NoCall}
  BY <1>0 DEF Good, Terminal, NativeStates
<1>2. term' = showCallState(v, c, "TALKING", "none")
  BY DEF Confirmed, Callback
<1> HIDE DEF f, d
<1>3. v \in Terminal /\ v.calls = f /\ v.cur = d /\ v.inbox = term.inbox
      /\ v.tone = term.tone /\ v.ring = term.ring
  BY <1>1 DEF Good, Terminal
<1> HIDE DEF v
<1>4. Good(v) /\ MakeAt(v) = MakeAt(term)
  BY <1>3 DEF Good, MakeAt
<1>5. Good(term') /\ Quiet(term', v)
  BY <1>2, <1>4, ShowCallState
<1> QED  BY <1>0, <1>3, <1>4, <1>5 DEF Quiet, f, d

LEMMA CallTimeoutGood ==
  ASSUME Good(term), NEW c \in CallIds, CallTimeout(c)
  PROVE  /\ Good(term')
         /\ \/ term' = term
            \/ LET v == showCallState(term, c, "ENDED", "504")
               IN  term' = hangup(v, c) /\ Good(v) /\ Quiet(v, term)
<1> DEFINE v == showCallState(term, c, "ENDED", "504")
<1>1. Good(v) /\ Quiet(v, term)
  BY ShowCallState
<1>2. term' = term \/ term' = hangup(v, c)
  BY DEF CallTimeout, Callback
<1> HIDE DEF v
<1>3. Good(hangup(v, c))
  BY <1>1, Hangup
<1> QED  BY <1>1, <1>2, <1>3 DEF v

LEMMA UnregisteredGood ==
  ASSUME Good(term), Unregistered
  PROVE  Good(term') /\ Quiet(term', term)
<1>1. term' = term \/ term' = clear(closeCallUI(term))
  BY DEF Unregistered, Registration
<1>2. Good(closeCallUI(term)) /\ Quiet(closeCallUI(term), term)
  BY CloseCallUI
<1>3. LET u == clear(closeCallUI(term)) IN Good(u) /\ Quiet(u, term)
  BY <1>2, Clear, QuietTransitive
<1>4. Quiet(term, term)
  BY DEF Quiet
<1> QED  BY <1>1, <1>3, <1>4

\* JNIUpdateRegisterState hangs up, closes the screen and clears the call.
LEMMA RegisterErrorGood ==
  ASSUME Good(term), RegisterError
  PROVE  /\ Good(term')
         /\ \/ term' = term
            \/ \E w, v : /\ Good(w) /\ Quiet(w, term) /\ w.id \in CallIds
                         /\ v = hangup(w, w.id) \/ Quiet(v, w)
                         /\ Good(v) /\ Quiet(term', v)
<1> DEFINE w == IF term.ring THEN stopRingtone(term) ELSE term
           v == IF Gone(w, w.id) THEN Refused(w) ELSE hangup(w, w.id)
<1>1. Good(w) /\ Quiet(w, term)
  BY StopRingtone DEF Quiet
<1>2. term' = term \/ term' = clear(closeCallUI(v))
  BY DEF RegisterError, Registration
<1> HIDE DEF w
<1>3. w.id \in CallIds
  BY <1>1 DEF Good, Terminal
<1>4. Good(v) /\ (v = hangup(w, w.id) \/ Quiet(v, w))
  BY <1>1, <1>3, Refuse, Hangup
<1> HIDE DEF v
<1>5. Good(closeCallUI(v)) /\ Quiet(closeCallUI(v), v)
  BY <1>4, CloseCallUI
<1>6. Good(clear(closeCallUI(v))) /\ Quiet(clear(closeCallUI(v)), v)
  BY <1>5, Clear, QuietTransitive
<1> QED  BY <1>1, <1>2, <1>3, <1>4, <1>6

LEMMA GroupTalkGood ==
  ASSUME Good(term), GroupTalk
  PROVE  Good(term') /\ Quiet(term', term)
<1>1. term' = term \/ term' = post(term, "PTT") \/ term' = clear(term)
  BY DEF GroupTalk, Callback
<1>2. Good(post(term, "PTT")) /\ Quiet(post(term, "PTT"), term)
  BY PostGood, PostQuiet DEF Messages
<1>3. Quiet(term, term)
  BY DEF Quiet
<1> QED  BY <1>1, <1>2, <1>3, Clear

LEMMA InitInv == Init => Inv
<1> SUFFICES ASSUME Init PROVE Inv
  OBVIOUS
<1>1. term \in Terminal
  BY FirstCallId, SlotsAssumption
     DEF Init, Terminal, CallIds, NoCall, NativeStates, CallStates
<1>2. jni \in Requests /\ left \in 0 .. MaxEvents
  BY MaxEventsAssumption DEF Init, Idle, Requests
<1> QED  BY <1>1, <1>2 DEF Init, Inv, TypeOK, RingKnown

\* One step of the specification.
LEMMA NextInv == Inv /\ [Next]_vars => Inv'
<1> SUFFICES ASSUME Inv, [Next]_vars PROVE Inv'
  OBVIOUS
<1>0. Good(term) /\ TypeOK
  BY InvIsGood
<1> SUFFICES Good(term') /\ jni' \in Requests /\ registered' \in BOOLEAN
             /\ ptt' \in BOOLEAN /\ left' \in 0 .. MaxEvents
  BY DEF Inv, TypeOK, RingKnown, Good
<1> DEFINE Rest == /\ jni' \in Requests /\ registered' \in BOOLEAN
                   /\ ptt' \in BOOLEAN /\ left' \in 0 .. MaxEvents
<1>1. Idle \in Requests /\ term.id \in CallIds
  BY <1>0 DEF Idle, Requests, Good, Terminal
<1> USE MaxEventsAssumption
<1>2. CASE MainNext
  <2>1. CASE OpenScreen
    BY <2>1, <1>0, OpenScreenGood DEF OpenScreen, Main, TypeOK
  <2>2. CASE StateBroadcast
    BY <2>2, <1>0, StateBroadcastGood DEF StateBroadcast, Main, TypeOK
  <2>3. CASE PttBroadcast
    BY <2>3, <1>0, PttBroadcastGood DEF PttBroadcast, Main, TypeOK
  <2>4. CASE HangupCommand \/ AnswerCommand
    <3>1. PICK m \in {"HANGUP", "ANSWER"}, call \in {"hangup", "answer"} : Command(m, call)
      BY <2>4 DEF HangupCommand, AnswerCommand
    <3>2. jni' \in Requests
      BY <3>1, <1>1 DEF Command, Requests
    <3> QED  BY <3>1, <3>2, <1>0, CommandGood DEF Command, TypeOK
  <2>5. CASE MakeCommand
    BY <2>5, <1>0, MakeCommandGood DEF MakeCommand, TypeOK, Requests
  <2>6. CASE RequestHangup
    <3>1. Rest
      BY <2>6, <1>0, <1>1 DEF RequestHangup, Returned, TypeOK
    <3> QED  BY <2>6, <3>1, <1>0, RequestHangupGood DEF TypeOK
  <2>7. CASE RequestAnswer
    <3>1. Rest
      BY <2>7, <1>0, <1>1 DEF RequestAnswer, Returned, TypeOK
    <3> QED  BY <2>7, <3>1, <1>0, RequestAnswerGood DEF TypeOK
  <2>8. CASE RequestMakeCall
    <3>1. Rest
      BY <2>8, <1>0, <1>1 DEF RequestMakeCall, MakeFailed, Returned, TypeOK
    <3> QED  BY <2>8, <3>1, <1>0, RequestMakeCallGood
  <2> QED  BY <1>2, <2>1, <2>2, <2>3, <2>4, <2>5, <2>6, <2>7, <2>8 DEF MainNext
<1>3. CASE onDestroy
  BY <1>3, <1>0, OnDestroyGood DEF onDestroy, Main, TypeOK
<1>4. CASE UserNext
  <2>1. CASE DialPad
    <3>1. Rest
      BY <2>1, <1>0 DEF DialPad, Spend, TypeOK, Requests
    <3> QED  BY <2>1, <3>1, <1>0, DialPadGood
  <2>2. CASE DialBook
    BY <2>2, <1>0, DialBookGood DEF DialBook, Spend, TypeOK
  <2>3. CASE PressHangup
    BY <2>3, <1>0, HangupPressed DEF PressHangup, Main, TypeOK
  <2>4. CASE PressAnswer
    BY <2>4, <1>0, AnswerPressed DEF PressAnswer, Main, TypeOK
  <2>5. CASE LeaveScreen
    BY <2>5, <1>0, LeaveScreenGood DEF LeaveScreen, Spend, TypeOK
  <2>6. CASE ReturnToCall
    BY <2>6, <1>0, ReturnToCallGood DEF ReturnToCall, Main, TypeOK
  <2>7. CASE SwitchToPtt
    BY <2>7, <1>0, SwitchToPttGood DEF SwitchToPtt, Main, TypeOK
  <2>8. CASE RefuseSwitch
    BY <2>8, <1>0, RefuseSwitchGood DEF RefuseSwitch, Main, TypeOK
  <2>9. CASE Reregister
    <3>1. registered' = FALSE /\ UNCHANGED <<jni, ptt>>
      BY <2>9 DEF Reregister
    <3>2. left' \in 0 .. MaxEvents
      BY <2>9, <1>0 DEF Reregister, Spend, TypeOK
    <3> QED  BY <2>9, <3>1, <3>2, <1>0, ReregisterGood DEF TypeOK
  <2>10. CASE PttSide
    <3>1. left' \in 0 .. MaxEvents
      BY <2>10, <1>0 DEF PttSide, Spend, TypeOK
    <3>2. ptt' \in BOOLEAN
      BY <2>10 DEF PttSide
    <3> QED  BY <2>10, <3>1, <3>2, <1>0 DEF PttSide, TypeOK
  <2> QED  BY <1>4, <2>1, <2>2, <2>3, <2>4, <2>5, <2>6, <2>7, <2>8, <2>9, <2>10 DEF UserNext
<1>5. CASE WorkerNext
  <2>1. CASE Incoming
    <3>1. Rest
      BY <2>1, <1>0 DEF Incoming, Callback, Spend, TypeOK
    <3> QED  BY <2>1, <3>1, <1>0, IncomingGood
  <2>2. ASSUME NEW c \in CallIds, Confirmed(c) \/ Disconnected(c) \/ CallTimeout(c)
        PROVE  Good(term') /\ Rest
    <3>1. CASE Confirmed(c)
      <4>1. Rest
        BY <3>1, <1>0 DEF Confirmed, Callback, TypeOK
      <4> QED  BY <3>1, <4>1, <1>0, ConfirmedGood
    <3>2. CASE Disconnected(c)
      <4>1. Rest
        BY <3>2, <1>0 DEF Disconnected, Callback, TypeOK
      <4>2. PICK code : term' = disconnect(term, c, code)
        BY <3>2 DEF Disconnected, Callback
      <4> QED  BY <4>1, <4>2, <1>0, Disconnect
    <3>3. CASE CallTimeout(c)
      <4>1. Rest
        BY <3>3, <1>0 DEF CallTimeout, Callback, Spend, TypeOK
      <4> QED  BY <3>3, <4>1, <1>0, CallTimeoutGood
    <3> QED  BY <2>2, <3>1, <3>2, <3>3
  <2>3. CASE Unregistered
    <3>1. registered' = FALSE /\ UNCHANGED <<jni, ptt>>
      BY <2>3 DEF Unregistered, Registration
    <3>2. left' \in 0 .. MaxEvents
      BY <2>3, <1>0 DEF Unregistered, Spend, TypeOK
    <3> QED  BY <2>3, <3>1, <3>2, <1>0, UnregisteredGood DEF TypeOK
  <2>4. CASE RegisterError
    <3>1. registered' = FALSE /\ UNCHANGED <<jni, ptt>>
      BY <2>4 DEF RegisterError, Registration
    <3>2. left' \in 0 .. MaxEvents
      BY <2>4, <1>0 DEF RegisterError, Spend, TypeOK
    <3> QED  BY <2>4, <3>1, <3>2, <1>0, RegisterErrorGood DEF TypeOK
  <2>5. CASE Registered
    BY <2>5, <1>0 DEF Registered, Registration, TypeOK
  <2>6. CASE GroupTalk
    BY <2>6, <1>0, GroupTalkGood DEF GroupTalk, Callback, Spend, TypeOK
  <2> QED  BY <1>5, <2>1, <2>2, <2>3, <2>4, <2>5, <2>6 DEF WorkerNext
<1>6. CASE UNCHANGED vars
  BY <1>6, <1>0 DEF vars, TypeOK
<1> QED  BY <1>2, <1>3, <1>4, <1>5, <1>6 DEF Next

LEMMA InvHolds == Safety => []Inv
  BY InitInv, NextInv, PTL DEF Safety

\* Every variable keeps its type, for a call table of any size: whatever the
\* order of callbacks, commands and screens, the id that answer and hang up
\* are asked for is one the table has.
THEOREM TypeCorrect == Safety => []TypeOK
  BY InvHolds, PTL DEF Inv

\* A ringtone that plays is one that bRingPlaying knows of, so that the next
\* report of a call answered or ended stops it, whatever clear() did between.
THEOREM RingIsKnown == Safety => []RingKnown
  BY InvHolds, PTL DEF Inv

-----------------------------------------------------------------------------
(***************************************************************************)
(* Calls one after the other, and an idle PTT side: the ringtone plays     *)
(* only for a call that waits to be answered.  There is one call at most,  *)
(* it is current, and no call can come up between a COMM_MAKE_CALL and the *)
(* call it makes.                                                          *)
(***************************************************************************)
AllNull(w) == \A c \in CallIds : w.calls[c] = "null"

Alone(w) ==
    /\ \A c \in CallIds : w.calls[c] # "null" => w.cur = c
    /\ w.cur # NoCall => w.calls[w.cur] # "null"
    /\ w.tone => \E c \in CallIds : w.calls[c] = "incoming"

MakeOnce(w) == \A i, j \in MakeAt(w) : i = j

OneCall ==
    /\ Inv
    /\ ~ptt
    /\ Alone(term)
    /\ MakeOnce(term)
    /\ MakeAt(term) # {} => AllNull(term)
    /\ jni.call \in {"pad", "book"} => AllNull(term) /\ MakeAt(term) = {}
    /\ jni.call = "answer" => ~term.tone

\* An operation that starts neither a call nor a ringtone.
Tame(v, w) ==
    /\ Alone(v)
    /\ MakeAt(v) = MakeAt(w)
    /\ AllNull(w) => AllNull(v)
    /\ v.tone => w.tone

LEMMA QuietIsTame ==
  ASSUME NEW v, NEW w, Quiet(v, w), Alone(w)
  PROVE  Tame(v, w)
  BY DEF Quiet, Alone, Tame, AllNull

LEMMA TameTransitive ==
  ASSUME NEW u, NEW v, NEW w, Tame(u, v), Tame(v, w)
  PROVE  Tame(u, w)
  BY DEF Tame

\* With one call at most, its end leaves none, and silence.
LEMMA DisconnectIsTame ==
  ASSUME NEW w, Good(w), Alone(w), ~ptt, NEW c \in CallIds, w.calls[c] # "null",
         NEW code, code \in {"486", "487", "none"} \/ w.calls[c] # "incoming"
  PROVE  Tame(disconnect(w, c, code), w)
<1> DEFINE u == disconnect(w, c, code)
<1>1. w.cur = c /\ \A d \in CallIds \ {w.cur} : w.calls[d] = "null"
  BY DEF Alone
<1>2. find_next_call(w) = NoCall
  BY <1>1, FindNextCall
<1>3. /\ u.calls = [w.calls EXCEPT ![c] = "null"]
      /\ u.cur = NoCall
      /\ MakeAt(u) = MakeAt(w)
      /\ u.tone => w.tone
      /\ code \in {"486", "487", "none"} => ~u.tone
  BY <1>1, <1>2, Disconnect
<1> HIDE DEF u
<1>4. AllNull(u)
  BY <1>1, <1>3 DEF AllNull, Good, Terminal
<1>5. w.calls[c] # "incoming" => ~w.tone
  BY <1>1 DEF Alone
<1>6. ~u.tone
  BY <1>3, <1>5
<1> QED  BY <1>3, <1>4, <1>6 DEF Tame, Alone, AllNull, u

LEMMA HangupIsTame ==
  ASSUME NEW w, Good(w), Alone(w), ~ptt, NEW c \in CallIds
  PROVE  Tame(hangup(w, c), w)
<1>1. CASE w.calls[c] = "incoming"
  <2>1. hangup(w, c) = disconnect(w, c, "486")
    BY <1>1 DEF hangup
  <2> QED  BY <1>1, <2>1, DisconnectIsTame
<1>2. CASE w.calls[c] # "incoming"
  <2> DEFINE u == hangup(w, c)
  <2>1. /\ u.cur = w.cur /\ u.tone = w.tone /\ MakeAt(u) = MakeAt(w)
        /\ \A d \in CallIds : d # c => u.calls[d] = w.calls[d]
        /\ u.calls[c] = "null" <=> w.calls[c] = "null"
        /\ u.calls[c] # "incoming"
    BY <1>2, HangupEstablished
  <2> HIDE DEF u
  <2>2. \A d \in CallIds : u.calls[d] = "null" <=> w.calls[d] = "null"
    BY <2>1
  <2>3. w.tone => \E d \in CallIds : d # c /\ w.calls[d] = "incoming"
    BY <1>2 DEF Alone
  <2>4. u.tone => \E d \in CallIds : u.calls[d] = "incoming"
    BY <2>1, <2>3
  <2>5. w.cur \in CallIds \cup {NoCall}
    BY DEF Good, Terminal
  <2>6. Alone(u)
    BY <2>1, <2>2, <2>4, <2>5 DEF Alone
  <2> QED  BY <2>1, <2>2, <2>6 DEF Tame, AllNull, u
<1> QED  BY <1>1, <1>2

\* A tame step with the main thread where it was, or back from its call.
LEMMA TameStep ==
  ASSUME OneCall, Inv', ~ptt', Tame(term', term), jni' = jni \/ jni' = Idle
  PROVE  OneCall'
  BY DEF OneCall, Tame, MakeOnce, Idle, AllNull, MakeAt, Alone

\* The queue after its head was taken.
LEMMA PoppedMake ==
  ASSUME Good(term), term.inbox # <<>>, MakeOnce(term)
  PROVE  /\ MakeOnce(popped)
         /\ MakeAt(popped) # {} => MakeAt(term) # {}
         /\ Head(term.inbox) = "MAKE" => MakeAt(popped) = {} /\ MakeAt(term) # {}
<1> DEFINE q == term.inbox
<1>1. popped.inbox = Tail(q) /\ q \in Seq(Messages) /\ q # <<>>
  BY Popped DEF Good, Terminal
<1>2. Len(q) \in Nat \ {0} /\ Head(q) = q[1] /\ Len(Tail(q)) = Len(q) - 1
      /\ \A i \in 1 .. Len(q) - 1 : Tail(q)[i] = q[i + 1]
  BY <1>1
<1>3. \A i \in MakeAt(popped) : i + 1 \in MakeAt(term) /\ i \in Nat \ {0}
  BY <1>1, <1>2 DEF MakeAt
<1>4. \A i, j \in MakeAt(popped) : i = j
  BY <1>3 DEF MakeOnce
<1>5. ASSUME Head(q) = "MAKE" PROVE MakeAt(popped) = {} /\ MakeAt(term) # {}
  <2>1. 1 \in MakeAt(term)
    BY <1>1, <1>2, <1>5 DEF MakeAt
  <2>2. \A i \in MakeAt(popped) : FALSE
    BY <2>1, <1>3 DEF MakeOnce
  <2> QED  BY <2>1, <2>2
<1> QED  BY <1>3, <1>4, <1>5 DEF MakeOnce

\* The handlers of what the main thread takes from its queue.
LEMMA ReceiveStep ==
  ASSUME OneCall, Inv', ~ptt', NEW m, Receive(m), Quiet(term', popped),
         \/ jni' = jni
         \/ jni'.call = "hangup"
         \/ jni'.call = "answer" /\ ~term'.tone
         \/ jni'.call = "book" /\ m = "MAKE"
  PROVE  OneCall'
<1>1. Good(term) /\ term.inbox # <<>> /\ MakeOnce(term) /\ jni.call = "none"
  BY InvIsGood DEF OneCall, Receive, MainFree, Idle
<1>2. /\ MakeOnce(popped)
      /\ MakeAt(popped) # {} => MakeAt(term) # {}
      /\ m = "MAKE" => MakeAt(popped) = {} /\ MakeAt(term) # {}
  BY <1>1, PoppedMake DEF Receive
<1>3. Alone(popped) /\ (AllNull(term) => AllNull(popped))
  BY <1>1, Popped DEF OneCall, Alone, AllNull
<1>4. Alone(term') /\ (AllNull(popped) => AllNull(term')) /\ MakeAt(term') = MakeAt(popped)
  BY <1>3, QuietIsTame DEF Tame
<1>5. MakeOnce(term') /\ (MakeAt(term') # {} => AllNull(term'))
      /\ (m = "MAKE" => AllNull(term') /\ MakeAt(term') = {})
  BY <1>2, <1>3, <1>4 DEF OneCall, MakeOnce
<1>6. /\ jni'.call \in {"pad", "book"} => AllNull(term') /\ MakeAt(term') = {}
      /\ jni'.call = "answer" => ~term'.tone
  BY <1>1, <1>5
<1>7. /\ MakeOnce(term)' /\ (MakeAt(term) # {} => AllNull(term))' /\ Alone(term)'
      /\ (jni.call \in {"pad", "book"} => AllNull(term) /\ MakeAt(term) = {})'
  BY <1>4, <1>5, <1>6 DEF MakeOnce, AllNull, MakeAt, Alone
<1> QED  BY <1>6, <1>7 DEF OneCall

\* The main thread's steps.
LEMMA MainStep ==
  ASSUME OneCall, Inv', MainNext
  PROVE  OneCall'
<1>0. Good(term) /\ Alone(term) /\ ~ptt /\ jni \in Requests
  BY InvIsGood DEF OneCall, TypeOK
<1>1. CASE OpenScreen
  <2>1. Receive("OPEN") /\ jni' = jni /\ ptt' = ptt
    BY <1>1 DEF OpenScreen, Main
  <2> QED  BY <1>0, <1>1, <2>1, OpenScreenGood, ReceiveStep
<1>2. CASE StateBroadcast
  <2>1. Receive("STATE") /\ jni' = jni /\ ptt' = ptt
    BY <1>2 DEF StateBroadcast, Main
  <2> QED  BY <1>0, <1>2, <2>1, StateBroadcastGood, ReceiveStep
<1>3. CASE PttBroadcast
  <2>1. Receive("PTT") /\ jni' = jni /\ ptt' = ptt
    BY <1>3 DEF PttBroadcast, Main
  <2> QED  BY <1>0, <1>3, <2>1, PttBroadcastGood, ReceiveStep
<1>4. CASE HangupCommand
  <2>1. Command("HANGUP", "hangup")
    BY <1>4 DEF HangupCommand
  <2>2. Receive("HANGUP") /\ jni'.call = "hangup" /\ ptt' = ptt
    BY <2>1 DEF Command
  <2> QED  BY <1>0, <2>1, <2>2, CommandGood, ReceiveStep
<1>5. CASE AnswerCommand
  <2>1. Command("ANSWER", "answer")
    BY <1>5 DEF AnswerCommand
  <2>2. Receive("ANSWER") /\ jni'.call = "answer" /\ ptt' = ptt
    BY <2>1 DEF Command
  <2> QED  BY <1>0, <2>1, <2>2, CommandGood, ReceiveStep
<1>6. CASE MakeCommand
  <2>1. Receive("MAKE") /\ jni'.call = "book" /\ ptt' = ptt
    BY <1>6 DEF MakeCommand
  <2> QED  BY <1>0, <1>6, <2>1, MakeCommandGood, ReceiveStep
<1>7. CASE RequestHangup
  <2>1. jni.id \in CallIds
    BY <1>0, <1>7 DEF RequestHangup, Requests
  <2>2. term' = Refused(term) \/ term' = hangup(term, jni.id)
    BY <1>7 DEF RequestHangup, Returned
  <2>3. Tame(term', term)
    BY <1>0, <2>1, <2>2, Refuse, QuietIsTame, HangupIsTame
  <2>4. jni' = Idle /\ ptt' = ptt
    BY <1>7 DEF RequestHangup, Returned
  <2> QED  BY <1>0, <2>3, <2>4, TameStep
<1>8. CASE RequestAnswer
  <2> DEFINE f == [term.calls EXCEPT ![jni.id] = "connecting"]
  <2>1. jni' = Idle /\ ptt' = ptt /\ ~term.tone
    BY <1>8 DEF RequestAnswer, Returned, OneCall
  <2>2. CASE term' = Refused(term)
    BY <1>0, <2>1, <2>2, Refuse, QuietIsTame, TameStep
  <2>3. CASE CanAnswer(term, jni.id) /\ term' = [term EXCEPT !.calls = f]
    <3>1. jni.id \in CallIds /\ term.calls[jni.id] = "incoming"
      BY <1>0, <1>8, <2>3 DEF RequestAnswer, Requests, CanAnswer
    <3>2. /\ term'.calls = f /\ term'.cur = term.cur /\ term'.tone = term.tone
          /\ term'.inbox = term.inbox
      BY <1>0, <2>3 DEF Good, Terminal
    <3>3. term'.cur = jni.id /\ f[jni.id] = "connecting"
          /\ \A d \in CallIds \ {jni.id} : f[d] = "null"
      BY <1>0, <3>1, <3>2 DEF Alone, Good, Terminal
    <3> HIDE DEF f
    <3>4. Alone(term')
      BY <2>1, <3>1, <3>2, <3>3 DEF Alone
    <3>5. Tame(term', term)
      BY <3>1, <3>2, <3>4 DEF Tame, MakeAt, AllNull
    <3> QED  BY <1>0, <2>1, <3>5, TameStep
  <2> QED  BY <1>8, <2>2, <2>3 DEF RequestAnswer, Returned
<1>9. CASE RequestMakeCall
  <2> DEFINE x == [term EXCEPT !.force = TRUE]
  <2>1. jni.call \in {"pad", "book"} /\ AllNull(term) /\ MakeAt(term) = {}
    BY <1>9 DEF RequestMakeCall, OneCall
  <2>2. Good(x) /\ Quiet(x, term)
    BY <1>0 DEF Good, Terminal, Quiet, MakeAt
  <2>3. term.cur = NoCall /\ ~term.tone
    BY <1>0, <2>1 DEF Alone, AllNull, Good, Terminal
  <2>4. dropCurrent(x) = x
    BY <2>2, <2>3 DEF dropCurrent, Quiet
  <2>5. /\ jni' = Idle /\ ptt' = ptt
        /\ \/ term' = term \/ term' = clear(term) \/ term' = x \/ term' = clear(x)
           \/ Free(x) # {} /\ term' = placeCall(x)
    BY <1>9, <2>4 DEF RequestMakeCall, MakeFailed, Returned
  <2> HIDE DEF x
  <2>6. CASE Free(x) # {} /\ term' = placeCall(x)
    <3> DEFINE a == alloc_call_id(x)[1]
    <3>1. /\ a \in CallIds /\ term'.calls = [x.calls EXCEPT ![a] = "calling"]
          /\ term'.cur = IF x.cur = NoCall THEN a ELSE x.cur
          /\ MakeAt(term') = MakeAt(x)
          /\ term'.tone => x.tone
      BY <2>2, <2>6, PlaceCall
    <3> HIDE DEF a
    <3>2. x.cur = NoCall /\ ~x.tone /\ MakeAt(x) = {} /\ x.calls = term.calls
      BY <2>1, <2>2, <2>3 DEF Quiet
    <3>3. /\ term'.cur = a /\ term'.calls[a] = "calling"
          /\ \A d \in CallIds \ {a} : term'.calls[d] = "null"
      BY <1>0, <2>1, <3>1, <3>2 DEF AllNull, Good, Terminal
    <3>4. Alone(term)' /\ MakeAt(term)' = {}
      BY <3>1, <3>2, <3>3 DEF Alone, MakeAt
    <3> QED  BY <1>0, <2>5, <3>4 DEF OneCall, MakeOnce, Idle
  <2>7. CASE term' \in {term, clear(term), x, clear(x)}
    <3>1. Quiet(term, term) /\ Quiet(clear(term), term) /\ Quiet(clear(x), term)
      BY <1>0, <2>2, Clear, QuietTransitive DEF Quiet
    <3>2. Tame(term', term)
      BY <1>0, <2>2, <2>7, <3>1, QuietIsTame
    <3> QED  BY <1>0, <2>5, <3>2, TameStep
  <2> QED  BY <2>5, <2>6, <2>7
<1> QED  BY <1>1, <1>2, <1>3, <1>4, <1>5, <1>6, <1>7, <1>8, <1>9 DEF MainNext

\* The user's steps, and the end of a screen.
LEMMA UserStep ==
  ASSUME Apart, "ptt" \notin Events, OneCall, Inv', onDestroy \/ UserNext
  PROVE  OneCall'
<1>0. Good(term) /\ Alone(term) /\ ~ptt /\ MakeOnce(term)
  BY InvIsGood DEF OneCall
<1>1. CASE onDestroy
  <2>1. jni' = jni /\ ptt' = ptt
    BY <1>1 DEF onDestroy, Main
  <2> QED  BY <1>0, <1>1, <2>1, OnDestroyGood, QuietIsTame, TameStep
<1>2. CASE DialPad
  <2>1. /\ AllNull(term) /\ MakeAt(term) = {} /\ ptt' = ptt
        /\ jni'.call = "pad"
    <3>1. Free(term) = CallIds /\ term.inbox = <<>>
      BY <1>2 DEF DialPad, MayStart
    <3> QED  BY <1>2, <3>1 DEF DialPad, Free, AllNull, MakeAt
  <2>2. Tame(term', term)
    BY <1>0, <1>2, DialPadGood, QuietIsTame
  <2>3. Alone(term)' /\ MakeAt(term)' = {} /\ AllNull(term)'
    BY <2>1, <2>2 DEF Tame, Alone, MakeAt, AllNull
  <2> QED  BY <1>0, <2>1, <2>3 DEF OneCall, MakeOnce
<1>3. CASE DialBook
  <2>1. AllNull(term) /\ ptt' = ptt /\ jni' = Idle
    BY <1>3 DEF DialBook, MayStart, Free, AllNull, MainFree
  <2>2. /\ term'.calls = term.calls /\ term'.cur = term.cur
        /\ term'.tone = term.tone /\ term'.inbox = <<"MAKE">>
    BY <1>0, <1>3, DialBookGood
  <2>3. Alone(term)' /\ AllNull(term)'
    BY <1>0, <2>1, <2>2 DEF Alone, AllNull
  <2>4. Len(term'.inbox) = 1
    BY <2>2
  <2>5. MakeOnce(term)'
    BY <2>4 DEF MakeOnce, MakeAt
  <2> QED  BY <1>0, <2>1, <2>3, <2>5 DEF OneCall, Idle
<1>4. CASE PressHangup \/ PressAnswer
  <2>1. jni' = jni /\ ptt' = ptt
        /\ (term' = hangupPressed(term) \/ term' = answerPressed(term))
    BY <1>4 DEF PressHangup, PressAnswer, Main
  <2> QED  BY <1>0, <2>1, HangupPressed, AnswerPressed, QuietIsTame, TameStep
<1>5. CASE LeaveScreen
  <2>1. jni' = jni /\ ptt' = ptt
    BY <1>5 DEF LeaveScreen
  <2> QED  BY <1>0, <1>5, <2>1, LeaveScreenGood, QuietIsTame, TameStep
<1>6. CASE ReturnToCall
  <2>1. jni' = jni /\ ptt' = ptt
    BY <1>6 DEF ReturnToCall, Main
  <2> QED  BY <1>0, <1>6, <2>1, ReturnToCallGood, QuietIsTame, TameStep
<1>7. CASE SwitchToPtt
  <2>1. jni' = jni /\ ptt' = ptt
    BY <1>7 DEF SwitchToPtt, Main
  <2> QED  BY <1>0, <1>7, <2>1, SwitchToPttGood, QuietIsTame, TameStep
<1>8. CASE RefuseSwitch
  <2>1. jni' = jni /\ ptt' = ptt
    BY <1>8 DEF RefuseSwitch, Main
  <2> QED  BY <1>0, <1>8, <2>1, RefuseSwitchGood, QuietIsTame, TameStep
<1>9. CASE Reregister
  <2>1. jni' = jni /\ ptt' = ptt
    BY <1>9 DEF Reregister
  <2> QED  BY <1>0, <1>9, <2>1, ReregisterGood, QuietIsTame, TameStep
<1>10. CASE PttSide
  BY <1>0, <1>10 DEF PttSide, Spend
<1> QED  BY <1>1, <1>2, <1>3, <1>4, <1>5, <1>6, <1>7, <1>8, <1>9, <1>10 DEF UserNext

\* The worker thread's steps.
LEMMA WorkerStep ==
  ASSUME Apart, OneCall, Inv', WorkerNext
  PROVE  OneCall'
<1>0. Good(term) /\ Alone(term) /\ ~ptt /\ MakeOnce(term)
  BY InvIsGood DEF OneCall
<1>1. CASE Incoming
  <2> DEFINE a == alloc_call_id(term)[1]
  <2>1. /\ AllNull(term) /\ MakeAt(term) = {} /\ jni' = Idle /\ ptt' = ptt
    <3>1. Free(term) = CallIds /\ term.inbox = <<>> /\ MainFree
      BY <1>1 DEF Incoming, MayStart
    <3> QED  BY <1>1, <3>1 DEF Incoming, Callback, Free, AllNull, MakeAt, MainFree
  <2>2. /\ a \in CallIds /\ term'.calls = [term.calls EXCEPT ![a] = "incoming"]
        /\ term'.cur = IF term.cur = NoCall THEN a ELSE term.cur
        /\ MakeAt(term') = MakeAt(term)
    BY <1>0, <1>1, IncomingGood
  <2> HIDE DEF a
  <2>3. term.cur = NoCall
    BY <1>0, <2>1 DEF Alone, AllNull, Good, Terminal
  <2>4. /\ term'.cur = a /\ term'.calls[a] = "incoming"
        /\ \A d \in CallIds \ {a} : term'.calls[d] = "null"
    BY <1>0, <2>1, <2>2, <2>3 DEF AllNull, Good, Terminal
  <2>5. Alone(term)' /\ MakeAt(term)' = {}
    BY <2>1, <2>2, <2>4 DEF Alone, MakeAt
  <2> QED  BY <1>0, <2>1, <2>5 DEF OneCall, MakeOnce, Idle
<1>2. ASSUME NEW c \in CallIds, Confirmed(c) PROVE OneCall'
  <2>1. jni' = jni /\ ptt' = ptt /\ term.calls[c] \notin {"null", "incoming"}
    BY <1>2 DEF Confirmed, Callback
  <2>2. /\ term'.calls = [term.calls EXCEPT ![c] = Answered(term.calls[c])]
        /\ Answered(term.calls[c]) \in {"confirmed", "crossed", "ending"}
        /\ term'.cur = IF term.cur = NoCall THEN c ELSE term.cur
        /\ MakeAt(term') = MakeAt(term)
        /\ term'.tone => term.tone
    BY <1>0, <1>2, ConfirmedGood
  <2>3. term.cur = c /\ ~term.tone
    BY <1>0, <2>1 DEF Alone
  <2>4. /\ term'.calls[c] \in {"confirmed", "crossed", "ending"} /\ term'.cur = c /\ ~term'.tone
        /\ \A d \in CallIds \ {c} : term'.calls[d] = "null"
    BY <1>0, <2>2, <2>3 DEF Alone, Good, Terminal
  <2>5. Tame(term', term)
    BY <2>1, <2>2, <2>4 DEF Tame, Alone, AllNull
  <2> QED  BY <1>0, <2>1, <2>5, TameStep
<1>3. ASSUME NEW c \in CallIds, Disconnected(c) PROVE OneCall'
  <2>1. PICK code \in EndCodes(term.calls[c]) : term' = disconnect(term, c, code)
    BY <1>3 DEF Disconnected, Callback
  <2>2. jni' = jni /\ ptt' = ptt /\ term.calls[c] # "null"
    BY <1>3 DEF Disconnected, Callback
  <2>3. code = "487" \/ term.calls[c] # "incoming"
    BY <2>1 DEF EndCodes
  <2>4. Tame(term', term)
    BY <1>0, <2>1, <2>2, <2>3, DisconnectIsTame
  <2> QED  BY <1>0, <2>2, <2>4, TameStep
<1>4. ASSUME NEW c \in CallIds, CallTimeout(c) PROVE OneCall'
  <2> DEFINE v == showCallState(term, c, "ENDED", "504")
  <2>1. jni' = jni /\ ptt' = ptt
    BY <1>4 DEF CallTimeout, Callback
  <2>2. CASE term' = term
    <3>1. Quiet(term', term)
      BY <2>2 DEF Quiet
    <3> QED  BY <1>0, <2>1, <3>1, QuietIsTame, TameStep
  <2>3. CASE term' = hangup(v, c) /\ Good(v) /\ Quiet(v, term)
    <3> HIDE DEF v
    <3>1. Tame(v, term)
      BY <1>0, <2>3, QuietIsTame
    <3>2. Tame(term', v)
      BY <1>0, <2>3, <3>1, HangupIsTame DEF Tame
    <3> QED  BY <1>0, <2>1, <3>1, <3>2, TameTransitive, TameStep
  <2> QED  BY <1>0, <1>4, <2>2, <2>3, CallTimeoutGood
<1>5. CASE Unregistered
  <2>1. jni' = jni /\ ptt' = ptt
    BY <1>5 DEF Unregistered, Registration
  <2> QED  BY <1>0, <1>5, <2>1, UnregisteredGood, QuietIsTame, TameStep
<1>6. CASE RegisterError
  <2>1. jni' = jni /\ ptt' = ptt
    BY <1>6 DEF RegisterError, Registration
  <2>2. CASE term' = term
    <3>1. Quiet(term', term)
      BY <2>2 DEF Quiet
    <3> QED  BY <1>0, <2>1, <3>1, QuietIsTame, TameStep
  <2>3. ASSUME NEW w, NEW v, Good(w), Quiet(w, term), w.id \in CallIds,
               v = hangup(w, w.id) \/ Quiet(v, w), Good(v), Quiet(term', v)
        PROVE  OneCall'
    <3>1. Tame(w, term)
      BY <1>0, <2>3, QuietIsTame
    <3>2. Tame(v, w)
      BY <1>0, <2>3, <3>1, QuietIsTame, HangupIsTame DEF Tame
    <3>3. Tame(term', v)
      BY <2>3, <3>2, QuietIsTame DEF Tame
    <3>4. Tame(term', term)
      BY <3>1, <3>2, <3>3, TameTransitive
    <3> QED  BY <1>0, <2>1, <3>4, TameStep
  <2> QED  BY <1>0, <1>6, <2>2, <2>3, RegisterErrorGood
<1>7. CASE Registered
  <2>1. jni' = jni /\ ptt' = ptt /\ term' = term
    BY <1>7 DEF Registered, Registration
  <2>2. Quiet(term', term)
    BY <2>1 DEF Quiet
  <2> QED  BY <1>0, <2>1, <2>2, QuietIsTame, TameStep
<1>8. CASE GroupTalk
  <2>1. jni' = jni /\ ptt' = ptt
    BY <1>8 DEF GroupTalk, Callback
  <2> QED  BY <1>0, <1>8, <2>1, GroupTalkGood, QuietIsTame, TameStep
<1> QED  BY <1>1, <1>2, <1>3, <1>4, <1>5, <1>6, <1>7, <1>8 DEF WorkerNext

LEMMA InitOneCall == Init => OneCall
<1> SUFFICES ASSUME Init PROVE OneCall
  OBVIOUS
<1>1. Inv
  BY InitInv
<1>2. /\ term.calls = [c \in CallIds |-> "null"] /\ term.cur = NoCall
      /\ term.tone = FALSE /\ term.inbox = <<>>
  BY DEF Init
<1>3. Alone(term) /\ MakeAt(term) = {}
  BY <1>2 DEF Alone, MakeAt
<1> QED  BY <1>1, <1>3 DEF OneCall, MakeOnce, Init, Idle

LEMMA NextOneCall ==
  ASSUME Apart, "ptt" \notin Events, OneCall, [Next]_vars
  PROVE  OneCall'
<1>1. Inv'
  BY NextInv DEF OneCall
<1>2. CASE UNCHANGED vars
  BY <1>1, <1>2 DEF OneCall, vars, Alone, AllNull, MakeAt, MakeOnce
<1> QED  BY <1>1, <1>2, MainStep, UserStep, WorkerStep DEF Next

\* Calls that come one after the other, while the PTT side is idle: whatever
\* clears the call, closes its screen or takes the registration away, the
\* ringtone never outlives the call it plays for.
THEOREM RingForWaitingCall ==
  ASSUME Apart, "ptt" \notin Events
  PROVE  Safety => []RingHasCall
<1>1. OneCall /\ [Next]_vars => OneCall'
  BY NextOneCall
<1>2. OneCall => RingHasCall
  BY DEF OneCall, Alone, RingHasCall
<1> QED  BY InitOneCall, <1>1, <1>2, PTL DEF Safety

=============================================================================
