----------------------- MODULE SingleCallKept_proofs -----------------------
(***************************************************************************)
(* Calls one after the other, with nothing that clears CallStateManager    *)
(* behind the back of a call: the call that is up is the one the terminal  *)
(* keeps, for a call table of any size and any number of calls.            *)
(***************************************************************************)
EXTENDS SingleCall_proofs

\* The places where a message waits.
At(w, m) == {i \in 1 .. Len(w.inbox) : w.inbox[i] = m}

Queued(w, m) == At(w, m) # {}

Once(w, m) == \A i, k \in At(w, m) : i = k

Commands == {"HANGUP", "ANSWER", "MAKE", "PTT"}

\* An operation that posts no command and takes none.
SameCommands(v, w) ==
    \A m \in Commands : (Queued(v, m) <=> Queued(w, m)) /\ (Once(w, m) => Once(v, m))

NoLive(w) == \A c \in CallIds : ~Live(w, c)

NoCommand(w, j) ==
    j = Idle /\ ~Queued(w, "HANGUP") /\ ~Queued(w, "ANSWER") /\ ~Queued(w, "MAKE")

(***************************************************************************)
(* The inductive invariant.  Followed is the property itself; Asked says   *)
(* that a request that is on its way is about the call that is up, that a  *)
(* call the screen shows as hung up is being hung up, and that an answer   *)
(* meets a call that still waits for it; Rings that a call shown as        *)
(* ringing waits; Button that the answer button belongs to such a call or  *)
(* is about to go; Orderly that no second answer is on its way.            *)
(***************************************************************************)
Followed(w) ==
    \A c \in CallIds : Live(w, c) => w.id = c /\ w.state \notin {"IDLE", "ENDED"}

Asked(w, j) ==
    \A c \in CallIds : Live(w, c) =>
        /\ j.call \in {"hangup", "answer"} => j.id = c
        /\ w.state \in {"ENDING", "CANCELING", "REJECTING"}
              => Queued(w, "HANGUP") \/ j.call = "hangup"
        /\ Queued(w, "ANSWER") \/ j.call = "answer" => w.calls[c] = "incoming"

Rings(w, j) ==
    w.state = "RINGING" => /\ \E c \in CallIds : w.calls[c] = "incoming"
                           /\ NoCommand(w, j)

Dressed(w) == w.answerBtn => w.inst = "shown" /\ w.shown # "none"

Button(w, j) ==
    w.answerBtn =>
        /\ NoCommand(w, j)
        /\ \/ w.state = "RINGING"
           \/ w.state = "ENDED" /\ Queued(w, "STATE") /\ AllNull(w)

Orderly(w, j) ==
    /\ ~w.dialog /\ ~Queued(w, "PTT")
    /\ Once(w, "ANSWER")
    /\ j.call = "answer" => ~Queued(w, "ANSWER")
    /\ Queued(w, "MAKE") \/ j.call \in {"pad", "book"} => ~Queued(w, "ANSWER")

Kept(w, j) ==
    Followed(w) /\ Asked(w, j) /\ Rings(w, j) /\ Dressed(w) /\ Button(w, j) /\ Orderly(w, j)

-----------------------------------------------------------------------------
(* The queue *)

LEMMA PostQueue ==
  ASSUME NEW w, Good(w), NEW k \in Messages, NEW m \in Messages
  PROVE  /\ Queued(post(w, k), m) <=> Queued(w, m) \/ m = k
         /\ Once(w, m) /\ (m # k \/ ~Queued(w, m)) => Once(post(w, k), m)
<1> DEFINE q == w.inbox
           v == post(w, k)
           n == Len(q)
<1>1. q \in Seq(Messages) /\ n \in Nat
  BY DEF Good, Terminal
<1>2. v.inbox = Append(q, k)
  BY DEF Good, Terminal, post
<1> HIDE DEF q, v
<1>3. /\ Len(v.inbox) = n + 1 /\ v.inbox[n + 1] = k
      /\ \A i \in 1 .. n : v.inbox[i] = q[i]
  BY <1>1, <1>2
<1> HIDE DEF n
<1>4. At(v, m) = IF m = k THEN At(w, m) \cup {n + 1} ELSE At(w, m)
  <2>1. At(w, m) = {i \in 1 .. n : q[i] = m}
    BY DEF At, q, n
  <2>2. At(v, m) = {i \in 1 .. n + 1 : v.inbox[i] = m}
    BY <1>3 DEF At
  <2> QED  BY <2>1, <2>2, <1>1, <1>3
<1> QED  BY <1>4 DEF Queued, Once, v

LEMMA PostSame ==
  ASSUME NEW w, Good(w), NEW k \in {"OPEN", "STATE"}
  PROVE  /\ SameCommands(post(w, k), w)
         /\ Queued(w, "STATE") \/ k = "STATE" => Queued(post(w, k), "STATE")
  BY PostQueue DEF SameCommands, Commands, Messages

LEMMA SameInbox ==
  ASSUME NEW v, NEW w, v.inbox = w.inbox
  PROVE  /\ SameCommands(v, w)
         /\ \A m : (Queued(v, m) <=> Queued(w, m)) /\ (Once(v, m) <=> Once(w, m))
  BY DEF SameCommands, Queued, Once, At

LEMMA SameTransitive ==
  ASSUME NEW u, NEW v, NEW w, SameCommands(u, v), SameCommands(v, w)
  PROVE  SameCommands(u, w)
  BY DEF SameCommands

\* The message the main thread takes is gone, once it was there once.
LEMMA PoppedQueue ==
  ASSUME Good(term), NEW h, Receive(h), NEW m \in Messages
  PROVE  /\ Queued(popped, m) => Queued(term, m)
         /\ Queued(term, h)
         /\ m # h /\ Queued(term, m) => Queued(popped, m)
         /\ Once(term, m) => Once(popped, m) /\ (m = h => ~Queued(popped, m))
<1> DEFINE q == term.inbox
           n == Len(q)
<1>1. q \in Seq(Messages) /\ q # <<>> /\ Head(q) = h
  BY DEF Good, Terminal, Receive
<1>2. popped.inbox = Tail(q)
  BY <1>1, Popped
<1> HIDE DEF q
<1>3. /\ n \in Nat \ {0} /\ q[1] = h /\ Len(Tail(q)) = n - 1
      /\ \A i \in 1 .. n - 1 : Tail(q)[i] = q[i + 1]
  BY <1>1
<1> HIDE DEF n
<1>4. \A x : At(term, x) = {i \in 1 .. n : q[i] = x}
  BY DEF At, q, n
<1>5. At(popped, m) = {i \in 1 .. n - 1 : q[i + 1] = m}
  BY <1>2, <1>3 DEF At
<1>6. \A i \in At(popped, m) : i \in Nat \ {0} /\ i + 1 \in At(term, m)
  BY <1>3, <1>4, <1>5
<1>7. 1 \in At(term, h)
  BY <1>3, <1>4
<1>8. ASSUME m # h, NEW i \in At(term, m)
      PROVE  i - 1 \in At(popped, m)
  BY <1>3, <1>4, <1>5, <1>8
<1>9. ASSUME Once(term, m), m = h, NEW i \in At(popped, m) PROVE FALSE
  BY <1>6, <1>7, <1>9 DEF Once
<1>10. Once(term, m) => Once(popped, m)
  BY <1>6 DEF Once
<1> QED  BY <1>6, <1>7, <1>8, <1>9, <1>10 DEF Queued

LEMMA PoppedSame ==
  ASSUME Good(term), NEW h \in {"OPEN", "STATE"}, Receive(h)
  PROVE  SameCommands(popped, term)
  BY PoppedQueue DEF SameCommands, Commands, Messages

-----------------------------------------------------------------------------
(* What the operations do to the call that is kept *)

\* The call kept and the commands stay.
SameCall(v, w) ==
    v.calls = w.calls /\ v.id = w.id /\ v.state = w.state /\ SameCommands(v, w)

SameScreen(v, w) ==
    /\ v.answerBtn = w.answerBtn /\ v.dialog = w.dialog
    /\ v.inst = w.inst /\ v.shown = w.shown

LEMMA PoppedFields ==
  ASSUME Good(term), NEW h, Receive(h)
  PROVE  /\ Good(popped) /\ SameScreen(popped, term)
         /\ popped.calls = term.calls /\ popped.id = term.id /\ popped.state = term.state
<1>1. Good(popped)
  BY Popped DEF Receive
<1> QED  BY <1>1 DEF Good, Terminal, popped, SameScreen

\* finish() and closeCallUI() take the button and the question away.
LEMMA FinishFields ==
  ASSUME NEW w, Good(w), Dressed(w)
  PROVE  LET u == finish(w)
         IN  /\ Good(u) /\ SameCall(u, w) /\ u.inbox = w.inbox
             /\ ~u.answerBtn /\ (~w.dialog => ~u.dialog)
<1> DEFINE u == finish(w)
<1>1. CASE w.shown = "none"
  BY <1>1, SameInbox DEF finish, SameCall, Dressed, Good, Terminal
<1>2. CASE w.shown # "none"
  <2>1. Good(u)
    BY Finish
  <2>2. /\ u.calls = w.calls /\ u.id = w.id /\ u.state = w.state
        /\ u.inbox = w.inbox /\ ~u.answerBtn /\ ~u.dialog
    BY <1>2 DEF finish, Good, Terminal
  <2> HIDE DEF u
  <2> QED  BY <2>1, <2>2, SameInbox DEF SameCall, u
<1> QED  BY <1>1, <1>2

LEMMA CloseFields ==
  ASSUME NEW w, Good(w), Dressed(w)
  PROVE  LET u == closeCallUI(w)
         IN  /\ Good(u) /\ SameCall(u, w) /\ u.inbox = w.inbox
             /\ ~u.answerBtn /\ (~w.dialog => ~u.dialog)
<1>1. CASE w.inst = "shown"
  <2>1. closeCallUI(w) = finish(w)
    BY <1>1 DEF closeCallUI
  <2> QED  BY <2>1, FinishFields
<1>2. CASE w.inst # "shown"
  <2>1. closeCallUI(w) = w /\ ~w.answerBtn
    BY <1>2 DEF closeCallUI, Dressed
  <2> QED  BY <2>1, SameInbox DEF SameCall
<1> QED  BY <1>1, <1>2

LEMMA ClearFields ==
  ASSUME NEW w, Good(w)
  PROVE  LET u == clear(w)
         IN  /\ Good(u) /\ u.calls = w.calls /\ u.inbox = w.inbox
             /\ u.state = "IDLE" /\ SameScreen(u, w)
<1>1. Good(clear(w))
  BY Clear
<1> QED  BY <1>1 DEF clear, Good, Terminal, SameScreen

LEMMA RefusedFields ==
  ASSUME NEW w, Good(w), Dressed(w)
  PROVE  LET u == Refused(w)
         IN  /\ Good(u) /\ u.calls = w.calls /\ u.inbox = w.inbox
             /\ u.state = "IDLE" /\ Dressed(u)
             /\ (u.answerBtn => w.answerBtn) /\ (~w.dialog => ~u.dialog)
<1> DEFINE v == clear(w)
           u == Refused(w)
<1>1. /\ Good(v) /\ v.calls = w.calls /\ v.inbox = w.inbox
      /\ v.state = "IDLE" /\ SameScreen(v, w)
  BY ClearFields
<1>2. u = v \/ u = closeCallUI(v)
  BY DEF Refused
<1> HIDE DEF v
<1>3. Dressed(v)
  BY <1>1 DEF Dressed, SameScreen
<1>4. CASE u = v
  BY <1>1, <1>3, <1>4 DEF SameScreen
<1>5. CASE u = closeCallUI(v)
  <2>1. LET x == closeCallUI(v)
        IN  /\ Good(x) /\ SameCall(x, v) /\ x.inbox = v.inbox
            /\ ~x.answerBtn /\ (~v.dialog => ~x.dialog)
    BY <1>1, <1>3, CloseFields
  <2>2. /\ Good(u) /\ SameCall(u, v) /\ u.inbox = v.inbox
        /\ ~u.answerBtn /\ (~v.dialog => ~u.dialog)
    BY <1>5, <2>1
  <2> HIDE DEF u
  <2> QED  BY <1>1, <2>2 DEF SameCall, SameScreen, Dressed, u
<1> QED  BY <1>2, <1>4, <1>5

\* A report that is taken: s of call c.
Taken(u, w, c, s) ==
    /\ Good(u) /\ SameScreen(u, w) /\ SameCommands(u, w)
    /\ u.calls = w.calls /\ u.cur = w.cur /\ u.id = c
    /\ s # "ENDED" => u.state = s
    /\ s = "ENDED" => /\ u.state \in {"IDLE", "ENDED"}
                      /\ w.inst # "none" => u.state = "ENDED"
                      /\ Queued(u, "STATE")

LEMMA Reported ==
  ASSUME NEW w, Good(w), NEW c \in CallIds,
         NEW s \in {"RINGING", "DIALING", "TALKING", "ENDED"}
  PROVE  Taken(JNIUpdateCallState(w, c, s), w, c, s)
<1> DEFINE v == setCurrentCallState(w, c, s)
           e == endRing(v, s)
           u == JNIUpdateCallState(w, c, s)
           Like(x, y) == /\ Good(x) /\ SameScreen(x, y) /\ x.calls = y.calls
                         /\ x.cur = y.cur /\ x.id = c
<1>0. s \in CallStates /\ "IDLE" \in CallStates
  BY DEF CallStates
<1>1. Like(v, w) /\ v.inbox = w.inbox /\ v.state = s
  <2>1. Good(v)
    BY <1>0, SetCurrentCallState
  <2> QED  BY <2>1 DEF setCurrentCallState, Good, Terminal, SameScreen
<1>2. Like(e, w) /\ e.inbox = w.inbox /\ e.state = s
  <2>1. Good(e)
    BY <1>1, EndRing
  <2> HIDE DEF v
  <2>2. e = v \/ e = [v EXCEPT !.tone = FALSE, !.ring = FALSE]
    BY <1>1 DEF endRing, stopRingtone, Good, Terminal
  <2>3. /\ SameScreen(e, v) /\ e.calls = v.calls /\ e.cur = v.cur /\ e.id = v.id
        /\ e.inbox = v.inbox /\ e.state = v.state
    BY <2>2, <1>1 DEF Good, Terminal, SameScreen
  <2> QED  BY <1>1, <2>1, <2>3 DEF SameScreen
<1>3. ASSUME NEW x, Like(x, w), x.inbox = w.inbox, NEW k \in {"OPEN", "STATE"}
      PROVE  /\ Like(post(x, k), w) /\ SameCommands(post(x, k), w)
             /\ post(x, k).state = x.state
             /\ k = "STATE" => Queued(post(x, k), "STATE")
  <2>1. /\ Good(post(x, k)) /\ SameCommands(post(x, k), x)
        /\ k = "STATE" => Queued(post(x, k), "STATE")
    BY <1>3, PostGood, PostSame DEF Messages
  <2>2. SameCommands(x, w)
    BY <1>3, SameInbox
  <2>3. /\ SameScreen(post(x, k), x) /\ post(x, k).calls = x.calls
        /\ post(x, k).cur = x.cur /\ post(x, k).id = x.id /\ post(x, k).state = x.state
    BY <1>3 DEF post, Good, Terminal, SameScreen
  <2> QED  BY <1>3, <2>1, <2>2, <2>3, SameTransitive DEF SameScreen
<1> HIDE DEF v, e, Like
<1>4. CASE s = "RINGING"
  <2> DEFINE r == [v EXCEPT !.ring = TRUE, !.tone = TRUE]
  <2>1. u = post(r, "OPEN")
    BY <1>4 DEF JNIUpdateCallState, v
  <2>2. Like(r, w) /\ r.inbox = w.inbox /\ r.state = s
    BY <1>1 DEF Good, Terminal, Like, SameScreen
  <2> HIDE DEF r
  <2> QED  BY <1>3, <1>4, <2>1, <2>2 DEF Like, Taken
<1>5. CASE s = "DIALING"
  <2>1. u = v \/ u = post(v, "OPEN")
    BY <1>5 DEF JNIUpdateCallState, v
  <2>2. SameCommands(v, w)
    BY <1>1, SameInbox
  <2> QED  BY <1>1, <1>3, <1>5, <2>1, <2>2 DEF Like, Taken
<1>6. CASE s = "TALKING"
  <2>1. u = post(e, "STATE") \/ u = post(e, "OPEN")
    BY <1>6 DEF JNIUpdateCallState, v, e
  <2> QED  BY <1>2, <1>3, <1>6, <2>1 DEF Like, Taken
<1>7. CASE s = "ENDED"
  <2> DEFINE i == setCurrentCallState(e, c, "IDLE")
             x == IF w.inst = "none" THEN i ELSE e
  <2>1. u = post(x, "STATE")
    BY <1>7 DEF JNIUpdateCallState, v, e
  <2>2. Good(i)
    BY <1>0, <1>2, SetCurrentCallState DEF Like
  <2>3. Like(i, w) /\ i.inbox = w.inbox /\ i.state = "IDLE"
    BY <1>2, <2>2 DEF setCurrentCallState, Good, Terminal, SameScreen, Like
  <2> HIDE DEF i
  <2>4. /\ Like(x, w) /\ x.inbox = w.inbox
        /\ x.state = IF w.inst = "none" THEN "IDLE" ELSE s
    BY <1>2, <2>3
  <2> HIDE DEF x
  <2> QED  BY <1>3, <1>7, <2>1, <2>4 DEF Like, Taken
<1> QED  BY <1>4, <1>5, <1>6, <1>7

-----------------------------------------------------------------------------
(* What keeps the invariant *)

\* The same call, with the same commands; the button may go, or belong to a
\* call that rings.
LEMMA SameKept ==
  ASSUME NEW v, NEW w, NEW j, Kept(w, j), SameCall(v, w), ~v.dialog,
         v.answerBtn => /\ v.inst = "shown" /\ v.shown # "none"
                        /\ \/ v.state = "RINGING"
                           \/ w.answerBtn /\ (Queued(w, "STATE") => Queued(v, "STATE"))
  PROVE  Kept(v, j)
<1>1. /\ v.calls = w.calls /\ v.id = w.id /\ v.state = w.state
      /\ \A m \in Commands : Queued(v, m) <=> Queued(w, m)
      /\ Once(w, "ANSWER") => Once(v, "ANSWER")
  BY DEF SameCall, SameCommands, Commands
<1>2. Followed(v)
  BY <1>1 DEF Kept, Followed, Live
<1>3. Asked(v, j)
  BY <1>1 DEF Kept, Asked, Live, Commands
<1>4. NoCommand(w, j) => NoCommand(v, j)
  BY <1>1 DEF NoCommand, Commands
<1>5. Rings(v, j)
  BY <1>1, <1>4 DEF Kept, Rings
<1>6. Dressed(v)
  BY DEF Dressed
<1>7. Button(v, j)
  BY <1>1, <1>4, <1>5 DEF Kept, Button, Rings, AllNull
<1>8. Orderly(v, j)
  BY <1>1 DEF Kept, Orderly, Commands
<1> QED  BY <1>2, <1>3, <1>5, <1>6, <1>7, <1>8 DEF Kept

\* No call is up, none is shown as ringing, and there is no button.
LEMMA DeadKept ==
  ASSUME NEW w, NEW j, NoLive(w), w.state # "RINGING", ~w.answerBtn, Orderly(w, j)
  PROVE  Kept(w, j)
  BY DEF Kept, NoLive, Followed, Asked, Rings, Dressed, Button

LEMMA OrderlySame ==
  ASSUME NEW v, NEW w, NEW j, Orderly(w, j), SameCommands(v, w), ~v.dialog
  PROVE  Orderly(v, j)
  BY DEF Orderly, SameCommands, Commands

\* A request that was answered leaves nothing to wait for.
LEMMA OrderlyIdle ==
  ASSUME NEW w, NEW j, Orderly(w, j)
  PROVE  Orderly(w, Idle)
  BY DEF Orderly, Idle

LEMMA IdleKept ==
  ASSUME NEW w, NEW j, Kept(w, j), NoLive(w)
  PROVE  Kept(w, Idle)
<1>1. Orderly(w, Idle)
  BY OrderlyIdle DEF Kept
<1> QED  BY <1>1 DEF Kept, NoLive, Followed, Asked, Rings, Button, NoCommand

\* A call that is up and no longer waits, or a request that is on its way:
\* nothing is shown as ringing, and there is no button.
LEMMA NoButton ==
  ASSUME NEW w, NEW j, Kept(w, j), Alone(w),
         \/ ~NoCommand(w, j)
         \/ \E c \in CallIds : w.calls[c] \notin {"null", "incoming"}
  PROVE  w.state # "RINGING" /\ ~w.answerBtn
<1>1. CASE ~NoCommand(w, j)
  BY <1>1 DEF Kept, Rings, Button
<1>2. CASE \E c \in CallIds : w.calls[c] \notin {"null", "incoming"}
  <2>1. \A c \in CallIds : w.calls[c] # "incoming"
    BY <1>2 DEF Alone
  <2>2. ~AllNull(w)
    BY <1>2 DEF AllNull
  <2> QED  BY <2>1, <2>2 DEF Kept, Rings, Button
<1> QED  BY <1>1, <1>2

\* The same where no call is left and the queue is empty.
LEMMA AtRest ==
  ASSUME NEW w, NEW j, Kept(w, j), AllNull(w), w.inbox = <<>>
  PROVE  w.state # "RINGING" /\ ~w.answerBtn /\ \A m : ~Queued(w, m) /\ Once(w, m)
<1>1. Len(w.inbox) = 0
  OBVIOUS
<1>2. \A m : ~Queued(w, m) /\ Once(w, m)
  BY <1>1 DEF Queued, Once, At
<1> QED  BY <1>2 DEF Kept, Rings, Button, AllNull

\* The end of the only call.  The report is not taken only when the call was
\* being refused already.
LEMMA DisconnectKept ==
  ASSUME NEW w, NEW j, Good(w), Alone(w), ~ptt, Kept(w, j),
         NEW c \in CallIds, w.calls[c] # "null", NEW code,
         code = "486" \/ code \in EndCodes(w.calls[c])
  PROVE  Kept(disconnect(w, c, code), j) /\ NoLive(disconnect(w, c, code))
<1> DEFINE f == [w.calls EXCEPT ![c] = "null"]
           v == [w EXCEPT !.calls = f, !.cur = NoCall]
           u == disconnect(w, c, code)
<1>1. w.cur = c /\ \A d \in CallIds \ {w.cur} : w.calls[d] = "null"
  BY DEF Alone
<1>2. find_next_call(w) = NoCall
  BY <1>1, FindNextCall
<1>3. f \in [CallIds -> NativeStates] /\ \A d \in CallIds : f[d] = "null"
  BY <1>1 DEF Good, Terminal, NativeStates
<1>4. v \in Terminal /\ v.calls = f /\ v.cur = NoCall /\ v.inbox = w.inbox
      /\ v.id = w.id /\ v.state = w.state /\ SameScreen(v, w)
      /\ v.tone = w.tone /\ v.ring = w.ring
  <2> HIDE DEF f
  <2> QED  BY <1>3 DEF Good, Terminal, SameScreen
<1>5. u = showCallState(v, c, "ENDED", code)
  BY <1>1, <1>2, <1>4 DEF disconnect
<1> HIDE DEF f, v, u
<1>6. Good(v) /\ AllNull(v) /\ SameCommands(v, w)
  BY <1>3, <1>4, SameInbox DEF Good, AllNull
<1>7. Orderly(v, j) /\ Dressed(v)
  BY <1>4, <1>6, OrderlySame DEF Kept, Orderly, Dressed, SameScreen
<1>8. CASE u = JNIUpdateCallState(v, c, "ENDED")
  <2>1. /\ Good(u) /\ SameScreen(u, v) /\ SameCommands(u, v)
        /\ u.calls = v.calls
        /\ u.state \in {"IDLE", "ENDED"} /\ (v.inst # "none" => u.state = "ENDED")
        /\ Queued(u, "STATE")
    <3>1. Taken(u, v, c, "ENDED")
      BY <1>6, <1>8, Reported
    <3> QED  BY <3>1 DEF Taken
  <2>2. NoLive(u) /\ AllNull(u)
    BY <1>6, <2>1 DEF NoLive, Live, AllNull
  <2>3. ~u.dialog
    BY <1>7, <2>1 DEF SameScreen, Orderly
  <2>4. Orderly(u, j)
    BY <1>7, <2>1, <2>3, OrderlySame
  <2>5. Dressed(u)
    BY <1>7, <2>1 DEF Dressed, SameScreen
  <2>6. Button(u, j)
    <3>1. SUFFICES ASSUME u.answerBtn
                   PROVE  NoCommand(u, j) /\ u.state = "ENDED"
      BY <2>1, <2>2 DEF Button
    <3>2. u.inst = "shown" /\ v.inst = u.inst /\ w.answerBtn
      BY <3>1, <2>5, <2>1, <1>4 DEF Dressed, SameScreen
    <3>3. NoCommand(w, j)
      BY <3>2 DEF Kept, Button
    <3> QED  BY <3>2, <3>3, <2>1, <1>6 DEF NoCommand, SameCommands, Commands
  <2>7. Followed(u) /\ Asked(u, j) /\ Rings(u, j)
    BY <2>1, <2>2 DEF NoLive, Followed, Asked, Rings
  <2> QED  BY <2>2, <2>4, <2>5, <2>6, <2>7 DEF Kept, u
<1>9. CASE u = v /\ v.state \in {"RINGING", "REJECTING"} /\ code = "error"
  <2>1. w.calls[c] # "incoming"
    BY <1>9 DEF EndCodes
  <2>2. w.state # "RINGING" /\ ~w.answerBtn
    BY <2>1, NoButton
  <2>3. NoLive(u)
    BY <1>6, <1>9 DEF NoLive, Live, AllNull
  <2> QED  BY <1>4, <1>7, <1>9, <2>2, <2>3, DeadKept DEF SameScreen, u
<1>10. code # "504"
  BY DEF EndCodes
<1> QED  BY <1>5, <1>8, <1>9, <1>10 DEF showCallState

\* pjsua_call_hangup on the call that is up, if there is one.
LEMMA HangupKept ==
  ASSUME NEW w, NEW j, Good(w), Alone(w), ~ptt, Kept(w, j),
         NEW c \in CallIds, \A d \in CallIds : Live(w, d) => d = c
  PROVE  Kept(hangup(w, c), j) /\ NoLive(hangup(w, c))
<1> DEFINE u == hangup(w, c)
<1>1. CASE w.calls[c] = "incoming"
  <2>1. u = disconnect(w, c, "486")
    BY <1>1 DEF hangup
  <2> QED  BY <1>1, <2>1, DisconnectKept
<1>2. CASE w.calls[c] \in {"calling", "connecting", "confirmed", "crossed"}
  <2>1. PICK s \in {"canceling", "closing", "ending"} : u = [w EXCEPT !.calls = [w.calls EXCEPT ![c] = s]]
    BY <1>2 DEF hangup
  <2> DEFINE f == [w.calls EXCEPT ![c] = s]
  <2>2. f[c] = s /\ \A d \in CallIds \ {c} : f[d] = w.calls[d]
    BY DEF Good, Terminal
  <2>3. u = [w EXCEPT !.calls = f]
    BY <2>1
  <2> HIDE DEF f, u
  <2>4. /\ u.calls = f /\ u.inbox = w.inbox /\ u.state = w.state
        /\ SameScreen(u, w)
    BY <2>3 DEF Good, Terminal, SameScreen
  <2>5. NoLive(u)
    BY <2>2, <2>4 DEF NoLive, Live
  <2>6. w.state # "RINGING" /\ ~w.answerBtn
    BY <1>2, NoButton
  <2>7. Orderly(u, j)
    BY <2>4, SameInbox, OrderlySame DEF Kept, Orderly, SameScreen
  <2> QED  BY <2>4, <2>5, <2>6, <2>7, DeadKept DEF SameScreen, u
<1>3. CASE w.calls[c] \notin {"incoming", "calling", "connecting", "confirmed", "crossed"}
  <2>1. u = w
    BY <1>3 DEF hangup
  <2>2. NoLive(w)
    BY <1>3 DEF NoLive, Live
  <2> QED  BY <2>1, <2>2
<1> QED  BY <1>1, <1>2, <1>3

\* A request the stack refuses, for want of a call: nothing is up.
LEMMA RefusedKept ==
  ASSUME NEW w, NEW j, Good(w), Kept(w, j), NoLive(w), ~w.answerBtn
  PROVE  Kept(Refused(w), Idle)
<1> DEFINE u == Refused(w)
<1>1. /\ u.calls = w.calls /\ u.inbox = w.inbox /\ u.state = "IDLE"
      /\ (u.answerBtn => w.answerBtn) /\ (~w.dialog => ~u.dialog)
  BY RefusedFields DEF Kept
<1> HIDE DEF u
<1>2. NoLive(u)
  BY <1>1 DEF NoLive, Live
<1>3. Orderly(u, j)
  BY <1>1, SameInbox, OrderlySame DEF Kept, Orderly
<1>4. Kept(u, Idle)
  BY <1>1, <1>2, <1>3, OrderlyIdle, DeadKept
<1> QED  BY <1>4 DEF u

-----------------------------------------------------------------------------
(* The main thread *)

Steady == OneCall /\ Kept(term, jni)

LEMMA SteadyFacts ==
  ASSUME Steady
  PROVE  Good(term) /\ Alone(term) /\ ~ptt /\ jni \in Requests /\ Kept(term, jni)
  BY InvIsGood DEF Steady, OneCall, TypeOK

LEMMA OpenScreenKept ==
  ASSUME Steady, OpenScreen
  PROVE  Kept(term', jni')
<1> DEFINE w == onCreate(popped)
           v == [w EXCEPT !.shown = "top"]
<1>0. Good(term) /\ Kept(term, jni) /\ Receive("OPEN") /\ jni' = jni
      /\ term' = onResume(w)
  BY SteadyFacts DEF OpenScreen, Main
<1>1. /\ Good(popped) /\ SameScreen(popped, term) /\ SameCommands(popped, term)
      /\ popped.calls = term.calls /\ popped.id = term.id /\ popped.state = term.state
  BY <1>0, PoppedFields, PoppedSame
<1>2. Good(w)
  BY <1>1, OnCreate
<1>3. /\ w.calls = popped.calls /\ w.id = popped.id /\ w.state = popped.state
      /\ w.inbox = popped.inbox /\ w.dialog = popped.dialog
      /\ \/ w.inst = popped.inst /\ w.answerBtn = popped.answerBtn
         \/ w.inst = "shown" /\ (w.answerBtn => w.state = "RINGING")
  BY <1>1 DEF onCreate, Good, Terminal
<1> HIDE DEF w
<1>4. /\ Good(v) /\ v.shown = "top" /\ v.calls = w.calls /\ v.id = w.id
      /\ v.state = w.state /\ v.inbox = w.inbox /\ v.dialog = w.dialog
      /\ v.inst = w.inst /\ v.answerBtn = w.answerBtn
  BY <1>2 DEF Good, Terminal
<1>5. term' = IF v.state \in {"ENDED", "IDLE"} THEN finish(v) ELSE v
  BY <1>0 DEF onResume
<1> HIDE DEF v
<1>6. SameCommands(v, term)
  <2>1. SameCommands(v, w) /\ SameCommands(w, popped)
    BY <1>3, <1>4, SameInbox
  <2> QED  BY <1>1, <2>1, SameTransitive
<1>7. SameCall(v, term) /\ ~v.dialog
  BY <1>0, <1>1, <1>3, <1>4, <1>6 DEF SameCall, SameScreen, Kept, Orderly
<1>8. v.answerBtn => v.inst = "shown" /\ (v.state = "RINGING" \/ v.state = "ENDED")
  BY <1>0, <1>1, <1>3, <1>4 DEF Kept, Dressed, Button, SameScreen
<1>9. CASE v.state \in {"ENDED", "IDLE"}
  <2>1. Dressed(v)
    BY <1>4, <1>8 DEF Dressed
  <2>2. LET u == finish(v) IN SameCall(u, v) /\ ~u.answerBtn /\ (~v.dialog => ~u.dialog)
    BY <1>4, <2>1, FinishFields
  <2>3. SameCall(term', v) /\ ~term'.answerBtn /\ ~term'.dialog
    BY <1>5, <1>7, <1>9, <2>2
  <2>4. SameCall(term', term)
    BY <1>7, <2>3, SameTransitive DEF SameCall
  <2> QED  BY <1>0, <2>3, <2>4, SameKept
<1>10. CASE v.state \notin {"ENDED", "IDLE"}
  <2>1. term' = v
    BY <1>5, <1>10
  <2>2. Kept(v, jni)
    BY <1>0, <1>4, <1>7, <1>8, <1>10, SameKept
  <2> QED  BY <1>0, <2>1, <2>2
<1> QED  BY <1>9, <1>10

LEMMA StateBroadcastKept ==
  ASSUME Steady, StateBroadcast
  PROVE  Kept(term', jni')
<1>0. /\ Good(term) /\ Kept(term, jni) /\ Receive("STATE") /\ jni' = jni
      /\ term' = IF term.shown = "none" THEN popped ELSE updateCallState(popped)
  BY SteadyFacts DEF StateBroadcast, Main
<1>1. /\ Good(popped) /\ SameScreen(popped, term) /\ SameCommands(popped, term)
      /\ popped.calls = term.calls /\ popped.id = term.id /\ popped.state = term.state
  BY <1>0, PoppedFields, PoppedSame
<1>2. SameCall(popped, term) /\ Dressed(popped) /\ ~popped.dialog
  BY <1>0, <1>1 DEF SameCall, SameScreen, Kept, Orderly, Dressed
<1>3. popped.answerBtn => popped.state \in {"RINGING", "ENDED"}
  BY <1>0, <1>1 DEF SameScreen, Kept, Button
<1>4. CASE term.shown # "none" /\ popped.state = "ENDED"
  <2>1. term' = finish(popped)
    BY <1>0, <1>4 DEF updateCallState
  <2>2. LET u == finish(popped)
        IN  SameCall(u, popped) /\ ~u.answerBtn /\ (~popped.dialog => ~u.dialog)
    BY <1>1, <1>2, FinishFields
  <2>3. SameCall(term', popped) /\ ~term'.answerBtn /\ ~term'.dialog
    BY <1>2, <2>1, <2>2
  <2>4. SameCall(term', term)
    BY <1>2, <2>3, SameTransitive DEF SameCall
  <2> QED  BY <1>0, <2>3, <2>4, SameKept
<1>5. CASE ~(term.shown # "none" /\ popped.state = "ENDED")
  <2>1. term' = popped
    BY <1>0, <1>5 DEF updateCallState
  <2>2. popped.answerBtn => /\ popped.inst = "shown" /\ popped.shown # "none"
                            /\ popped.state = "RINGING"
    BY <1>1, <1>2, <1>3, <1>5 DEF Dressed, SameScreen
  <2>3. Kept(popped, jni)
    BY <1>0, <1>2, <2>2, SameKept
  <2> QED  BY <1>0, <2>1, <2>3
<1> QED  BY <1>4, <1>5

\* COMM_HANGUP_CALL and COMM_ANSWER_CALL read the id of the call that is up.
LEMMA CommandKept ==
  ASSUME Steady, NEW m, NEW call, Command(m, call),
         <<m, call>> \in {<<"HANGUP", "hangup">>, <<"ANSWER", "answer">>}
  PROVE  Kept(term', jni')
<1>0. /\ Good(term) /\ Alone(term) /\ Kept(term, jni) /\ Receive(m)
      /\ jni' = [call |-> call, id |-> term.id] /\ jni.call = "none"
      /\ term' = IF term.ring THEN stopRingtone(popped) ELSE popped
  BY SteadyFacts DEF Command, Receive, MainFree, Idle
<1>1. m \in {"HANGUP", "ANSWER"} /\ (m = "HANGUP" => call = "hangup")
      /\ (m = "ANSWER" => call = "answer")
  OBVIOUS
<1>2. /\ Good(popped) /\ SameScreen(popped, term)
      /\ popped.calls = term.calls /\ popped.id = term.id /\ popped.state = term.state
  BY <1>0, PoppedFields
<1>3. /\ term'.calls = term.calls /\ term'.id = term.id /\ term'.state = term.state
      /\ SameScreen(term', term) /\ term'.inbox = popped.inbox
  BY <1>0, <1>2 DEF stopRingtone, Good, Terminal, SameScreen
<1>4. \A k \in Messages :
        /\ Queued(term', k) => Queued(term, k)
        /\ k # m /\ Queued(term, k) => Queued(term', k)
        /\ Once(term, k) => Once(term', k) /\ (k = m => ~Queued(term', k))
  BY <1>0, <1>3, PoppedQueue, SameInbox
<1>5. Queued(term, m)
  BY <1>0, PoppedQueue DEF Messages
<1>6. term'.state # "RINGING" /\ ~term'.answerBtn
  <2>1. ~NoCommand(term, jni)
    BY <1>1, <1>5 DEF NoCommand
  <2> QED  BY <1>0, <1>3, <2>1, NoButton DEF SameScreen
<1>7. Followed(term')
  BY <1>0, <1>3 DEF Kept, Followed, Live
<1>8. Asked(term', jni')
  <2> SUFFICES ASSUME NEW c \in CallIds, Live(term', c)
               PROVE  /\ jni'.id = c
                      /\ term'.state \in {"ENDING", "CANCELING", "REJECTING"}
                            => Queued(term', "HANGUP") \/ jni'.call = "hangup"
                      /\ Queued(term', "ANSWER") \/ jni'.call = "answer"
                            => term'.calls[c] = "incoming"
    BY DEF Asked
  <2>1. /\ Live(term, c) /\ term.id = c
        /\ term.state \in {"ENDING", "CANCELING", "REJECTING"} => Queued(term, "HANGUP")
        /\ Queued(term, "ANSWER") => term.calls[c] = "incoming"
    BY <1>0, <1>3 DEF Kept, Followed, Asked, Live
  <2> QED  BY <1>0, <1>1, <1>3, <1>4, <1>5, <2>1 DEF Messages
<1>9. Orderly(term', jni')
  <2>1. ~term'.dialog /\ ~Queued(term', "PTT") /\ Once(term', "ANSWER")
    BY <1>0, <1>3, <1>4 DEF Kept, Orderly, SameScreen, Messages
  <2>2. jni'.call = call /\ call \notin {"pad", "book"}
    BY <1>0, <1>1
  <2>3. call = "answer" => ~Queued(term', "ANSWER")
    BY <1>0, <1>1, <1>4 DEF Kept, Orderly, Messages
  <2>4. Queued(term', "MAKE") => ~Queued(term', "ANSWER")
    BY <1>0, <1>4 DEF Kept, Orderly, Messages
  <2> QED  BY <2>1, <2>2, <2>3, <2>4 DEF Orderly
<1> QED  BY <1>6, <1>7, <1>8, <1>9 DEF Kept, Rings, Dressed, Button

LEMMA MakeIsQueued ==
  ASSUME NEW w
  PROVE  Queued(w, "MAKE") <=> MakeAt(w) # {}
  BY DEF Queued, At, MakeAt

LEMMA MakeCommandKept ==
  ASSUME Steady, MakeCommand
  PROVE  Kept(term', jni')
<1>0. /\ Good(term) /\ Alone(term) /\ Kept(term, jni) /\ Receive("MAKE")
      /\ jni' = [call |-> "book", id |-> NoCall]
      /\ term' = [popped EXCEPT !.state = "DIALING", !.num = TRUE]
  BY SteadyFacts DEF MakeCommand
<1>1. Good(popped) /\ SameScreen(popped, term) /\ popped.calls = term.calls
  BY <1>0, PoppedFields
<1>2. /\ term'.calls = term.calls /\ term'.state = "DIALING"
      /\ SameScreen(term', term) /\ term'.inbox = popped.inbox
  BY <1>0, <1>1 DEF Good, Terminal, SameScreen
<1>3. \A k \in Messages : /\ Queued(term', k) => Queued(term, k)
                          /\ Once(term, k) => Once(term', k)
  BY <1>0, <1>2, PoppedQueue, SameInbox
<1>4. Queued(term, "MAKE")
  BY <1>0, PoppedQueue DEF Messages
<1>5. AllNull(term)
  BY <1>4, MakeIsQueued DEF Steady, OneCall
<1>6. NoLive(term')
  BY <1>2, <1>5 DEF NoLive, Live, AllNull
<1>7. ~term'.answerBtn
  <2>1. ~NoCommand(term, jni)
    BY <1>4 DEF NoCommand
  <2> QED  BY <1>0, <1>2, <2>1, NoButton DEF SameScreen
<1>8. Orderly(term', jni')
  BY <1>0, <1>2, <1>3, <1>4 DEF Kept, Orderly, SameScreen, Messages
<1> QED  BY <1>2, <1>6, <1>7, <1>8, DeadKept

LEMMA RequestHangupKept ==
  ASSUME Steady, RequestHangup
  PROVE  Kept(term', jni')
<1>0. /\ Good(term) /\ Alone(term) /\ ~ptt /\ Kept(term, jni) /\ jni' = Idle
      /\ jni.call = "hangup" /\ jni.id \in CallIds
      /\ term' = IF Gone(term, jni.id) THEN Refused(term) ELSE hangup(term, jni.id)
  BY SteadyFacts DEF RequestHangup, Returned, Requests
<1>1. \A d \in CallIds : Live(term, d) => d = jni.id
  BY <1>0 DEF Kept, Asked
<1>2. CASE Gone(term, jni.id)
  <2>1. NoLive(term)
    BY <1>1, <1>2 DEF Gone, NoLive, Live
  <2>2. ~term.answerBtn
    BY <1>0 DEF Kept, Button, NoCommand, Idle
  <2> QED  BY <1>0, <1>2, <2>1, <2>2, RefusedKept
<1>3. CASE ~Gone(term, jni.id)
  <2>1. LET u == hangup(term, jni.id) IN Kept(u, jni) /\ NoLive(u)
    BY <1>0, <1>1, HangupKept
  <2> QED  BY <1>0, <1>3, <2>1, IdleKept
<1> QED  BY <1>2, <1>3

LEMMA RequestAnswerKept ==
  ASSUME Steady, RequestAnswer
  PROVE  Kept(term', jni')
<1> DEFINE c == jni.id
           f == [term.calls EXCEPT ![c] = "connecting"]
<1>0. /\ Good(term) /\ Alone(term) /\ Kept(term, jni) /\ jni' = Idle
      /\ jni.call = "answer" /\ c \in CallIds
      /\ term' = IF CanAnswer(term, c) THEN [term EXCEPT !.calls = f] ELSE Refused(term)
  BY SteadyFacts DEF RequestAnswer, Returned, Requests
<1>1. term.state # "RINGING" /\ ~term.answerBtn
  <2>1. ~NoCommand(term, jni)
    BY <1>0 DEF NoCommand, Idle
  <2> QED  BY <1>0, <2>1, NoButton
<1>2. CASE CanAnswer(term, c)
  <2>1. f[c] = "connecting" /\ \A d \in CallIds \ {c} : f[d] = term.calls[d]
    BY <1>0 DEF Good, Terminal
  <2>2. /\ term'.calls = f /\ term'.id = term.id /\ term'.state = term.state
        /\ term'.inbox = term.inbox /\ SameScreen(term', term)
    <3> HIDE DEF f
    <3> QED  BY <1>0, <1>2 DEF Good, Terminal, SameScreen
  <2> HIDE DEF f, c
  <2>3. \A m : (Queued(term', m) <=> Queued(term, m)) /\ (Once(term', m) <=> Once(term, m))
    BY <2>2, SameInbox
  <2>4. Live(term, c) /\ term.calls[c] = "incoming"
    BY <1>2 DEF CanAnswer, Live
  <2>5. \A d \in CallIds : Live(term', d) => d = c
    BY <1>0, <2>1, <2>2, <2>4 DEF Alone, Live
  <2>6. /\ term.id = c /\ term.state \notin {"IDLE", "ENDED"}
        /\ term.state \in {"ENDING", "CANCELING", "REJECTING"} => Queued(term, "HANGUP")
        /\ ~Queued(term, "ANSWER")
    BY <1>0, <2>4 DEF Kept, Followed, Asked, Orderly
  <2>7. Followed(term') /\ Asked(term', Idle)
    BY <2>2, <2>3, <2>5, <2>6 DEF Followed, Asked, Idle
  <2>8. Orderly(term', Idle)
    BY <1>0, <2>2, <2>3, <2>6 DEF Kept, Orderly, SameScreen
  <2> QED  BY <1>0, <1>1, <2>2, <2>7, <2>8 DEF Kept, Rings, Dressed, Button, SameScreen
<1>3. CASE ~CanAnswer(term, c)
  <2>1. NoLive(term)
    <3> SUFFICES ASSUME NEW d \in CallIds, Live(term, d) PROVE FALSE
      BY DEF NoLive
    <3>1. d = c /\ term.calls[d] = "incoming"
      BY <1>0 DEF Kept, Asked
    <3>2. term.cur = d /\ d # NoCall
      BY <1>0, <3>1, SlotsAssumption DEF Alone, CallIds, NoCall
    <3> QED  BY <1>3, <3>1, <3>2 DEF CanAnswer
  <2> QED  BY <1>0, <1>1, <1>3, <2>1, RefusedKept
<1> QED  BY <1>2, <1>3

LEMMA RequestMakeCallKept ==
  ASSUME Steady, RequestMakeCall
  PROVE  Kept(term', jni')
<1> DEFINE x == [term EXCEPT !.force = TRUE]
<1>0. Good(term) /\ Alone(term) /\ ~ptt /\ Kept(term, jni) /\ jni.call \in {"pad", "book"}
      /\ AllNull(term)
  BY SteadyFacts DEF RequestMakeCall, Steady, OneCall
<1>1. term.state # "RINGING" /\ ~term.answerBtn
  <2>1. ~NoCommand(term, jni)
    BY <1>0 DEF NoCommand, Idle
  <2> QED  BY <1>0, <2>1, NoButton
<1>2. /\ Good(x) /\ x.calls = term.calls /\ x.cur = term.cur /\ x.state = term.state
      /\ x.inbox = term.inbox /\ SameScreen(x, term)
  BY <1>0 DEF Good, Terminal, SameScreen
<1>3. x.cur = NoCall
  BY <1>0, <1>2 DEF Alone, AllNull, Good, Terminal
<1>4. /\ jni' = Idle
      /\ \/ term' \in {term, clear(term), x, clear(x)}
         \/ Free(x) # {} /\ term' = placeCall(x)
  <2>1. dropCurrent(x) = x
    BY <1>3 DEF dropCurrent
  <2> QED  BY <2>1 DEF RequestMakeCall, MakeFailed, Returned
<1> HIDE DEF x
<1>5. ~Queued(term, "ANSWER") /\ Orderly(term, Idle)
  BY <1>0, OrderlyIdle DEF Kept, Orderly
<1>6. ASSUME NEW u, u.calls = term.calls, u.inbox = term.inbox, SameScreen(u, term),
             u.state # "RINGING"
      PROVE  Kept(u, Idle)
  <2>1. NoLive(u) /\ ~u.answerBtn
    BY <1>0, <1>1, <1>6 DEF NoLive, Live, AllNull, SameScreen
  <2>2. ~u.dialog
    BY <1>5, <1>6 DEF SameScreen, Orderly
  <2>3. Orderly(u, Idle)
    BY <1>5, <1>6, <2>2, SameInbox, OrderlySame
  <2> QED  BY <1>6, <2>1, <2>3, DeadKept
<1>7. CASE term' \in {term, clear(term), x, clear(x)}
  <2>1. Kept(term, Idle) /\ Kept(x, Idle)
    BY <1>1, <1>2, <1>6 DEF SameScreen
  <2>2. Kept(clear(term), Idle)
    BY <1>0, <1>6, ClearFields
  <2>3. Kept(clear(x), Idle)
    <3>1. LET u == clear(x) IN u.calls = x.calls /\ u.inbox = x.inbox
                               /\ u.state = "IDLE" /\ SameScreen(u, x)
      BY <1>2, ClearFields
    <3>2. SameScreen(clear(x), term)
      BY <1>2, <3>1 DEF SameScreen
    <3> QED  BY <1>2, <1>6, <3>1, <3>2
  <2> QED  BY <1>4, <1>7, <2>1, <2>2, <2>3
<1>8. CASE Free(x) # {} /\ term' = placeCall(x)
  <2> DEFINE a == alloc_call_id(x)[1]
             n == newCall(x, "calling")
  <2>1. /\ Good(n) /\ a \in CallIds /\ n.calls = [x.calls EXCEPT ![a] = "calling"]
    BY <1>2, <1>8, NewCall DEF NativeStates
  <2>2. n.inbox = x.inbox /\ SameScreen(n, x)
    BY <1>2 DEF newCall, Good, Terminal, SameScreen
  <2>3. term' = JNIUpdateCallState(n, a, "DIALING")
    BY <1>0, <1>8 DEF placeCall, showCallState
  <2> HIDE DEF a, n
  <2>5. /\ SameScreen(term', n) /\ SameCommands(term', n) /\ term'.calls = n.calls
        /\ term'.id = a /\ term'.state = "DIALING"
    <3>1. Taken(term', n, a, "DIALING")
      BY <2>1, <2>3, Reported
    <3> QED  BY <3>1 DEF Taken
  <2>6. SameCommands(n, term)
    BY <1>2, <2>2, SameInbox
  <2>7. ~term'.answerBtn /\ ~term'.dialog
    BY <1>1, <1>2, <1>5, <2>2, <2>5 DEF SameScreen, Orderly
  <2>8. SameCommands(term', term)
    BY <2>5, <2>6, SameTransitive
  <2>9. \A d \in CallIds : Live(term', d) => d = a
    BY <1>0, <1>2, <2>1, <2>5 DEF Live, AllNull, Good, Terminal
  <2>10. ~Queued(term', "ANSWER")
    BY <1>5, <2>8 DEF SameCommands, Commands
  <2>11. Followed(term') /\ Asked(term', Idle)
    BY <2>5, <2>9, <2>10 DEF Followed, Asked, Idle
  <2>12. Orderly(term', Idle)
    BY <1>5, <2>7, <2>8, OrderlySame
  <2> QED  BY <1>4, <2>5, <2>7, <2>11, <2>12 DEF Kept, Rings, Dressed, Button
<1> QED  BY <1>4, <1>7, <1>8

\* Android destroys a screen only when nothing waits, so that a call shown as
\* hung up is hung up by then.
LEMMA OnDestroyKept ==
  ASSUME Steady, onDestroy
  PROVE  Kept(term', jni')
<1> DEFINE w == [term EXCEPT !.fin = term.fin - 1]
           x == clear(w)
<1>0. /\ Good(term) /\ Kept(term, jni) /\ jni' = jni /\ jni = Idle /\ term.inbox = <<>>
      /\ term.fin - 1 \in Nat
      /\ term' = IF w.state \in {"RINGING", "TALKING", "DIALING"} THEN w
                 ELSE [x EXCEPT !.inst = "none"]
  BY SteadyFacts DEF onDestroy, Main, MainFree, Good, Terminal
<1>1. /\ Good(w) /\ w.calls = term.calls /\ w.id = term.id /\ w.state = term.state
      /\ w.inbox = term.inbox /\ SameScreen(w, term)
  BY <1>0 DEF Good, Terminal, SameScreen
<1> HIDE DEF w
<1>2. \A m : ~Queued(term, m)
  <2>1. Len(term.inbox) = 0
    BY <1>0
  <2> QED  BY <2>1 DEF Queued, At
<1>3. ~w.dialog
  BY <1>0, <1>1 DEF SameScreen, Kept, Orderly
<1>4. CASE w.state \in {"RINGING", "TALKING", "DIALING"}
  <2>1. SameCall(w, term)
    BY <1>1, SameInbox DEF SameCall
  <2>2. w.answerBtn => w.inst = "shown" /\ w.shown # "none" /\ w.state = "RINGING"
    BY <1>0, <1>1, <1>4 DEF Kept, Dressed, Button, SameScreen
  <2>3. Kept(w, jni)
    BY <1>0, <1>3, <2>1, <2>2, SameKept
  <2> QED  BY <1>0, <1>4, <2>3
<1>5. CASE w.state \notin {"RINGING", "TALKING", "DIALING"}
  <2>1. NoLive(term)
    <3>1. term.state \in {"IDLE", "ENDED", "ENDING", "CANCELING", "REJECTING"}
      BY <1>0, <1>1, <1>5 DEF Good, Terminal, CallStates
    <3> QED  BY <1>0, <1>2, <3>1 DEF NoLive, Kept, Followed, Asked, Idle
  <2>2. ~term.answerBtn
    BY <1>0, <1>1, <1>2, <1>5 DEF Kept, Button
  <2>3. /\ Good(x) /\ x.calls = w.calls /\ x.inbox = w.inbox
        /\ x.state = "IDLE" /\ SameScreen(x, w)
    BY <1>1, ClearFields
  <2>4. /\ term'.calls = x.calls /\ term'.inbox = x.inbox /\ term'.state = x.state
        /\ term'.answerBtn = x.answerBtn /\ term'.dialog = x.dialog
    <3> HIDE DEF x
    <3> QED  BY <1>0, <1>5, <2>3 DEF Good, Terminal
  <2> HIDE DEF x
  <2>5. NoLive(term') /\ ~term'.answerBtn /\ ~term'.dialog
    BY <1>1, <1>3, <2>1, <2>2, <2>3, <2>4 DEF NoLive, Live, SameScreen
  <2>6. Orderly(term', jni)
    BY <1>0, <1>1, <2>3, <2>4, <2>5, SameInbox, OrderlySame DEF Kept
  <2> QED  BY <1>0, <2>3, <2>4, <2>5, <2>6, DeadKept
<1> QED  BY <1>4, <1>5

-----------------------------------------------------------------------------
(* The user *)

LEMMA DialPadKept ==
  ASSUME Steady, Apart, DialPad
  PROVE  Kept(term', jni')
<1> DEFINE v == setCurrentCallState(term, FirstCall, "DIALING")
<1>0. /\ Good(term) /\ Kept(term, jni) /\ term.inbox = <<>> /\ Free(term) = CallIds
      /\ term' = post(v, "OPEN") /\ jni' = [call |-> "pad", id |-> NoCall]
  BY SteadyFacts DEF DialPad, MayStart
<1>1. AllNull(term)
  BY <1>0 DEF Free, AllNull
<1>2. ~term.answerBtn /\ \A m : ~Queued(term, m) /\ Once(term, m)
  BY <1>0, <1>1, AtRest
<1>3. Good(v)
  BY <1>0, FirstCallId, SetCurrentCallState DEF CallStates
<1>4. v.calls = term.calls /\ v.inbox = term.inbox /\ v.state = "DIALING" /\ SameScreen(v, term)
  BY <1>0 DEF setCurrentCallState, Good, Terminal, SameScreen
<1> HIDE DEF v
<1>5. /\ term'.calls = v.calls /\ term'.state = v.state /\ SameScreen(term', v)
  BY <1>0, <1>3 DEF post, Good, Terminal, SameScreen
<1>6. SameCommands(term', term)
  <2>1. SameCommands(term', v) /\ SameCommands(v, term)
    BY <1>0, <1>3, <1>4, PostSame, SameInbox
  <2> QED  BY <2>1, SameTransitive
<1>7. NoLive(term') /\ ~term'.answerBtn /\ ~term'.dialog
  BY <1>0, <1>1, <1>2, <1>4, <1>5 DEF NoLive, Live, AllNull, SameScreen, Kept, Orderly
<1>8. Orderly(term', jni')
  BY <1>0, <1>2, <1>6, <1>7 DEF Orderly, SameCommands, Commands
<1> QED  BY <1>4, <1>5, <1>7, <1>8, DeadKept

LEMMA DialBookKept ==
  ASSUME Steady, Apart, DialBook
  PROVE  Kept(term', jni')
<1>0. /\ Good(term) /\ Kept(term, jni) /\ term.inbox = <<>> /\ Free(term) = CallIds
      /\ term' = post(term, "MAKE") /\ jni' = jni /\ jni = Idle
  BY SteadyFacts DEF DialBook, MayStart, MainFree
<1>1. AllNull(term)
  BY <1>0 DEF Free, AllNull
<1>2. term.state # "RINGING" /\ ~term.answerBtn /\ \A m : ~Queued(term, m) /\ Once(term, m)
  BY <1>0, <1>1, AtRest
<1>3. /\ term'.calls = term.calls /\ term'.state = term.state /\ SameScreen(term', term)
  BY <1>0 DEF post, Good, Terminal, SameScreen
<1>4. ~Queued(term', "ANSWER") /\ ~Queued(term', "PTT") /\ Once(term', "ANSWER")
  BY <1>0, <1>2, PostQueue DEF Messages
<1>5. NoLive(term') /\ ~term'.answerBtn /\ ~term'.dialog
  BY <1>0, <1>1, <1>2, <1>3 DEF NoLive, Live, AllNull, SameScreen, Kept, Orderly
<1>6. Orderly(term', jni')
  BY <1>4, <1>5 DEF Orderly
<1> QED  BY <1>2, <1>3, <1>5, <1>6, DeadKept

LEMMA PressHangupKept ==
  ASSUME Steady, PressHangup
  PROVE  Kept(term', jni')
<1> DEFINE t == IF term.state \in DOMAIN HangupStates
                THEN HangupStates[term.state] ELSE term.state
           v == [setCallState(term, t) EXCEPT !.force = FALSE]
<1>0. /\ Good(term) /\ Kept(term, jni) /\ term.shown = "top" /\ jni' = jni /\ jni = Idle
      /\ term' = hangupPressed(term) /\ Dressed(term) /\ ~term.dialog
  BY SteadyFacts DEF PressHangup, Main, MainFree, Kept, Orderly
<1>1. CASE term.state \in {"IDLE", "ENDED"} \/ ~term.num
  <2>1. term' = finish(term)
    BY <1>0, <1>1 DEF hangupPressed
  <2>2. LET u == finish(term) IN SameCall(u, term) /\ ~u.answerBtn /\ (~term.dialog => ~u.dialog)
    BY <1>0, FinishFields
  <2>3. SameCall(term', term) /\ ~term'.answerBtn /\ ~term'.dialog
    BY <1>0, <2>1, <2>2
  <2> QED  BY <1>0, <2>3, SameKept
<1>2. CASE ~(term.state \in {"IDLE", "ENDED"} \/ ~term.num)
  <2>1. term' = post(finish(v), "HANGUP")
    BY <1>0, <1>2 DEF hangupPressed
  <2>2. t \in CallStates \ {"IDLE", "ENDED", "RINGING"}
    BY <1>0, <1>2 DEF HangupStates, CallStates, Good, Terminal
  <2> HIDE DEF t
  <2>3. Good(setCallState(term, t))
    BY <1>0, <2>2, SetCallState
  <2>4. /\ Good(v) /\ v.calls = term.calls /\ v.id = term.id /\ v.state = t
        /\ v.inbox = term.inbox /\ SameScreen(v, term)
    BY <1>0, <2>3 DEF setCallState, Good, Terminal, SameScreen
  <2> HIDE DEF v
  <2> DEFINE u == finish(v)
  <2>5. Good(u) /\ SameCall(u, v) /\ u.inbox = v.inbox /\ ~u.answerBtn /\ ~u.dialog
    <3>1. Dressed(v) /\ ~v.dialog
      BY <1>0, <2>4 DEF Dressed, SameScreen
    <3> QED  BY <2>4, <3>1, FinishFields
  <2>6. term' = post(u, "HANGUP")
    BY <2>1
  <2> HIDE DEF u
  <2>7. /\ term'.calls = term.calls /\ term'.id = term.id /\ term'.state = t
        /\ ~term'.answerBtn /\ ~term'.dialog
    BY <2>4, <2>5, <2>6 DEF post, Good, Terminal, SameCall
  <2>8. /\ Queued(term', "HANGUP")
        /\ \A m \in {"ANSWER", "MAKE", "PTT"} : Queued(term', m) <=> Queued(term, m)
        /\ Once(term', "ANSWER")
    <3>1. u.inbox = term.inbox
      BY <2>4, <2>5
    <3>2. /\ \A m : (Queued(u, m) <=> Queued(term, m))
          /\ Once(u, "ANSWER")
      BY <1>0, <3>1, SameInbox DEF Kept, Orderly
    <3> QED  BY <2>5, <2>6, <3>2, PostQueue DEF Messages
  <2>9. Followed(term')
    BY <1>0, <2>2, <2>7 DEF Kept, Followed, Live
  <2>10. Asked(term', jni)
    BY <1>0, <2>7, <2>8 DEF Kept, Asked, Live, Idle
  <2>11. Orderly(term', jni)
    BY <1>0, <2>7, <2>8 DEF Kept, Orderly
  <2> QED  BY <1>0, <2>2, <2>7, <2>9, <2>10, <2>11 DEF Kept, Rings, Dressed, Button
<1> QED  BY <1>1, <1>2

LEMMA PressAnswerKept ==
  ASSUME Steady, PressAnswer
  PROVE  Kept(term', jni')
<1> DEFINE v == setCallState(term, "TALKING")
           x == post(v, "ANSWER")
<1>0. /\ Good(term) /\ Alone(term) /\ Kept(term, jni) /\ jni' = jni
      /\ term.answerBtn \/ term.state = "RINGING"
      /\ term' = [x EXCEPT !.answerBtn = FALSE]
  BY SteadyFacts DEF PressAnswer, Main, answerPressed
<1>1. NoCommand(term, jni)
  BY <1>0 DEF Kept, Rings, Button
<1>2. \A c \in CallIds : Live(term, c) => term.calls[c] = "incoming"
  <2>1. AllNull(term) \/ \E d \in CallIds : term.calls[d] = "incoming"
    BY <1>0 DEF Kept, Rings, Button
  <2> QED  BY <1>0, <2>1 DEF Alone, AllNull, Live
<1>3. Good(v)
  BY <1>0, SetCallState DEF CallStates
<1>4. /\ v.calls = term.calls /\ v.id = term.id /\ v.state = "TALKING"
      /\ v.inbox = term.inbox /\ v.dialog = term.dialog
  BY <1>0 DEF setCallState, Good, Terminal
<1> HIDE DEF v
<1>5. Good(x) /\ x.calls = v.calls /\ x.id = v.id /\ x.state = v.state /\ x.dialog = v.dialog
  <2>1. Good(x)
    BY <1>3, PostGood DEF Messages
  <2> QED  BY <1>3, <2>1 DEF post, Good, Terminal
<1>6. /\ \A m \in Messages : Queued(x, m) <=> Queued(term, m) \/ m = "ANSWER"
      /\ Once(x, "ANSWER")
  <2>1. \A m : (Queued(v, m) <=> Queued(term, m)) /\ (Once(v, m) <=> Once(term, m))
    BY <1>4, SameInbox
  <2>2. ~Queued(v, "ANSWER") /\ Once(v, "ANSWER")
    BY <1>0, <1>1, <2>1 DEF NoCommand, Kept, Orderly
  <2> QED  BY <1>3, <2>1, <2>2, PostQueue DEF Messages
<1> HIDE DEF x
<1>7. /\ term'.calls = term.calls /\ term'.id = term.id /\ term'.state = "TALKING"
      /\ ~term'.answerBtn /\ term'.dialog = term.dialog /\ term'.inbox = x.inbox
  BY <1>0, <1>4, <1>5 DEF Good, Terminal
<1>8. /\ \A m \in Messages : Queued(term', m) <=> Queued(term, m) \/ m = "ANSWER"
      /\ Once(term', "ANSWER")
  BY <1>6, <1>7, SameInbox
<1>9. Followed(term') /\ Asked(term', jni)
  BY <1>0, <1>1, <1>2, <1>7 DEF Kept, Followed, Asked, Live, NoCommand, Idle
<1>10. Orderly(term', jni)
  BY <1>0, <1>1, <1>7, <1>8 DEF Kept, Orderly, NoCommand, Idle, Messages
<1> QED  BY <1>0, <1>7, <1>9, <1>10 DEF Kept, Rings, Dressed, Button

LEMMA LeaveScreenKept ==
  ASSUME Steady, LeaveScreen
  PROVE  Kept(term', jni')
<1>0. /\ Good(term) /\ Kept(term, jni) /\ jni' = jni
      /\ term' = [term EXCEPT !.shown = "back", !.dialog = FALSE]
  BY SteadyFacts DEF LeaveScreen
<1>1. /\ term'.calls = term.calls /\ term'.id = term.id /\ term'.state = term.state
      /\ term'.inbox = term.inbox /\ ~term'.dialog /\ term'.inst = term.inst
      /\ term'.shown = "back" /\ term'.answerBtn = term.answerBtn
  BY <1>0 DEF Good, Terminal
<1>2. SameCall(term', term) /\ (Queued(term, "STATE") => Queued(term', "STATE"))
  BY <1>1, SameInbox DEF SameCall
<1> QED  BY <1>0, <1>1, <1>2, SameKept DEF Kept, Dressed

LEMMA ReturnToCallKept ==
  ASSUME Steady, ReturnToCall
  PROVE  Kept(term', jni')
<1>0. /\ Good(term) /\ Kept(term, jni) /\ jni' = jni /\ term' = post(term, "OPEN")
  BY SteadyFacts DEF ReturnToCall, Main
<1>1. /\ term'.calls = term.calls /\ term'.id = term.id /\ term'.state = term.state
      /\ SameScreen(term', term)
  BY <1>0 DEF post, Good, Terminal, SameScreen
<1>2. SameCall(term', term) /\ (Queued(term, "STATE") => Queued(term', "STATE"))
  BY <1>0, <1>1, PostSame DEF SameCall
<1> QED  BY <1>0, <1>1, <1>2, SameKept DEF Kept, Dressed, Orderly, SameScreen

-----------------------------------------------------------------------------
(* The pjsua worker thread *)

LEMMA IncomingKept ==
  ASSUME Steady, Apart, Incoming
  PROVE  Kept(term', jni')
<1> DEFINE a == alloc_call_id(term)[1]
           n == newCall(term, "incoming")
<1>0. /\ Good(term) /\ Kept(term, jni) /\ ~ptt /\ term.inbox = <<>>
      /\ Free(term) = CallIds /\ Free(term) # {} /\ jni' = jni /\ jni = Idle
      /\ term' = showCallState(n, a, "RINGING", "none")
  BY SteadyFacts DEF Incoming, MayStart, Callback, MainFree
<1>1. AllNull(term)
  BY <1>0 DEF Free, AllNull
<1>2. ~term.answerBtn /\ \A m : ~Queued(term, m) /\ Once(term, m)
  BY <1>0, <1>1, AtRest
<1>3. /\ Good(n) /\ a \in CallIds /\ n.calls = [term.calls EXCEPT ![a] = "incoming"]
  BY <1>0, NewCall DEF NativeStates
<1>4. n.inbox = term.inbox /\ SameScreen(n, term)
  BY <1>0 DEF newCall, Good, Terminal, SameScreen
<1>5. term' = JNIUpdateCallState(n, a, "RINGING")
  BY <1>0 DEF showCallState
<1> HIDE DEF a, n
<1>6. Taken(term', n, a, "RINGING")
  BY <1>3, <1>5, Reported
<1>7. /\ SameScreen(term', n) /\ SameCommands(term', n) /\ term'.calls = n.calls
      /\ term'.id = a /\ term'.state = "RINGING"
  BY <1>6 DEF Taken
<1>8. SameCommands(term', term)
  BY <1>4, <1>7, SameInbox, SameTransitive
<1>9. /\ \A m \in Commands : ~Queued(term', m)
      /\ Once(term', "ANSWER")
  BY <1>2, <1>8 DEF SameCommands, Commands
<1>10. term'.calls[a] = "incoming" /\ \A d \in CallIds : Live(term', d) => d = a
  BY <1>0, <1>1, <1>3, <1>7 DEF Live, AllNull, Good, Terminal
<1>11. ~term'.answerBtn /\ ~term'.dialog
  BY <1>0, <1>2, <1>4, <1>7 DEF SameScreen, Kept, Orderly
<1>12. Followed(term') /\ Asked(term', Idle)
  BY <1>7, <1>10 DEF Followed, Asked, Idle
<1>13. Rings(term', Idle)
  BY <1>3, <1>9, <1>10 DEF Rings, NoCommand, Commands
<1>14. Orderly(term', Idle)
  BY <1>9, <1>11 DEF Orderly, Commands
<1> QED  BY <1>0, <1>11, <1>12, <1>13, <1>14 DEF Kept, Dressed, Button

LEMMA ConfirmedKept ==
  ASSUME Steady, NEW c \in CallIds, Confirmed(c)
  PROVE  Kept(term', jni')
<1> DEFINE f == [term.calls EXCEPT ![c] = Answered(term.calls[c])]
           v == [term EXCEPT !.calls = f, !.cur = c]
<1>0. /\ Good(term) /\ Alone(term) /\ Kept(term, jni) /\ ~ptt /\ jni' = jni
      /\ term.calls[c] \in {"calling", "connecting", "canceling", "closing"}
  BY SteadyFacts DEF Confirmed, Callback
<1>1. term.cur = c
  BY <1>0 DEF Alone
<1>2. f \in [CallIds -> NativeStates] /\ \A d \in CallIds \ {c} : f[d] = term.calls[d]
  BY <1>0 DEF Good, Terminal, NativeStates, Answered
<1>3. term' = showCallState(v, c, "TALKING", "none")
  BY <1>1 DEF Confirmed, Callback
<1>4. term' = JNIUpdateCallState(v, c, "TALKING")
  BY <1>0, <1>3 DEF showCallState
<1> HIDE DEF f
<1>5. /\ v \in Terminal /\ v.calls = f /\ v.inbox = term.inbox /\ SameScreen(v, term)
      /\ v.tone = term.tone /\ v.ring = term.ring
  BY <1>0, <1>2 DEF Good, Terminal, SameScreen
<1> HIDE DEF v
<1>6. Good(v) /\ SameCommands(v, term)
  BY <1>0, <1>5, SameInbox DEF Good
<1>7. Taken(term', v, c, "TALKING")
  BY <1>4, <1>6, Reported
<1>8. /\ SameScreen(term', v) /\ SameCommands(term', v) /\ term'.calls = f
      /\ term'.id = c /\ term'.state = "TALKING"
  BY <1>5, <1>7 DEF Taken
<1>9. SameCommands(term', term)
  BY <1>6, <1>8, SameTransitive
<1>10. ~term'.answerBtn /\ ~term'.dialog
  BY <1>0, <1>5, <1>8, NoButton DEF SameScreen, Kept, Orderly
<1>11. \A d \in CallIds : Live(term', d) => d = c
  BY <1>0, <1>1, <1>2, <1>8 DEF Alone, Live
<1>12. Orderly(term', jni)
  BY <1>0, <1>9, <1>10, OrderlySame DEF Kept
<1>13. CASE Live(term, c)
  <2>1. /\ jni.call \in {"hangup", "answer"} => jni.id = c
        /\ ~Queued(term, "ANSWER") /\ jni.call # "answer"
    BY <1>0, <1>13 DEF Kept, Asked
  <2>2. ~Queued(term', "ANSWER")
    BY <1>9, <2>1 DEF SameCommands, Commands
  <2>3. Followed(term') /\ Asked(term', jni)
    BY <1>8, <1>11, <2>1, <2>2 DEF Followed, Asked
  <2> QED  BY <1>0, <1>8, <1>10, <1>12, <2>3 DEF Kept, Rings, Dressed, Button
<1>14. CASE ~Live(term, c)
  <2>1. f[c] \in {"crossed", "ending"}
    BY <1>0, <1>14 DEF f, Live, Answered, Good, Terminal
  <2>2. NoLive(term')
    BY <1>8, <1>11, <2>1 DEF NoLive, Live
  <2> QED  BY <1>0, <1>8, <1>10, <1>12, <2>2, DeadKept
<1> QED  BY <1>13, <1>14

LEMMA DisconnectedKept ==
  ASSUME Steady, NEW c \in CallIds, Disconnected(c)
  PROVE  Kept(term', jni')
<1>1. PICK code \in EndCodes(term.calls[c]) : term' = disconnect(term, c, code)
  BY DEF Disconnected, Callback
<1>2. jni' = jni /\ term.calls[c] # "null"
  BY DEF Disconnected, Callback
<1> QED  BY <1>1, <1>2, SteadyFacts, DisconnectKept

\* call_timeout_callback ends the call it reports.
LEMMA CallTimeoutKept ==
  ASSUME Steady, NEW c \in CallIds, CallTimeout(c)
  PROVE  Kept(term', jni')
<1> DEFINE v == showCallState(term, c, "ENDED", "504")
           f == [v.calls EXCEPT ![c] = "ending"]
<1>0. /\ Good(term) /\ Alone(term) /\ Kept(term, jni) /\ jni' = jni
      /\ term.calls[c] \in {"confirmed", "crossed"}
  BY SteadyFacts DEF CallTimeout, Callback
<1>1. term.cur = c
  BY <1>0 DEF Alone
<1>2. term' = hangup(v, c)
  BY <1>1 DEF CallTimeout, Callback
<1>3. term.state # "RINGING" /\ ~term.answerBtn
  BY <1>0, NoButton
<1>4. /\ Good(v) /\ v.calls = term.calls /\ SameScreen(v, term)
      /\ SameCommands(v, term) /\ v.state # "RINGING"
  <2>1. CASE v = term
    <3>1. SameCommands(term, term)
      BY SameInbox
    <3> QED  BY <1>0, <1>3, <2>1, <3>1 DEF SameScreen
  <2>2. CASE v = JNIUpdateCallState(term, c, "ENDED")
    <3>1. Taken(v, term, c, "ENDED")
      BY <1>0, <2>2, Reported
    <3> HIDE DEF v
    <3> QED  BY <3>1 DEF Taken
  <2> QED  BY <2>1, <2>2 DEF showCallState
<1> HIDE DEF v
<1>5. term' = [v EXCEPT !.calls = f]
  BY <1>0, <1>2, <1>4 DEF hangup
<1>6. f[c] = "ending" /\ \A d \in CallIds \ {c} : f[d] = "null"
  BY <1>0, <1>1, <1>4 DEF Alone, Good, Terminal
<1> HIDE DEF f
<1>7. /\ term'.calls = f /\ term'.state = v.state /\ term'.inbox = v.inbox
      /\ SameScreen(term', v)
  BY <1>4, <1>5 DEF Good, Terminal, SameScreen
<1>8. NoLive(term') /\ ~term'.answerBtn /\ ~term'.dialog
  BY <1>0, <1>3, <1>4, <1>6, <1>7 DEF NoLive, Live, SameScreen, Kept, Orderly
<1>9. SameCommands(term', term)
  BY <1>4, <1>7, SameInbox, SameTransitive
<1>10. Orderly(term', jni)
  BY <1>0, <1>8, <1>9, OrderlySame DEF Kept
<1> QED  BY <1>0, <1>4, <1>7, <1>8, <1>10, DeadKept

\* REG_ERROR hangs up the call that is up, closes the screen and clears.
LEMMA RegisterErrorKept ==
  ASSUME Steady, RegisterError
  PROVE  Kept(term', jni')
<1> DEFINE w == IF term.ring THEN stopRingtone(term) ELSE term
           v == IF Gone(w, w.id) THEN Refused(w) ELSE hangup(w, w.id)
           x == closeCallUI(v)
<1>0. /\ Good(term) /\ Alone(term) /\ ~ptt /\ Kept(term, jni) /\ jni' = jni
      /\ term' = term \/ term' = clear(x)
  BY SteadyFacts DEF RegisterError, Registration
<1>1. CASE term' = term
  BY <1>0, <1>1
<1>2. CASE term' = clear(x)
  <2>1. Good(w) /\ Quiet(w, term)
    BY <1>0, StopRingtone DEF Quiet
  <2>2. /\ w.calls = term.calls /\ w.id = term.id /\ w.state = term.state
        /\ w.inbox = term.inbox /\ SameScreen(w, term)
    BY <1>0 DEF stopRingtone, Good, Terminal, SameScreen
  <2> HIDE DEF w
  <2>3. Alone(w) /\ w.id \in CallIds
    BY <1>0, <2>1, QuietIsTame DEF Tame, Good, Terminal
  <2>4. Kept(w, jni)
    <3>1. SameCall(w, term) /\ (Queued(term, "STATE") => Queued(w, "STATE"))
      BY <2>2, SameInbox DEF SameCall
    <3> QED  BY <1>0, <2>2, <3>1, SameKept DEF Kept, Dressed, Orderly, SameScreen
  <2>5. Good(v) /\ NoLive(v) /\ Dressed(v) /\ Orderly(v, jni)
    <3>1. CASE Gone(w, w.id)
      <4> DEFINE u == Refused(w)
      <4>1. /\ Good(u) /\ u.calls = w.calls /\ u.inbox = w.inbox
            /\ Dressed(u) /\ (~w.dialog => ~u.dialog)
        BY <2>1, <2>4, RefusedFields DEF Kept
      <4>2. v = u
        BY <3>1
      <4> HIDE DEF u
      <4>3. NoLive(u)
        BY <3>1, <2>4, <4>1 DEF NoLive, Live, Gone, Kept, Followed
      <4>4. Orderly(u, jni)
        BY <2>4, <4>1, SameInbox, OrderlySame DEF Kept, Orderly
      <4> QED  BY <4>1, <4>2, <4>3, <4>4
    <3>2. CASE ~Gone(w, w.id)
      <4>1. v = hangup(w, w.id)
        BY <3>2
      <4>2. Kept(hangup(w, w.id), jni) /\ NoLive(hangup(w, w.id))
        BY <1>0, <2>1, <2>3, <2>4, HangupKept DEF Kept, Followed
      <4>3. Good(hangup(w, w.id))
        BY <2>1, <2>3, Hangup
      <4> QED  BY <4>1, <4>2, <4>3 DEF Kept
    <3> QED  BY <3>1, <3>2
  <2> HIDE DEF v
  <2>6. /\ Good(x) /\ x.calls = v.calls /\ x.inbox = v.inbox
        /\ ~x.answerBtn /\ ~x.dialog
    BY <2>5, CloseFields DEF SameCall, Orderly
  <2> HIDE DEF x
  <2>7. LET u == clear(x)
        IN  /\ u.calls = x.calls /\ u.inbox = x.inbox
            /\ u.state = "IDLE" /\ SameScreen(u, x)
    BY <2>6, ClearFields
  <2>8. /\ term'.calls = v.calls /\ term'.inbox = v.inbox /\ term'.state = "IDLE"
        /\ ~term'.answerBtn /\ ~term'.dialog
    BY <1>2, <2>6, <2>7 DEF SameScreen
  <2>9. NoLive(term')
    BY <2>5, <2>8 DEF NoLive, Live
  <2>10. Orderly(term', jni)
    BY <2>5, <2>8, SameInbox, OrderlySame
  <2> QED  BY <1>0, <2>8, <2>9, <2>10, DeadKept
<1> QED  BY <1>0, <1>1, <1>2

-----------------------------------------------------------------------------
(* Every step keeps the invariant *)

\* Nothing occupies the PTT side, no group call starts, and the registration
\* is neither withdrawn nor forced; it may fail.
Undisturbed == Events \cap {"ptt", "group", "unregistered", "reregister"} = {}

LEMMA InitKept == Init => Kept(term, jni)
<1> SUFFICES ASSUME Init PROVE Kept(term, jni)
  OBVIOUS
<1>1. /\ term.calls = [c \in CallIds |-> "null"] /\ term.state = "IDLE"
      /\ term.answerBtn = FALSE /\ term.dialog = FALSE /\ Len(term.inbox) = 0
      /\ jni = Idle
  BY DEF Init
<1>2. \A m : ~Queued(term, m) /\ Once(term, m)
  BY <1>1 DEF Queued, Once, At
<1>3. NoLive(term)
  BY <1>1 DEF NoLive, Live
<1>4. Orderly(term, jni)
  BY <1>1, <1>2 DEF Orderly, Idle
<1> QED  BY <1>1, <1>3, <1>4, DeadKept

LEMMA NextKept ==
  ASSUME Apart, Undisturbed, Steady, [Next]_vars
  PROVE  Kept(term', jni')
<1>0. Good(term) /\ Kept(term, jni)
  BY SteadyFacts
<1>1. ASSUME MainNext PROVE Kept(term', jni')
  <2>1. ASSUME PttBroadcast PROVE FALSE
    <3>1. Receive("PTT")
      BY <2>1 DEF PttBroadcast
    <3> QED  BY <1>0, <3>1, PoppedQueue DEF Kept, Orderly, Messages
  <2>2. CASE HangupCommand
    BY <2>2, CommandKept DEF HangupCommand
  <2>3. CASE AnswerCommand
    BY <2>3, CommandKept DEF AnswerCommand
  <2> QED  BY <1>1, <2>1, <2>2, <2>3, OpenScreenKept, StateBroadcastKept, MakeCommandKept,
              RequestHangupKept, RequestAnswerKept, RequestMakeCallKept DEF MainNext
<1>2. ASSUME UserNext PROVE Kept(term', jni')
  <2>1. ASSUME SwitchToPtt \/ RefuseSwitch PROVE FALSE
    BY <1>0, <2>1 DEF SwitchToPtt, RefuseSwitch, Kept, Orderly
  <2>2. ASSUME Reregister PROVE FALSE
    BY <2>2 DEF Reregister, Spend, Undisturbed
  <2>3. CASE PttSide
    BY <1>0, <2>3 DEF PttSide
  <2> QED  BY <1>2, <2>1, <2>2, <2>3, DialPadKept, DialBookKept, PressHangupKept,
              PressAnswerKept, LeaveScreenKept, ReturnToCallKept DEF UserNext
<1>3. ASSUME WorkerNext PROVE Kept(term', jni')
  <2>1. ASSUME Unregistered \/ GroupTalk PROVE FALSE
    BY <2>1 DEF Unregistered, GroupTalk, Spend, Undisturbed
  <2>2. CASE Registered
    BY <1>0, <2>2 DEF Registered, Registration
  <2> QED  BY <1>3, <2>1, <2>2, IncomingKept, ConfirmedKept, DisconnectedKept,
              CallTimeoutKept, RegisterErrorKept DEF WorkerNext
<1>4. CASE UNCHANGED vars
  BY <1>0, <1>4 DEF vars
<1> QED  BY <1>1, <1>2, <1>3, <1>4, OnDestroyKept DEF Next

\* Calls that come one after the other, with the PTT side idle and the
\* registration lost at most by an error: whatever the order of the native
\* callbacks, the commands, the broadcasts, the buttons and the screens, the
\* call that is up is the one CallStateManager keeps, and takes to be going on.
THEOREM UpCallIsKept ==
  ASSUME Apart, Undisturbed
  PROVE  Safety => []LiveCallIsKept
<1>1. Init => Steady
  BY InitOneCall, InitKept DEF Steady
<1>2. Steady /\ [Next]_vars => Steady'
  <2> SUFFICES ASSUME Steady, [Next]_vars PROVE Steady'
    OBVIOUS
  <2>1. OneCall'
    BY NextOneCall DEF Steady, Undisturbed
  <2>2. Kept(term', jni')
    BY NextKept
  <2>3. Kept(term, jni)'
    BY <2>2 DEF Kept, Followed, Asked, Rings, Dressed, Button, Orderly, Live, NoCommand,
                Queued, Once, At, AllNull
  <2> QED  BY <2>1, <2>3 DEF Steady
<1>3. Steady => LiveCallIsKept
  BY DEF Steady, Kept, Followed, LiveCallIsKept
<1> QED  BY <1>1, <1>2, <1>3, PTL DEF Safety

=============================================================================
