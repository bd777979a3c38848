# A TLA+ model of the PTT terminal

This project models the push-to-talk terminal of this repository: an Android
application (`src/src/com/zzy/ptt`) over a pjsip user agent
(`src/jni/pjsip/sources/pjsip-apps/src/pjsua/pjsua_app.c`, `ptt_extension.c`).
The user holds a key, the terminal asks a group server for the right to speak,
the server grants it by calling the terminal, and everything must be given back
when the key is released. That negotiation, the *floor*, is run by two threads
that write the same objects without a common lock, on events that arrive in any
order. Beside it stand the registration, which several threads and the server's late
answers share, and the calls to a single party, with their ringtone and screen.

## 1. The system

| Component | State it keeps | Operations | Correct when |
|---|---|---|---|
| **Floor control** (`PTTManager`, `PTTKeyReceiver`, `PTTService`, `JniCallback`) | `PttGroupStatus` (status, speaker, call id), `ePttKeyStatus`, `callState` | key broadcasts, `handleCommand`, `JNIUpdatePTTState`, `mInviteIndicate`, `mByeIndicate`, `showCallState`, `receivePttRightResponse`, `JNIAddGroupInfo`, `JNIUpdateRegisterState`, `handleRegister` | a released key always ends the speech; status, speaker and call id fit each other and the calls that are open |
| **Native calls** (`pjsua_app.c`) | `current_call`, `dest_num`, the supervision timer of each call | `on_incoming_call`, `on_call_state`, `call_timeout_callback`, `answer`, `find_next_call` | `current_call` is a call that exists; every end is reported |
| **PTT signalling** (`ptt_extension.c`) | the multicast session, its timers | parsing `rsp:`/`ind:` MESSAGE bodies, mINVITE/mBYE, heartbeats, `ptt_signal_timer_cb` | a session ends when its traffic ends; each message reaches its callback |
| **Single calls** (`CallStateManager`, `InCallScreenActivity`) | `CallState`, `bForceInSC`, `bRingPlaying`, the call screen | dial, answer, hang up, `JNIUpdateCallState` | the ringtone stops; only a single call makes the PTT key inert |
| **Initialisation and registration** (`InitThread`, `RegisterThread`, `StateManager`, `AlertActivity`) | init state, registration state, retry counter | init, register, forced re-register, `showLoginState`, retry from the error dialog | one registration in progress; a failed one is retried or reported |
| **Groups** (`GroupManager`) | group list, member map, default group | replace list, query members, clear | the current group is in the list |
| **Call log** (`DBHelper`) | a bounded table | insert, prune, delete | the bound is kept, the newest entries survive |
| **Messages, contacts, settings, screens** | database rows, preferences, views | edit and show | not concurrent; I/O and layout |
| **pjsip** | | vendored stack | used as an environment only |

How they interact:

* The **main thread** takes key broadcasts and command broadcasts from one looper
  queue. `handlePttUp` *sleeps 300 ms* on it; `handleCommand` makes JNI calls that
  wait for the stack.
* The **pjsua worker thread** calls into Java (`JniCallback`) for every call event
  and every server message, and changes the same `PTTManager`.
* A handler of one thread talks to the other by a **broadcast** (the commands
  `COMM_*`) or by a **JNI call**; `checkResult` writes the floor status in the
  middle of the caller when the stack refuses a request.
* **Activities** decide branches: `showCallState` and `JNIUpdatePTTState` ask which
  screen is on top and whether the call screen has an instance.

The hard behaviours are therefore: callbacks that land between a key event and its
delayed decision; commands handled after the state they were sent for is gone;
calls that overlap; `clear()` hitting any state; a request refused half-way; and
everything about the number of the call that is to be hung up. `PROJECT.json`
lists them line by line under `hazards`.

## 2. The modules

| Module | What it is |
|---|---|
| `PttFloor` | floor control with the native group calls and the part of the single-call state it shares |
| `MCPttFloor` | the group lists its runs use |
| `PttFloor_proofs` | the inductive invariant of the floor and the theorems that follow from it |
| `PttFloorRelease_proofs` | the theorem about the released key |
| `PttFloorCalls_proofs` | the theorems about the call `PTTManager` believes in |
| `Registration` | register threads, native accounts, REGISTER transactions, retries, alerts and dialogs |
| `Login` | the abstract specification of what the registration shows |
| `MCRegistration`, `Registration_proofs` | the symmetry of its runs; its proofs, the refinement included |
| `RegistrationRace_proofs` | the theorems about the account slots and about an UNREGISTER that races a REGISTER |
| `SingleCall` | calls to and from one party: native slots, commands, ringtone, call screen |
| `MCSingleCall`, `SingleCall_proofs` | its instance; its proofs |
| `SingleCallKept_proofs` | the theorem about the call that is up |

### PttFloor and the code

The handlers call each other deeply (`showCallState` → `JNIUpdatePTTState` →
`hangupPttCall` → stack), so each is an **operator from the state `term` to the next
state** that keeps the method's name, and an action says when it runs.

| Variable | In the code |
|---|---|
| `term.status`, `.speaker`, `.callId` | `PTTManager.currentPttState` (`PttGroupStatus`) |
| `term.key`, `.call` | `ePttKeyStatus`, `callState` of `PTTManager` |
| `term.scState`, `.scId`, `.force`, `.ring`, `.inCall` | `CallStateManager`, `bForceInSC`, `bRingPlaying`, `InCallScreenActivity.instance` |
| `term.legs`, `.cur` | pjsua's calls and `current_call` |
| `term.registered`, `.groups` | registration succeeded; the group list is not empty |
| `term.threads` | `RegisterThread`s started and not yet run |
| `inbox`, `pc` | the looper queue; where the main thread blocks |
| `held`, `top` | the user's finger; the activity on top |
| `dest`, `armed` | `dest_num` of `pjsua_app.c` names the group; calls with a running supervision timer |

The Android screen, speakers (`none`, `me`, `peer`) and group numbers are reduced to
what the branches tell apart. A call "belongs to a group" when the list is not
empty, because the server calls the terminal for its groups only.

**Granularity.** A worker callback is one step. A main-thread handler is cut where it
blocks: `handlePttUp` / `handlePttUpAwake` around the sleep, `CommX` / `CommXRequest`
around the JNI call. So callbacks see every intermediate state a blocked handler
leaves. A Java handler that does not block is not cut further; races inside it, of
single field writes, are not modelled.

**Environment.** The server may send any message at any time (`RightResponse`,
`Forbidden`, `updatePttState`, `CallInfo`, `mByeIndicate`, `GroupInfo`,
`RegisterState`) and open and end calls at will; `OneLeg` restricts it to one group
call at a time in the runs that say so (the next one may arrive while earlier ones
are still being ended, which is what find_next_call is there for). Such a server has
seen the BYE of the last call, and its messages come in order: `OneLeg` lets no INVITE
overtake the ACK of a call that was hung up. A request to the stack may fail (`ok`).

A call that is hung up before its ACK came is `closing`: the BYE leaves the session in
CONNECTING (`sip_inv.c:2222`), so the ACK still confirms it (`sip_inv.c:511`) and
`on_call_state` reports TALKING for a call that is being ended. The 486 that refuses an
unanswered call ends it inside `pjsua_call_hangup`, with `showCallState` nested in the
caller; here the call is `rejecting` and its end is a step of its own, after the
caller has gone on and possibly after other callbacks. No property depends on it.

`regc_cb` of the stack reports REG_ED and REG_ERROR only, so the runs have no REG_NOT,
though `JNIUpdateRegisterState` handles it; an error report that `showLoginState`
ignores (state UNREGISTERED) is a stuttering step. A forced registration
(`Reregister`) may come at any time and on either thread; `RegisterThread` then drops
the account on its own. `MaxThreads` bounds the threads under way (0: none in the run).
Where `handleRegister` would dereference the missing `InCallScreenActivity.instance`
the process dies, and the model takes no step.
The user presses and releases at any time (a held key repeats its DOWN), and screens
come and go asynchronously, which covers `openPttUI` and `closePttUI`.
`find_next_call` may choose any other active call. FORBIDDEN exists in the build for
the ZED server only.

**Left out on purpose.** Tones, volume, logging, redrawing. `COMM_CLOSE_PTT` and the
null-group branch of `mInviteIndicate` are never reached (no sender; the timers are
commented out). `bPttErrorShowing` is "the error dialog is on top". `force` is read
here and set by the single-call commands, which are in `SingleCall`.
`ptt_signal_timer_cb` is reachable only in the ZED (multicast) build; the action
belongs to that build.

### Registration and the code

| Variable | In the code |
|---|---|
| `login`, `starter` | `StateManager.currentRegisterState`, `regStarter` |
| `thr`, `at` | where each `RegisterThread` is: the test of REGISTERING, the assignment, then `login()` of `pjsua_app.c` cut at its calls; the slot its loop looks at |
| `acc`, `retry`, `dflt` | pjsua's account table (a `regc` that is idle or busy), running `auto_rereg` timers, the default account |
| `registering`, `worker` | the global of `pjsua_app.c`; where the worker is in `regc_tsx_callback` |
| `tsx`, `replies`, `bound` | REGISTER transactions, their unhandled answers, the server's binding |
| `starting`, `shown`, `odd` | `AlertActivity` and the parity of its static counter |
| `settings`, `dialog` | the settings screen and the progress dialog |

`login()` deletes every account, which unregisters it, and adds a new one. So an
UNREGISTER and a REGISTER of one contact are under way together, and their answers
may come to accounts that are gone or to slots that have a new owner. The threads
share nothing but `StateManager` and the stack: `run()` synchronizes on its own
thread object, so two threads may both pass the test of REGISTERING
(`RegisterThread.java:70`) before either sets it (`:79`). The model lets them.

`Reorder` says whether an answer may overtake an earlier one, `BadSettings` whether
`pjsua_acc_add` may fail, `Refreshing` whether a registration lives until its refresh.
A request that cannot be sent is an answer too: the stack reports 502 or 503 through
the same callback. The round trips for 401, 407 and 423 are answered inside
`sip_reg.c` and are not steps; the NAT rewrite of the contact and `InitThread` are
left out; `REG_BY_CM` is never set. `auto_rereg_timer_cb` starts its timer again when the
request is refused because the account is busy; an account whose timer runs is never
busy here (TLC finds no such state in the runs), so `RetryTimer` has no such branch.

`onCancel` of the two progress dialogs tests the state and then writes it
(`MainPageActivity.java:362`, `:363`) without a lock. The test is `CancelDialog`, the write
`SetUnregistered`; between them the main thread does nothing else, and the register
threads and the worker do what they like. A SUCCESS that lands there is overwritten.
The next refresh shows it again.

`Login` is what the rest of the terminal is promised: `REGISTERING` is shown only
while there is work, a result only after work, and a terminal that is shown as
registered is shown as unregistered by one thing only: a cancellation that was accepted
while it was not registered yet and is written after the result (`quitting`).
`Registration` implements it under `view <- login`, `busy <- UnderWay`,
`quitting <- Quitting`.

### SingleCall and the code

| Variable | In the code |
|---|---|
| `term.calls`, `.next`, `.cur` | pjsua's call table, `next_call_id` and `current_call` |
| `term.id`, `.state`, `.num`, `.former`, `.force` | `CallStateManager` |
| `term.ring`, `.tone` | `bRingPlaying`; the player and the vibrator |
| `term.shown`, `.fin`, `.inst`, `.answerBtn`, `.dialog` | the call screen, the screens that are finishing, `InCallScreenActivity.instance`, its button and its question |
| `term.inbox`, `jni` | the looper queue; the JNI call the main thread is about to make |
| `registered`, `ptt` | the registration; the PTT side takes the reports (key down or speaking) |

A command of the user is handled in two steps, up to its JNI call and after it,
because the JNI call waits for the lock of the worker's callbacks. Android destroys a
finishing screen some time later, so that `onDestroy` of an old screen may come after
`onCreate` of a new one. The model assumes of Android that it leaves the destruction until the
main thread is idle, with no command or broadcast waiting, as its activity thread does.
A hang-up may be too late: a BYE sent before the ACK leaves a `closing` call that is
still confirmed, and a 200 that crosses the CANCEL establishes the call (`crossed`),
which nobody ends then (`sip_inv.c:399`). A BYE that nobody answers ends the call as an
answered one does; another request that fails ends it with an error. Call ids are reused as `alloc_call_id` does. Where
`handleRegister` would dereference a missing screen (`PTTService.java:301`) the step
is not taken. DTMF, volume and speaker keys are left out, and so is the log entry
that `finish()` writes.

## 3. The runs

`MaxInbox` bounds the broadcasts waiting when the user presses (the handlers' own sends
are not bounded by it), `MaxThreads` the register threads under way, `MaxEvents` what
users and others start. One waiting broadcast is enough for a press to be overtaken by
a release's command; two call ids give every pair of an old and a new call; two
register threads, two slots and three transactions give a deleted account whose answer
is out, its successor in the same slot, and a second thread at any point.

| Run | Bounds | Shows |
|---|---|---|
| `Calls` | 2 call ids, one call at a time, PTT screen, queue 1 | `TypeOK`; `TalkingIsReal`: `callState` TALKING stands for a call the stack has; `HangupReachesCall`: the kept id is that of the open call, or dropped; both with calls that are confirmed after their hang-up; `CurrentCallLive`: `current_call` is never dead, never unset too early |
| `Live` | 1 call, FORBIDDEN, REG_ED and REG_ERROR, a forced registration, regrouping | `FloorNaming`: status and speaker agree after any `clear()`; `ReleaseEndsSpeech`: a released key ends the speech |
| `Screens` | 1 call, the PTT screen, the call screen and another one | `NoUnattendedSpeech`: no step leaves the terminal speaking, key up, nothing under way |
| `RegRace` | 2 threads, 2 slots, 3 transactions, 3 kinds of answers, bad settings, 2 events | `BusyHasTransaction`, `RegisteringInProgress`, `SlotAlwaysFree`, `RegisteredIsBound`, and `ImplementsLogin`, the refinement, with the test and the write of a cancelled dialog as two steps |
| `RegLive` | 1 thread, 1 slot, 2 transactions, answers in any order, a failed call, a resumed alert | `FinallyRegistered`: once the server is well, the terminal comes to rest registered and bound |
| `CallOne` | 3 slots, 5 events, a registration that fails among them, one call at a time | `RingHasCall`: the ringtone plays for a waiting call only; `LiveCallIsKept`: no call is out of the user's reach |
| `CallAny` | 2 slots, 3 events of any kind, overlapping calls | `TypeOK`; `RingKnown`: a playing ringtone is one the service knows to stop |
| `CallScreen` | 2 slots, 4 events, incoming calls | `RingStops`, `ScreenCloses` |
| `Phantom`, `StaleFree`, `Answer`, `CallSwitch` | as small as the counterexample allows | the findings below |

Limits that matter:

* `HangupReachesCall` needs a server with one call at a time, since `PTTManager` has
  room for one id, and both properties need its messages in order. If the next
  INVITE overtakes the ACK of a call that was hung up, the late TALKING report writes the
  dying call's id over the new one, and its end, which would take TALKING back, is not
  reported because `current_call` has moved on. `TalkingIsReal` also needs the PTT
  screen on top: an error end with the key up and another screen returns from
  `showCallState` before `callState` is set.
* `NoUnattendedSpeech` excuses a single call on top, where `JNIUpdatePTTState` returns
  early by design.
* `RegisteredIsBound` is checked for answers in order. If the answer of the UNREGISTER
  overtakes that of the REGISTER, the terminal shows SUCCESS without a binding until the
  next refresh; `FinallyRegistered` covers that case.
* `LiveCallIsKept` and `RingHasCall` are about one call at a time: with overlapping
  calls the terminal keeps one id only, and the code says nothing of which.
  `LiveCallIsKept` also needs a terminal that nothing but the call's own course disturbs:
  with the PTT side busy a report is dropped, and a group call, a REG_NOT or a forced
  registration clears `CallStateManager` and hangs nothing up. TLC finds a
  counterexample for each of the four. A failed registration is no such case, since
  REG_ERROR hangs up first. A call is meant that neither side has asked to end: one that
  was established against its CANCEL may be forgotten, when a hang-up command that read
  a cleared id is refused and clears the call that was reported since.
* `SlotAlwaysFree` needs as many account slots as there are register threads: with three
  threads and two slots TLC finds the third without one. `PJSUA_MAX_ACC` is 8.
* `ScreenCloses` is checked for incoming calls and without the home key: a screen
  opened twice, or destroyed after its successor was created, leaves a screen that no
  report closes any more.

**Fairness.**

* `PttFloor`: `WF_vars(MainNext)` only: the looper runs as long as the process does,
  the sleep and the JNI calls return. Nothing is assumed of the server, the worker
  thread, the screens or the user: `handlePttUp` and `COMM_HANGUP_PTT_CALL` suffice.
* `Registration`: threads and the worker (`thread_cnt` 1, `pjsua_core.c:106`) go on; a
  transaction is answered or times out (`REGC_TSX_TIMEOUT`, `sip_reg.c:46`) and its
  answer is handled; timers fire (`PTT_REG_INTERVAL` 300 s, `pjsua_app.c:34`).
  `RefreshTimer` is under strong fairness because it is disabled each time the account
  is busy and started anew when it is not. The server becomes well in the end and then
  accepts; without that no registration can succeed. A started alert is shown
  and an `onCancel` that passed its test goes on to its write; the
  user is not assumed to do anything.
* `SingleCall`: the looper; Android destroys a finished screen; a call that was never
  answered, or was hung up, is reported over (its transaction times out).

Deadlock is checked in the runs of `PttFloor`. In the others the events are bounded, so
that a quiet terminal may stop.

### Findings

1. `Phantom`: `handlePttDown` ignores the key "if any single call exist". A *group*
   call confirmed while another screen is on top also enters the single-call state,
   through the tail of `showCallState`, and makes the key inert.
2. `StaleFree`: `JNIUpdatePTTState` ignores a FREE "when waiting or applying or
   speaking or accepted" with the key down. `mInviteIndicate` writes FREE into the
   current status first, so that test never sees SPEAKING.
3. `Answer`: "auto answer the s-Invite" asks for one call, but `answer()` looks at
   the state of `current_call`; with an older call there, the new one is not
   answered.
4. `CallSwitch`: "Ptt incoming, switch to PTT?" marks the single call ended and closes
   its screen, but `ptt_open_media` refuses in the state a group call leaves, and the
   single call stays up.

## 4. The proofs

Everything here holds for every value of the constants that the `ASSUME`s of the
modules type, unless a theorem states more.

**The floor** (`PttFloor_proofs`, `PttFloorRelease_proofs`).

* **`Invariance`**: `Spec => []Inv`, with `Inv` the types and `Sound(term)`.
  `Sound(w)` is a predicate of the *record*: `w` is typed, status and speaker agree
  (`Named`) and `current_call` is tracked (`CallsTracked`). Because handlers are
  operators, there is one lemma per operator, "a sound terminal goes to a sound
  terminal", following the code's call graph, then one step per action. Types are
  needed for the naming (a record update says nothing about an untyped value), and
  naming is needed inside the handlers: `groupCallTalking` keeps a speaker that is
  right only because LISTENING already names one.
* **`TypeCorrect`**, **`FloorNamed`**, **`CurrentCallTracked`** follow, for any number of
  overlapping calls.
* **`ReleaseAttended`**: `Spec => NoUnattendedSpeech`. Two things could break it. A
  handler could give the floor to a released key: the `Quiet` and `Attended` lemmas
  show that none does outside a single call, the central ones being `ClaimQuiet` (a
  claim with the key up is given back) and `RefreshQuiet`, which uses `Named`: SPEAKING
  names this user, so the refresh takes the branch that gives the floor back. Or a
  release under way could be lost: `PendingStays` follows the queue, and `KeyExcused`
  the wake-up that replaces the sleep by a queued hangup.

**The call of the floor** (`PttFloorCalls_proofs`), for `SteadyGroup`: one call at a time,
in order, the PTT screen on top, a list that stays, no registration lost. These are the
conditions of run `Calls`; the limits above say what goes wrong without them.

* **`OneCallKept`**: `Spec => []CallInv`. Neither property is inductive. Whether the end
  of a call is reported depends on `current_call` and `dest_num`, so `CallInv` says that
  a connecting, confirmed or closing call is the current one, that a TALKING `callState` has an
  established current call and no call that is still coming in, and that with a wiped
  `dest_num` nothing is talking or connecting. `Settles` is the relation of all handlers
  but four: they end calls, drop the id and never make `callState` TALKING. It is
  transitive, so that one lemma per operator suffices; the four call events are
  treated one by one.
* **`TalkingHasCall`** and **`HangupFindsCall`** follow.

**The registration** (`Registration_proofs`). `Inv` adds to `BusyHasTransaction` and
`RegisteringInProgress` that a thread about to send has a slot, that the queued replies
are answered transactions, each once, and that a free transaction belongs to nobody:
otherwise an answer could be taken for that of the slot's next owner.

* **`TypeCorrect`**, **`OneTransactionPerAccount`**, **`ProgressIsReal`** follow.
* **`LoginImplemented`**: `Safety => ImplementsLogin`; the initial states map to the
  initial state of `Login`, and each action to one of its actions or a stutter. The
  two halves of `onCancel` map to `Quit`, which a registered terminal refuses, and
  `Cancel`, which overwrites whatever came since.

**The races of the registration** (`RegistrationRace_proofs`).

* **`SlotForEveryThread`**: `SlotAlwaysFree`, for finitely many threads and at least as
  many slots. The accounts that are there were added by different threads, and each is
  still its adder's last: the invariant `Owners` asks for a map from slots to threads
  that is injective on the used ones, whose threads are not about to add an account, and
  which a deleting thread leaves when it passes its slot. A full table would then need
  more threads than there are, the adding one being none of the owners (`FullTable`,
  from the library's theorem on injections).
* **`RegisteredAtRest`**: `RegisteredIsBound`, if no answer overtakes an earlier one.
  At rest the property says nothing of how rest was reached, so the invariant `Race`
  follows the binding: while SUCCESS is shown without one, a thread is at work, a
  REGISTER is awaited, the late answer to an UNREGISTER is queued, or the worker is about
  to resend (`NotYetBound`). To keep that, the resend must find an account (`NoHole`,
  `DefaultKept`, `SuccessHasAccount`), the flag that suppresses it must stand for a
  registration under way (`FlagIsMeant`), and a success that is still to be shown must be
  followed by the answer that undoes it (`UnregisterLast`), which is where the order of
  the answers is used.

**The single call** (`SingleCall_proofs`, `SingleCallKept_proofs`).

* **`TypeCorrect`**, **`RingIsKnown`**: `RingKnown` is inductive with the types, for any
  overlap of calls and registrations.
* **`RingForWaitingCall`**: `RingHasCall` when calls start apart and the PTT side is
  idle. Its invariant `OneCall` says that there is at most one native call and it is the
  current one, that at most one dial command is under way and none beside a call, and
  that an answer under way has silenced the ringtone.
* **`UpCallIsKept`**: `LiveCallIsKept` under the same condition, with no group call and a
  registration lost at most by an error. The screen writes the state *before* the stack
  is asked (`hangupPressed`, `answerPressed`), and a command reads the id when it is
  handled, so the property is not inductive. `Kept` adds to `OneCall` what ties the two
  ends together: a request under way is about the call that is up; a call that is shown
  as hung up has its hang-up still waiting (so that `onDestroy`, which comes when nothing
  waits, cannot clear a live call); an answer meets a call that is still unanswered, and
  there is one at most; RINGING and the answer button leave no room for a command under
  way, and the button of a call that is over goes with the broadcast that is already
  queued. One lemma per operator says what it does to the call, the screen and the
  commands, then one per action.

**Only model-checked.** Liveness under fairness is beyond the prover:
`ReleaseEndsSpeech`, `FinallyRegistered`, `RingStops`, `ScreenCloses`. Every invariant
and every other property of the passing runs is a theorem. The four violations are
counterexamples.

## 5. Not modelled

* The member map of `GroupManager` and the call log: no thread but one changes them in
  a way another component reads. Their hazards are listed in `PROJECT.json`.
* The multicast session of the ZED build: heartbeat counters, mINVITE, media.
* `InitThread` (loads the library once), authentication and NAT inside pjsip.
* Parsing of message bodies: text processing; the model starts at the callback.
* Contacts, settings, message storage, screens: I/O and layout.
* The rest of pjsip: vendored, seen as `pjsua_app.c` uses it.

Hazards that no property covers, and why, are in `PROJECT.json`. Most are places where
the code gives no statement of intent to check against: a command that reads the
call id late (`PTTService.java:470`), a third dial that leaves the second call up
(`pjsua_app.c:6375`), an application sent with the key up (`PTTService.java:369`).

## 6. What could come next

1. `Terminal`, the composition of `PttFloor`, `SingleCall` and `Registration` over the
   state they share. Today each has the others' effects as events of its environment.
2. An abstract floor (idle, asking, speaking, listening) that `PttFloor` refines, once
   somebody has decided what an application with the key up should mean.
3. A server model with lost messages, for the requests that have no retry.
