------------------------ MODULE Registration_proofs ------------------------
(***************************************************************************)
(* Proofs about Registration, for any number of threads, account slots and *)
(* transactions, any answers of the server and any order of the answers.   *)
(*                                                                         *)
(* The inductive invariant adds to the properties what ties the worker's   *)
(* queue to the transactions: RepliesAreAnswers (an answer is handled      *)
(* once) and FreeIsGone (an ended transaction has no owner).  Without the  *)
(* first, a late second answer could end the next request of the account.  *)
(***************************************************************************)
EXTENDS Registration, TLAPS

\* An answer waits for the worker once, and is an answer.
RepliesAreAnswers ==
    /\ \A n \in 1 .. Len(replies) : tsx[replies[n]].st \in Answers
    /\ \A m, n \in 1 .. Len(replies) : replies[m] = replies[n] => m = n

\* A transaction that is not pending belongs to nobody.
FreeIsGone == \A x \in Tsx : ~Pending(x) => tsx[x].owner = Gone

\* A thread that is about to send has an account slot to send for.
SendHasSlot == \A t \in Threads : thr[t] = "send" => at[t] \in Slot

Inv ==
    /\ TypeOK
    /\ SendHasSlot
    /\ RepliesAreAnswers
    /\ FreeIsGone
    /\ BusyHasTransaction
    /\ RegisteringInProgress

-----------------------------------------------------------------------------
(* Native accounts *)

\* What a step on the accounts must keep.
Accounts ==
    /\ acc \in [Slot -> {"free", "none", "idle", "busy"}]
    /\ retry \subseteq Slot
    /\ tsx \in [Tsx -> Transaction]
    /\ RepliesAreAnswers
    /\ FreeIsGone
    /\ BusyHasTransaction

\* A request takes a transaction that no account owns.
LEMMA RequestAccounts ==
    ASSUME Accounts, replies \in Seq(Tsx), UNCHANGED replies,
           NEW x \in Tsx, NEW i \in Slot \cup {Gone}, NEW op \in {"reg", "unreg"},
           Request(x, i, op)
    PROVE  /\ tsx' \in [Tsx -> Transaction]
           /\ RepliesAreAnswers'
           /\ FreeIsGone'
           /\ tsx[x].st = "free"
           /\ tsx' = [tsx EXCEPT ![x] = [owner |-> i, op |-> op, st |-> "sent"]]
  <1>1. tsx' \in [Tsx -> Transaction]
    BY DEF Request, Accounts, Transaction
  <1>2. RepliesAreAnswers'
    <2>1. \A n \in 1 .. Len(replies) : replies[n] # x
      BY DEF Request, Accounts, RepliesAreAnswers, Answers
    <2>2. \A n \in 1 .. Len(replies) : replies[n] \in Tsx
      OBVIOUS
    <2> QED  BY <2>1, <2>2 DEF Request, Accounts, RepliesAreAnswers
  <1>3. FreeIsGone'
    BY DEF Request, Accounts, FreeIsGone, Pending
  <1> QED  BY <1>1, <1>2, <1>3 DEF Request

\* set_registration gives a free transaction to an account that has none.
LEMMA RegisterAccounts ==
    ASSUME Accounts, replies \in Seq(Tsx), UNCHANGED replies,
           NEW i \in Slot, Register(i)
    PROVE  /\ Accounts'
           /\ \A j \in Slot : acc[j] = "busy" => acc'[j] = "busy"
           /\ \A j \in Slot : acc[j] = "free" <=> acc'[j] = "free"
           /\ acc[i] # "free" => acc'[i] = "busy"
  <1>1. CASE acc[i] = "free" \/ acc[i] = "busy"
    <2>1. UNCHANGED <<acc, tsx>> /\ retry' \subseteq Slot
      BY <1>1 DEF Register, Accounts
    <2> QED  BY <1>1, <2>1 DEF Accounts, RepliesAreAnswers, FreeIsGone,
                               BusyHasTransaction, Pending
  <1>2. CASE acc[i] \notin {"free", "busy"}
    <2>1. /\ acc' = [acc EXCEPT ![i] = "busy"]
          /\ retry' \subseteq Slot
          /\ \E x \in Tsx : Request(x, i, "reg")
      BY <1>2 DEF Register, Accounts
    <2>2. PICK x \in Tsx : Request(x, i, "reg")
      BY <2>1
    <2>3. /\ tsx' \in [Tsx -> Transaction]
          /\ RepliesAreAnswers'
          /\ FreeIsGone'
          /\ tsx[x].st = "free"
          /\ tsx' = [tsx EXCEPT ![x] = [owner |-> i, op |-> "reg", st |-> "sent"]]
      BY <2>2, RequestAccounts
    <2>4. \A y \in Tsx : y # x => tsx'[y] = tsx[y]
      BY <2>3 DEF Accounts
    <2>5. tsx'[x].st = "sent" /\ tsx'[x].owner = i
      BY <2>3 DEF Accounts
    <2>6. \A y \in Tsx : Pending(y) => tsx[y].owner # i
      BY <1>2 DEF Accounts, BusyHasTransaction
    <2>7. BusyHasTransaction'
      BY <1>2, <2>1, <2>3, <2>4, <2>5, <2>6
      DEF Accounts, BusyHasTransaction, Pending
    <2> QED  BY <1>2, <2>1, <2>3, <2>7 DEF Accounts
  <1> QED  BY <1>1, <1>2

\* Deleting an account leaves its transaction, or its UNREGISTER, to nobody.
LEMMA DeleteAccounts ==
    ASSUME Accounts, replies \in Seq(Tsx), UNCHANGED replies,
           NEW i \in Slot, pjsua_acc_del(i)
    PROVE  /\ Accounts'
           /\ \A j \in Slot : j # i => acc'[j] = acc[j]
  <1>a. /\ acc' = [acc EXCEPT ![i] = "free"]
        /\ retry' \subseteq Slot
    BY DEF pjsua_acc_del, Accounts
  <1>b. i # Gone
    BY DEF Slot, Gone
  <1>1. CASE acc[i] = "idle"
    <2>1. PICK x \in Tsx : Request(x, Gone, "unreg")
      BY <1>1 DEF pjsua_acc_del
    <2>2. /\ tsx' \in [Tsx -> Transaction]
          /\ RepliesAreAnswers'
          /\ FreeIsGone'
          /\ tsx[x].st = "free"
          /\ tsx' = [tsx EXCEPT ![x] = [owner |-> Gone, op |-> "unreg", st |-> "sent"]]
      BY <2>1, RequestAccounts
    <2>3. \A y \in Tsx : y # x => tsx'[y] = tsx[y]
      BY <2>2 DEF Accounts
    <2>4. tsx'[x].owner = Gone
      BY <2>2 DEF Accounts
    <2>5. \A j \in Slot : j # Gone
      BY DEF Slot, Gone
    <2>6. BusyHasTransaction'
      BY <1>a, <1>1, <2>2, <2>3, <2>4, <2>5
      DEF Accounts, BusyHasTransaction, Pending
    <2> QED  BY <1>a, <2>2, <2>6 DEF Accounts
  <1>2. CASE acc[i] = "busy"
    <2>1. tsx' = [x \in Tsx |-> IF tsx[x].st # "free" /\ tsx[x].owner = i
                                THEN [tsx[x] EXCEPT !.owner = Gone]
                                ELSE tsx[x]]
      BY <1>2 DEF pjsua_acc_del
    <2>2. tsx' \in [Tsx -> Transaction]
      BY <2>1 DEF Accounts, Transaction, Gone
    <2>3. \A x \in Tsx :
            /\ tsx'[x].st = tsx[x].st
            /\ tsx'[x].owner = IF tsx[x].st # "free" /\ tsx[x].owner = i
                               THEN Gone ELSE tsx[x].owner
      BY <2>1 DEF Accounts, Transaction
    <2>4. RepliesAreAnswers'
      <3>1. \A n \in 1 .. Len(replies) : replies[n] \in Tsx
        OBVIOUS
      <3> QED  BY <2>3, <3>1 DEF Accounts, RepliesAreAnswers
    <2>5. FreeIsGone'
      BY <2>3 DEF Accounts, FreeIsGone, Pending
    <2>6. \A j \in Slot : j # Gone
      BY DEF Slot, Gone
    <2>7. BusyHasTransaction'
      BY <1>a, <2>3, <2>6 DEF Accounts, BusyHasTransaction, Pending
    <2> QED  BY <1>a, <2>2, <2>4, <2>5, <2>7 DEF Accounts
  <1>3. CASE acc[i] \notin {"idle", "busy"}
    <2>1. UNCHANGED tsx
      BY <1>3 DEF pjsua_acc_del
    <2> QED  BY <1>a, <1>3, <2>1 DEF Accounts, RepliesAreAnswers, FreeIsGone,
                                     BusyHasTransaction, Pending
  <1> QED  BY <1>a, <1>1, <1>2, <1>3 DEF Accounts

-----------------------------------------------------------------------------
(* Type correctness, one lemma per group of actions *)

LEMMA InvAccounts ==
    ASSUME Inv
    PROVE  Accounts /\ replies \in Seq(Tsx)
  BY DEF Inv, TypeOK, Accounts

\* RegisterThread writes the login state, its own place and the accounts.
LEMMA ThreadType ==
    ASSUME Inv, NEW t \in Threads, RegisterThread(t)
    PROVE  TypeOK' /\ UNCHANGED replies
  <1> USE DEF Inv
  <1>1. CASE CheckState(t)
    BY <1>1 DEF CheckState, TypeOK, ui
  <1>2. CASE SetRegistering(t)
    BY <1>2, SlotsAssumption DEF SetRegistering, TypeOK, ui
  <1>3. CASE ClearAccounts(t)
    <2>1. CASE at[t] = Slots
      BY <1>3, <2>1 DEF ClearAccounts, TypeOK, ui
    <2>2. CASE at[t] # Slots
      <3>1. at[t] \in Slot /\ at[t] + 1 \in 0 .. Slots
        BY <2>2, SlotsAssumption DEF TypeOK, Slot
      <3>2. /\ acc' \in [Slot -> {"free", "none", "idle", "busy"}]
            /\ retry' \subseteq Slot
            /\ tsx' \in [Tsx -> Transaction]
            /\ dflt' \in Slot
        <4>1. CASE acc[at[t]] = "free"
          BY <1>3, <2>2, <4>1 DEF ClearAccounts, TypeOK
        <4>2. CASE acc[at[t]] # "free"
          <5>1. pjsua_acc_del(at[t]) /\ UNCHANGED replies
            BY <1>3, <2>2, <4>2 DEF ClearAccounts
          <5>2. dflt' \in Slot
            BY <1>3, <2>2, <4>2, SlotsAssumption DEF ClearAccounts, TypeOK, Slot
          <5>3. Accounts'
            BY <3>1, <5>1, InvAccounts, DeleteAccounts
          <5> QED  BY <5>2, <5>3 DEF Accounts
        <4> QED  BY <4>1, <4>2
      <3> QED  BY <1>3, <2>2, <3>1, <3>2 DEF ClearAccounts, TypeOK, ui
    <2> QED  BY <2>1, <2>2
  <1>4. CASE MarkRegistering(t)
    BY <1>4 DEF MarkRegistering, TypeOK, ui
  <1>5. CASE AddAccount(t)
    <2>1. /\ acc' \in [Slot -> {"free", "none", "idle", "busy"}]
          /\ dflt' \in Slot
          /\ at' \in [Threads -> 0 .. Slots]
          /\ thr' \in [Threads -> {"off", "check", "set", "clear", "mark",
                                    "add", "send", "fail"}]
      <3>1. CASE thr' = [thr EXCEPT ![t] = "fail"] /\ UNCHANGED <<acc, dflt, at>>
        BY <3>1 DEF TypeOK
      <3>2. ASSUME NEW i \in Slot,
                   acc' = [acc EXCEPT ![i] = "none"], dflt' = i,
                   at' = [at EXCEPT ![t] = i],
                   thr' = [thr EXCEPT ![t] = "send"]
            PROVE  /\ acc' \in [Slot -> {"free", "none", "idle", "busy"}]
                   /\ dflt' \in Slot
                   /\ at' \in [Threads -> 0 .. Slots]
                   /\ thr' \in [Threads -> {"off", "check", "set", "clear",
                                             "mark", "add", "send", "fail"}]
        <4>1. i \in 0 .. Slots
          BY SlotsAssumption DEF Slot
        <4> QED  BY <3>2, <4>1 DEF TypeOK
      <3> QED  BY <1>5, <3>1, <3>2 DEF AddAccount
    <2> QED  BY <1>5, <2>1 DEF AddAccount, TypeOK, ui
  <1>6. CASE SendRegister(t)
    <2>1. at[t] \in Slot /\ Register(at[t]) /\ UNCHANGED replies
      BY <1>6 DEF SendRegister, SendHasSlot
    <2>2. Accounts'
      BY <2>1, InvAccounts, RegisterAccounts
    <2> QED  BY <1>6, <2>2 DEF SendRegister, TypeOK, Accounts, ui
  <1>7. CASE LoginFailed(t)
    BY <1>7 DEF LoginFailed, TypeOK, regErrorAlert, Broadcast, Codes, ui
  <1> QED  BY <1>1, <1>2, <1>3, <1>4, <1>5, <1>6, <1>7 DEF RegisterThread

\* Taking one answer out of the queue leaves the others, each once.
LEMMA ReplyTaken ==
    ASSUME Inv, NEW x \in Tsx, NextReply(x)
    PROVE  /\ replies' \in Seq(Tsx)
           /\ tsx[x].st \in Answers
           /\ \A n \in 1 .. Len(replies') : replies'[n] # x
           /\ \A n \in 1 .. Len(replies') :
                 \E k \in 1 .. Len(replies) : replies'[n] = replies[k]
           /\ \A m, n \in 1 .. Len(replies') : replies'[m] = replies'[n] => m = n
  <1>1. PICK k \in 1 .. Len(replies) :
           /\ replies[k] = x
           /\ replies' = [n \in 1 .. Len(replies) - 1 |->
                            IF n < k THEN replies[n] ELSE replies[n + 1]]
    BY DEF NextReply
  <1>2. replies \in Seq(Tsx) /\ Len(replies) \in Nat /\ Len(replies) - 1 \in Nat
    BY <1>1 DEF Inv, TypeOK
  <1>3. \A n \in 1 .. Len(replies) : replies[n] \in Tsx
    BY <1>2
  <1>4. replies' \in Seq(Tsx) /\ Len(replies') = Len(replies) - 1
    BY <1>1, <1>2, <1>3
  <1>5. \A n \in 1 .. Len(replies') :
           LET k2 == IF n < k THEN n ELSE n + 1
           IN  k2 \in 1 .. Len(replies) /\ k2 # k /\ replies'[n] = replies[k2]
    BY <1>1, <1>2, <1>4
  <1>6. \A m, n \in 1 .. Len(replies) : replies[m] = replies[n] => m = n
    BY DEF Inv, RepliesAreAnswers
  <1>7. \A n \in 1 .. Len(replies') : replies'[n] # x
    BY <1>1, <1>5, <1>6
  <1>8. \A m, n \in 1 .. Len(replies') : replies'[m] = replies'[n] => m = n
    BY <1>1, <1>2, <1>4, <1>5, <1>6
  <1>9. tsx[x].st \in Answers
    BY <1>1 DEF Inv, RepliesAreAnswers
  <1> QED  BY <1>4, <1>5, <1>7, <1>8, <1>9

\* The worker handles answers and timers.
LEMMA WorkerType ==
    ASSUME Inv, Worker
    PROVE  TypeOK'
  <1> USE DEF Inv
  <1>1. ASSUME NEW x \in Tsx, regc_cb(x)
        PROVE  TypeOK'
    <2>1. NextReply(x) /\ tsx[x].owner # Gone
      BY <1>1 DEF regc_cb
    <2>2. replies' \in Seq(Tsx) /\ tsx[x].st \in Answers
      BY <2>1, ReplyTaken
    <2>3. tsx[x].owner \in Slot
      BY <2>1 DEF TypeOK, Transaction
    <2>4. tsx' \in [Tsx -> Transaction]
      BY <1>1 DEF regc_cb, TypeOK, Transaction, Free
    <2>5. /\ acc' \in [Slot -> {"free", "none", "idle", "busy"}]
          /\ retry' \subseteq Slot
          /\ registering' = 0
      BY <1>1, <2>3 DEF regc_cb, TypeOK
    <2>6. showLoginState(tsx[x].st)
      BY <1>1 DEF regc_cb
    <2>7. /\ login' \in {"UNREGISTERED", "REGISTERING", "SUCCESS", "ERROR"}
          /\ {starting', shown'} \subseteq Codes
          /\ odd' \in BOOLEAN
          /\ dialog' \in {"none", "shown", "done", "cancelling"}
      <3>1. tsx[x].st \in Codes
        BY <2>2 DEF Codes
      <3>2. CASE tsx[x].st = "ok"
        BY <2>6, <3>2 DEF showLoginState, Broadcast, TypeOK, Codes
      <3>3. CASE tsx[x].st # "ok" /\ login = "UNREGISTERED"
        BY <2>6, <3>3 DEF showLoginState, TypeOK
      <3>4. CASE tsx[x].st # "ok" /\ login # "UNREGISTERED"
        BY <2>6, <3>1, <3>4
        DEF showLoginState, regErrorAlert, Broadcast, TypeOK
      <3> QED  BY <3>2, <3>3, <3>4
    <2> QED  BY <1>1, <2>2, <2>4, <2>5, <2>7 DEF regc_cb, TypeOK
  <1>2. ASSUME NEW x \in Tsx, DeletedRegcAnswered(x)
        PROVE  TypeOK'
    <2>1. NextReply(x)
      BY <1>2 DEF DeletedRegcAnswered
    <2>2. replies' \in Seq(Tsx)
      BY <2>1, ReplyTaken
    <2>3. tsx' \in [Tsx -> Transaction]
      BY <1>2 DEF DeletedRegcAnswered, TypeOK, Transaction, Free
    <2> QED  BY <1>2, <2>2, <2>3 DEF DeletedRegcAnswered, TypeOK, ui
  <1>3. CASE RegisterAgain
    <2>1. CASE registering = 2
      <3>1. Register(dflt) /\ dflt \in Slot /\ UNCHANGED replies
        BY <1>3, <2>1 DEF RegisterAgain, TypeOK
      <3>2. Accounts'
        BY <3>1, InvAccounts, RegisterAccounts
      <3> QED  BY <1>3, <2>1, <3>2 DEF RegisterAgain, Accounts, TypeOK, ui
    <2>2. CASE registering # 2
      BY <1>3, <2>2 DEF RegisterAgain, TypeOK, ui
    <2> QED  BY <2>1, <2>2
  <1>4. CASE ResetRegistering
    BY <1>4 DEF ResetRegistering, TypeOK, ui
  <1>5. ASSUME NEW i \in Slot, RetryTimer(i)
        PROVE  TypeOK'
    <2>1. Register(i) /\ UNCHANGED replies
      BY <1>5 DEF RetryTimer
    <2>2. Accounts'
      BY <2>1, InvAccounts, RegisterAccounts
    <2> QED  BY <1>5, <2>2 DEF RetryTimer, Accounts, TypeOK, ui
  <1> QED  BY <1>1, <1>2, <1>3, <1>4, <1>5 DEF Worker

LEMMA RefreshType ==
    ASSUME Inv, NEW i \in Slot, RefreshTimer(i)
    PROVE  TypeOK'
  <1>1. Register(i) /\ UNCHANGED replies
    BY DEF RefreshTimer
  <1>2. Accounts'
    BY <1>1, InvAccounts, RegisterAccounts
  <1> QED  BY <1>2 DEF Inv, RefreshTimer, Accounts, TypeOK, ui

LEMMA ServerType ==
    ASSUME Inv, NEW x \in Tsx, NEW k \in Kinds, Answer(x, k)
    PROVE  TypeOK'
  <1>1. tsx' \in [Tsx -> Transaction]
    BY KindsAssumption DEF Inv, Answer, TypeOK, Transaction
  <1>2. bound' \in BOOLEAN
    BY DEF Inv, Answer, TypeOK
  <1>3. replies' \in Seq(Tsx)
    BY DEF Inv, Answer, TypeOK
  <1> QED  BY <1>1, <1>2, <1>3 DEF Inv, Answer, TypeOK, ui

\* Screens start threads, and write the alert, the dialog and the starter.
LEMMA ScreenType ==
    ASSUME Inv, Screen
    PROVE  TypeOK'
  <1> USE DEF Inv, TypeOK, ui
  <1>0. ASSUME StartThread
        PROVE  thr' \in [Threads -> {"off", "check", "set", "clear", "mark",
                                     "add", "send", "fail"}]
    BY <1>0 DEF StartThread
  <1>e. ASSUME NEW e, Spend(e)
        PROVE  events' \in 0 .. MaxEvents
    BY <1>e, MaxEventsAssumption DEF Spend
  <1>1. CASE MainPageRegister
    BY <1>0, <1>1, <1>e DEF MainPageRegister
  <1>2. CASE SettingsReregister
    BY <1>0, <1>2, <1>e DEF SettingsReregister
  <1>3. CASE CancelDialog \/ SetUnregistered
    BY <1>3 DEF CancelDialog, SetUnregistered
  <1>4. CASE DismissDialog
    BY <1>4 DEF DismissDialog
  <1>5. CASE OpenSettings
    BY <1>5 DEF OpenSettings
  <1>6. CASE CloseSettings
    BY <1>6 DEF CloseSettings
  <1>7. CASE MemberStateChange
    BY <1>0, <1>7, <1>e DEF MemberStateChange
  <1>8. CASE CallError
    BY <1>8, <1>e DEF CallError, Codes, Answers
  <1>9. ASSUME NEW code, checkSpecialError(code)
        PROVE  /\ odd' \in BOOLEAN
               /\ starter' \in {"USER", "ERRORCODE"}
               /\ thr' \in [Threads -> {"off", "check", "set", "clear", "mark",
                                         "add", "send", "fail"}]
    BY <1>0, <1>9 DEF checkSpecialError
  <1>10. CASE ShowAlert
    BY <1>9, <1>10 DEF ShowAlert, Codes
  <1>11. CASE ResumeAlert
    BY <1>9, <1>11, <1>e DEF ResumeAlert
  <1>12. CASE CloseAlert
    BY <1>12 DEF CloseAlert, Codes
  <1> QED  BY <1>1, <1>2, <1>3, <1>4, <1>5, <1>6, <1>7, <1>8, <1>10, <1>11,
              <1>12 DEF Screen

-----------------------------------------------------------------------------
(* Transactions and progress *)

\* Steps that leave accounts, transactions and answers alone.
LEMMA AccountsUnchanged ==
    ASSUME Accounts, UNCHANGED <<acc, retry, tsx, replies>>
    PROVE  Accounts'
  BY DEF Accounts, RepliesAreAnswers, FreeIsGone, BusyHasTransaction, Pending

LEMMA ThreadInv ==
    ASSUME Inv, NEW t \in Threads, RegisterThread(t)
    PROVE  Accounts' /\ SendHasSlot' /\ RegisteringInProgress'
  <1>0. Accounts /\ replies \in Seq(Tsx)
    BY InvAccounts
  <1> USE DEF Inv
  <1>1. CASE CheckState(t)
    <2>1. Accounts'
      BY <1>0, <1>1, AccountsUnchanged DEF CheckState
    <2>2. SendHasSlot'
      BY <1>1 DEF CheckState, TypeOK, SendHasSlot
    <2>3. RegisteringInProgress'
      BY <1>1 DEF CheckState, TypeOK, RegisteringInProgress
    <2> QED  BY <2>1, <2>2, <2>3
  <1>2. CASE SetRegistering(t)
    <2>1. Accounts'
      BY <1>0, <1>2, AccountsUnchanged DEF SetRegistering
    <2>2. SendHasSlot'
      BY <1>2 DEF SetRegistering, TypeOK, SendHasSlot
    <2>3. RegisteringInProgress'
      BY <1>2 DEF SetRegistering, TypeOK, RegisteringInProgress
    <2> QED  BY <2>1, <2>2, <2>3
  <1>3. CASE ClearAccounts(t)
    <2>1. Accounts'
      <3>1. CASE at[t] = Slots \/ acc[at[t]] = "free"
        BY <1>0, <1>3, <3>1, AccountsUnchanged DEF ClearAccounts
      <3>2. CASE ~(at[t] = Slots \/ acc[at[t]] = "free")
        <4>1. at[t] \in Slot
          BY <3>2, SlotsAssumption DEF TypeOK, Slot
        <4>2. pjsua_acc_del(at[t]) /\ UNCHANGED replies
          BY <1>3, <3>2 DEF ClearAccounts
        <4> QED  BY <1>0, <4>1, <4>2, DeleteAccounts
      <3> QED  BY <3>1, <3>2
    <2>2. thr'[t] \in {"clear", "mark"}
      BY <1>3 DEF ClearAccounts, TypeOK
    <2>3. \A u \in Threads : u # t => thr'[u] = thr[u] /\ at'[u] = at[u]
      BY <1>3 DEF ClearAccounts, TypeOK
    <2>4. SendHasSlot'
      BY <2>2, <2>3 DEF SendHasSlot
    <2>5. RegisteringInProgress'
      BY <2>2 DEF RegisteringInProgress
    <2> QED  BY <2>1, <2>4, <2>5
  <1>4. CASE MarkRegistering(t)
    <2>1. Accounts'
      BY <1>0, <1>4, AccountsUnchanged DEF MarkRegistering
    <2>2. SendHasSlot'
      BY <1>4 DEF MarkRegistering, TypeOK, SendHasSlot
    <2>3. RegisteringInProgress'
      BY <1>4 DEF MarkRegistering, TypeOK, RegisteringInProgress
    <2> QED  BY <2>1, <2>2, <2>3
  <1>5. CASE AddAccount(t)
    <2>1. CASE thr' = [thr EXCEPT ![t] = "fail"] /\ UNCHANGED <<acc, dflt, at>>
      <3>1. Accounts'
        BY <1>0, <1>5, <2>1, AccountsUnchanged DEF AddAccount
      <3>2. SendHasSlot'
        BY <2>1 DEF TypeOK, SendHasSlot
      <3>3. RegisteringInProgress'
        BY <2>1 DEF TypeOK, RegisteringInProgress
      <3> QED  BY <3>1, <3>2, <3>3
    <2>2. ASSUME NEW i \in Slot, acc[i] = "free",
                 acc' = [acc EXCEPT ![i] = "none"],
                 at' = [at EXCEPT ![t] = i],
                 thr' = [thr EXCEPT ![t] = "send"]
          PROVE  Accounts' /\ SendHasSlot' /\ RegisteringInProgress'
      <3>1. Accounts'
        BY <1>0, <1>5, <2>2 DEF AddAccount, Accounts, RepliesAreAnswers,
                                FreeIsGone, BusyHasTransaction, Pending
      <3>2. thr'[t] = "send" /\ at'[t] = i /\ acc'[i] = "none"
        BY <2>2 DEF TypeOK
      <3>3. SendHasSlot'
        BY <2>2, <3>2 DEF TypeOK, SendHasSlot
      <3>4. RegisteringInProgress'
        BY <3>2 DEF RegisteringInProgress
      <3> QED  BY <3>1, <3>3, <3>4
    <2> QED  BY <1>5, <2>1, <2>2 DEF AddAccount
  <1>6. CASE SendRegister(t)
    <2>1. at[t] \in Slot /\ Register(at[t]) /\ UNCHANGED replies
      BY <1>6 DEF SendRegister, SendHasSlot
    <2>2. /\ Accounts'
          /\ \A j \in Slot : acc[j] = "busy" => acc'[j] = "busy"
          /\ \A j \in Slot : acc[j] = "free" <=> acc'[j] = "free"
          /\ acc[at[t]] # "free" => acc'[at[t]] = "busy"
      BY <1>0, <2>1, RegisterAccounts
    <2>3. /\ login' = login
          /\ at' = at
          /\ \A u \in Threads : u # t => thr'[u] = thr[u]
          /\ thr[t] = "send"
          /\ thr'[t] = "off"
      BY <1>6 DEF SendRegister, TypeOK
    <2>4. SendHasSlot'
      BY <2>3 DEF SendHasSlot
    <2>5. RegisteringInProgress'
      <3> SUFFICES ASSUME login = "REGISTERING"
                   PROVE  RegisteringInProgress'
        BY <2>3 DEF RegisteringInProgress
      <3>1. CASE \E u \in Threads : thr[u] \in {"clear", "mark", "add", "fail"}
        BY <2>3, <3>1 DEF RegisteringInProgress
      <3>2. CASE \E u \in Threads : thr[u] = "send" /\ acc[at[u]] # "free"
        <4>1. PICK u \in Threads : thr[u] = "send" /\ acc[at[u]] # "free"
          BY <3>2
        <4>2. CASE u = t
          BY <2>1, <2>2, <4>1, <4>2 DEF RegisteringInProgress
        <4>3. CASE u # t
          <5>1. at[u] \in Slot
            BY <4>1 DEF SendHasSlot
          <5> QED  BY <2>2, <2>3, <4>1, <4>3, <5>1 DEF RegisteringInProgress
        <4> QED  BY <4>2, <4>3
      <3>3. CASE \E i \in Slot : acc[i] = "busy"
        BY <2>2, <3>3 DEF RegisteringInProgress
      <3> QED  BY <3>1, <3>2, <3>3 DEF RegisteringInProgress
    <2> QED  BY <2>2, <2>4, <2>5
  <1>7. CASE LoginFailed(t)
    <2>1. Accounts'
      BY <1>0, <1>7, AccountsUnchanged DEF LoginFailed
    <2>2. SendHasSlot'
      BY <1>7 DEF LoginFailed, TypeOK, SendHasSlot
    <2>3. RegisteringInProgress'
      BY <1>7 DEF LoginFailed, RegisteringInProgress
    <2> QED  BY <2>1, <2>2, <2>3
  <1> QED  BY <1>1, <1>2, <1>3, <1>4, <1>5, <1>6, <1>7 DEF RegisterThread

\* A REGISTER sent by the worker, or by a timer, only adds a busy account.
LEMMA ResendInv ==
    ASSUME Inv, NEW i \in Slot, Register(i), UNCHANGED <<login, thr, at, replies>>
    PROVE  Accounts' /\ SendHasSlot' /\ RegisteringInProgress'
  <1>1. /\ Accounts'
        /\ \A j \in Slot : acc[j] = "busy" => acc'[j] = "busy"
        /\ \A j \in Slot : acc[j] = "free" <=> acc'[j] = "free"
    BY InvAccounts, RegisterAccounts
  <1>2. SendHasSlot'
    BY DEF Inv, SendHasSlot
  <1>3. RegisteringInProgress'
    BY <1>1 DEF Inv, SendHasSlot, RegisteringInProgress
  <1> QED  BY <1>1, <1>2, <1>3

\* Steps that touch none of this, but may start a thread.
LEMMA QuietInv ==
    ASSUME Inv, UNCHANGED <<acc, retry, tsx, replies, at>>,
           login' = login \/ login' # "REGISTERING",
           thr' = thr \/ StartThread
    PROVE  Accounts' /\ SendHasSlot' /\ RegisteringInProgress'
  <1>1. Accounts'
    BY InvAccounts, AccountsUnchanged
  <1>2. \A u \in Threads : thr'[u] = thr[u] \/ (thr[u] = "off" /\ thr'[u] = "check")
    BY DEF Inv, TypeOK, StartThread
  <1>3. SendHasSlot'
    BY <1>2 DEF Inv, SendHasSlot
  <1>4. RegisteringInProgress'
    BY <1>2 DEF Inv, RegisteringInProgress
  <1> QED  BY <1>1, <1>3, <1>4

\* An answer frees its transaction, and the account that waited for it.
LEMMA AnswerHandledInv ==
    ASSUME Inv, NEW x \in Tsx, regc_cb(x) \/ DeletedRegcAnswered(x)
    PROVE  Accounts' /\ SendHasSlot' /\ RegisteringInProgress'
  <1> USE DEF Inv
  <1>0. /\ NextReply(x)
        /\ tsx' = [tsx EXCEPT ![x] = Free]
        /\ thr' = thr
        /\ at' = at
    BY DEF regc_cb, DeletedRegcAnswered
  <1>1. /\ replies' \in Seq(Tsx)
        /\ tsx[x].st \in Answers
        /\ \A n \in 1 .. Len(replies') : replies'[n] # x
        /\ \A n \in 1 .. Len(replies') :
              \E k \in 1 .. Len(replies) : replies'[n] = replies[k]
        /\ \A m, n \in 1 .. Len(replies') : replies'[m] = replies'[n] => m = n
    BY <1>0, ReplyTaken
  <1>2. tsx' \in [Tsx -> Transaction]
    BY <1>0 DEF TypeOK, Transaction, Free
  <1>3. /\ tsx'[x].st = "free" /\ tsx'[x].owner = Gone
        /\ \A y \in Tsx : y # x => tsx'[y] = tsx[y]
    BY <1>0 DEF TypeOK, Free
  <1>4. RepliesAreAnswers'
    <2>1. \A n \in 1 .. Len(replies') : replies'[n] \in Tsx
      BY <1>1
    <2>2. ASSUME NEW n \in 1 .. Len(replies')
          PROVE  tsx'[replies'[n]].st \in Answers
      <3>1. PICK k \in 1 .. Len(replies) : replies'[n] = replies[k]
        BY <1>1
      <3>2. tsx[replies[k]].st \in Answers
        BY DEF RepliesAreAnswers
      <3>3. tsx'[replies'[n]] = tsx[replies[k]]
        BY <1>1, <1>3, <2>1, <3>1
      <3> QED  BY <3>2, <3>3
    <2> QED  BY <1>1, <2>2 DEF RepliesAreAnswers
  <1>5. FreeIsGone'
    BY <1>3 DEF FreeIsGone, Pending
  <1>6. Pending(x)
    BY <1>1 DEF Pending, Answers
  <1>7. SendHasSlot'
    BY <1>0 DEF SendHasSlot
  <1>8. CASE regc_cb(x)
    <2>1. tsx[x].owner \in Slot
      BY <1>8 DEF regc_cb, TypeOK, Transaction
    <2>2. /\ acc' \in [Slot -> {"free", "none", "idle", "busy"}]
          /\ retry' \subseteq Slot
          /\ acc'[tsx[x].owner] # "busy"
          /\ \A j \in Slot : j # tsx[x].owner => acc'[j] = acc[j]
      BY <1>8, <2>1 DEF regc_cb, TypeOK
    <2>3. \A y \in Tsx : y # x /\ Pending(y) => tsx[y].owner # tsx[x].owner
      BY <1>6, <2>1 DEF BusyHasTransaction, Slot, Gone
    <2>4. \A j \in Slot : j # Gone
      BY DEF Slot, Gone
    <2>5. BusyHasTransaction'
      BY <1>3, <2>1, <2>2, <2>3, <2>4 DEF BusyHasTransaction, Pending
    <2>6. login' # "REGISTERING"
      BY <1>8 DEF regc_cb, showLoginState
    <2>7. RegisteringInProgress'
      BY <2>6 DEF RegisteringInProgress
    <2> QED  BY <1>2, <1>4, <1>5, <1>7, <2>2, <2>5, <2>7 DEF Accounts
  <1>9. CASE DeletedRegcAnswered(x)
    <2>1. tsx[x].owner = Gone /\ UNCHANGED <<acc, retry, login>>
      BY <1>9 DEF DeletedRegcAnswered
    <2>2. \A j \in Slot : j # Gone
      BY DEF Slot, Gone
    <2>3. BusyHasTransaction'
      BY <1>3, <2>1, <2>2 DEF BusyHasTransaction, Pending
    <2>4. RegisteringInProgress'
      BY <1>0, <2>1 DEF RegisteringInProgress
    <2> QED  BY <1>2, <1>4, <1>5, <1>7, <2>1, <2>3, <2>4 DEF Accounts, TypeOK
  <1> QED  BY <1>8, <1>9

LEMMA WorkerInv ==
    ASSUME Inv, Worker
    PROVE  Accounts' /\ SendHasSlot' /\ RegisteringInProgress'
  <1>1. ASSUME NEW x \in Tsx, regc_cb(x) \/ DeletedRegcAnswered(x)
        PROVE  Accounts' /\ SendHasSlot' /\ RegisteringInProgress'
    BY <1>1, AnswerHandledInv
  <1>2. CASE RegisterAgain
    <2>1. CASE registering = 2
      <3>1. dflt \in Slot /\ Register(dflt) /\ UNCHANGED <<login, thr, at, replies>>
        BY <1>2, <2>1 DEF RegisterAgain, Inv, TypeOK
      <3> QED  BY <3>1, ResendInv
    <2>2. CASE registering # 2
      BY <1>2, <2>2, QuietInv DEF RegisterAgain
    <2> QED  BY <2>1, <2>2
  <1>3. CASE ResetRegistering
    BY <1>3, QuietInv DEF ResetRegistering
  <1>4. ASSUME NEW i \in Slot, RetryTimer(i)
        PROVE  Accounts' /\ SendHasSlot' /\ RegisteringInProgress'
    BY <1>4, ResendInv DEF RetryTimer
  <1> QED  BY <1>1, <1>2, <1>3, <1>4 DEF Worker

\* The server answers a request that was sent, so it is not in the queue yet.
LEMMA ServerInv ==
    ASSUME Inv, NEW x \in Tsx, NEW k \in Kinds, Answer(x, k)
    PROVE  Accounts' /\ SendHasSlot' /\ RegisteringInProgress'
  <1> USE DEF Inv
  <1>1. /\ replies' = Append(replies, x)
        /\ tsx' = [tsx EXCEPT ![x].st = k]
        /\ UNCHANGED <<acc, retry, login, thr, at>>
        /\ tsx[x].st = "sent"
        /\ k \in Answers
    BY KindsAssumption DEF Answer
  <1>2. tsx' \in [Tsx -> Transaction]
    BY <1>1 DEF TypeOK, Transaction
  <1>3. /\ tsx'[x].st = k /\ tsx'[x].owner = tsx[x].owner
        /\ \A y \in Tsx : y # x => tsx'[y] = tsx[y]
    BY <1>1 DEF TypeOK, Transaction
  <1>4. RepliesAreAnswers'
    <2>1. /\ replies \in Seq(Tsx)
          /\ Len(replies') = Len(replies) + 1
          /\ replies'[Len(replies) + 1] = x
          /\ \A n \in 1 .. Len(replies) : replies'[n] = replies[n] /\ replies[n] \in Tsx
      BY <1>1 DEF TypeOK
    <2>2. \A n \in 1 .. Len(replies) : replies[n] # x
      BY <1>1 DEF RepliesAreAnswers, Answers
    <2>3. Len(replies) \in Nat
      BY <2>1
    <2> QED  BY <1>1, <1>3, <2>1, <2>2, <2>3 DEF RepliesAreAnswers
  <1>5. \A y \in Tsx : Pending(y)' <=> Pending(y)
    BY <1>1, <1>3 DEF Pending, Answers
  <1>6. FreeIsGone'
    BY <1>3, <1>5 DEF FreeIsGone
  <1>7. BusyHasTransaction'
    BY <1>1, <1>3, <1>5 DEF BusyHasTransaction
  <1>8. SendHasSlot' /\ RegisteringInProgress'
    BY <1>1 DEF SendHasSlot, RegisteringInProgress
  <1> QED  BY <1>1, <1>2, <1>4, <1>6, <1>7, <1>8 DEF Accounts, TypeOK

LEMMA ScreenInv ==
    ASSUME Inv, Screen
    PROVE  Accounts' /\ SendHasSlot' /\ RegisteringInProgress'
  <1>1. /\ UNCHANGED <<acc, retry, tsx, replies, at>>
        /\ login' = login \/ login' # "REGISTERING"
        /\ thr' = thr \/ StartThread
    BY DEF Screen, MainPageRegister, SettingsReregister, CancelDialog, SetUnregistered,
           DismissDialog, OpenSettings, CloseSettings, MemberStateChange,
           CallError, ShowAlert, ResumeAlert, CloseAlert, checkSpecialError
  <1> QED  BY <1>1, QuietInv

-----------------------------------------------------------------------------
(* The theorems *)

LEMMA InitInv == Init => Inv
  <1> SUFFICES ASSUME Init
               PROVE  Inv
    OBVIOUS
  <1>1. TypeOK
    <2>1. thr \in [Threads -> {"off", "check", "set", "clear", "mark", "add",
                               "send", "fail"}]
      BY DEF Init
    <2>2. at \in [Threads -> 0 .. Slots] /\ dflt \in Slot
      BY SlotsAssumption DEF Init, Slot
    <2>3. tsx \in [Tsx -> Transaction] /\ replies \in Seq(Tsx)
      BY DEF Init, Free, Transaction
    <2>4. events \in 0 .. MaxEvents
      BY MaxEventsAssumption DEF Init
    <2>5. acc \in [Slot -> {"free", "none", "idle", "busy"}] /\ retry \subseteq Slot
      BY DEF Init
    <2>6. {bound, sick, odd, settings} \subseteq BOOLEAN
      BY DEF Init
    <2>7. {starting, shown} \subseteq Codes
      BY DEF Init, Codes
    <2>8. /\ login \in {"UNREGISTERED", "REGISTERING", "SUCCESS", "ERROR"}
          /\ starter \in {"USER", "ERRORCODE"}
          /\ registering \in 0 .. 2
          /\ worker \in {"idle", "resend", "reset"}
          /\ dialog \in {"none", "shown", "done", "cancelling"}
      BY DEF Init
    <2> QED  BY <2>1, <2>2, <2>3, <2>4, <2>5, <2>6, <2>7, <2>8 DEF TypeOK
  <1>2. SendHasSlot
    BY DEF Init, SendHasSlot
  <1>3. RepliesAreAnswers /\ FreeIsGone
    BY DEF Init, RepliesAreAnswers, FreeIsGone, Free
  <1>4. BusyHasTransaction
    BY DEF Init, BusyHasTransaction, Pending, Free
  <1>5. RegisteringInProgress
    BY DEF Init, RegisteringInProgress
  <1> QED  BY <1>1, <1>2, <1>3, <1>4, <1>5 DEF Inv

LEMMA NextInv == Inv /\ [Next]_vars => Inv'
  <1> SUFFICES ASSUME Inv, [Next]_vars
               PROVE  Inv'
    OBVIOUS
  <1>1. CASE Next
    <2>1. ASSUME NEW t \in Threads, RegisterThread(t)
          PROVE  Inv'
      BY <2>1, ThreadType, ThreadInv DEF Inv, Accounts
    <2>2. CASE Worker
      BY <2>2, WorkerType, WorkerInv DEF Inv, Accounts
    <2>3. ASSUME NEW i \in Slot, RefreshTimer(i)
          PROVE  Inv'
      <3>1. Accounts' /\ SendHasSlot' /\ RegisteringInProgress'
        BY <2>3, ResendInv DEF RefreshTimer
      <3> QED  BY <2>3, <3>1, RefreshType DEF Inv, Accounts
    <2>4. ASSUME NEW x \in Tsx, NEW k \in Kinds, Answer(x, k)
          PROVE  Inv'
      BY <2>4, ServerType, ServerInv DEF Inv, Accounts
    <2>5. CASE Recover
      <3>1. TypeOK'
        BY <2>5 DEF Recover, Inv, TypeOK, ui
      <3>2. Accounts' /\ SendHasSlot' /\ RegisteringInProgress'
        BY <2>5, QuietInv DEF Recover
      <3> QED  BY <3>1, <3>2 DEF Inv, Accounts
    <2>6. CASE Screen
      BY <2>6, ScreenType, ScreenInv DEF Inv, Accounts
    <2> QED  BY <1>1, <2>1, <2>2, <2>3, <2>4, <2>5, <2>6 DEF Next
  <1>2. CASE UNCHANGED vars
    BY <1>2 DEF vars, ui, Inv, TypeOK, SendHasSlot, RepliesAreAnswers,
                FreeIsGone, BusyHasTransaction, RegisteringInProgress, Pending
  <1> QED  BY <1>1, <1>2

\* Every reachable state is well typed, with any number of threads, accounts
\* and transactions.
THEOREM TypeCorrect == Safety => []TypeOK
  <1>1. Inv => TypeOK
    BY DEF Inv
  <1> QED  BY InitInv, NextInv, <1>1, PTL DEF Safety

\* An account waits for exactly one transaction, whatever logins, deletions
\* and late answers came before: no regc stays busy for ever.
THEOREM OneTransactionPerAccount == Safety => []BusyHasTransaction
  <1>1. Inv => BusyHasTransaction
    BY DEF Inv
  <1> QED  BY InitInv, NextInv, <1>1, PTL DEF Safety

\* Whenever doRegister says "Register is in progress now", one is.
THEOREM ProgressIsReal == Safety => []RegisteringInProgress
  <1>1. Inv => RegisteringInProgress
    BY DEF Inv
  <1> QED  BY InitInv, NextInv, <1>1, PTL DEF Safety

-----------------------------------------------------------------------------
(* The abstract login *)

LEMMA UnderWayBoolean == UnderWay \in BOOLEAN /\ UnderWay' \in BOOLEAN
  BY DEF UnderWay

\* Steps that show nothing: the work goes on, is taken up again, or is over
\* for a user who is not waiting for it.
LEMMA Unseen ==
    ASSUME login' = login, Quitting' = Quitting,
           UnderWay => UnderWay' \/ login = "UNREGISTERED"
    PROVE  [L!Next]_<<login, UnderWay, Quitting>>
  <1>1. CASE UnderWay' = UnderWay
    BY <1>1
  <1>2. CASE UnderWay' /\ ~UnderWay
    <2>1. UnderWay' = TRUE
      BY <1>2, UnderWayBoolean
    <2> QED  BY <2>1 DEF L!Next, L!Retry
  <1>3. CASE ~UnderWay' /\ UnderWay
    <2>1. UnderWay' = FALSE /\ login = "UNREGISTERED"
      BY <1>3, UnderWayBoolean
    <2> QED  BY <1>3, <2>1 DEF L!Next, L!Ignore
  <1> QED  BY <1>1, <1>2, <1>3, UnderWayBoolean

\* Results come only from work.
LEMMA Reported ==
    ASSUME UnderWay, login' \in {"SUCCESS", "ERROR"}, Quitting' = Quitting
    PROVE  [L!Next]_<<login, UnderWay, Quitting>>
  BY UnderWayBoolean DEF L!Next, L!Report

LEMMA ThreadShown ==
    ASSUME Inv, NEW t \in Threads, RegisterThread(t)
    PROVE  [L!Next]_<<login, UnderWay, Quitting>>
  <1>0. Quitting' = Quitting
    BY DEF RegisterThread, CheckState, SetRegistering, ClearAccounts,
           MarkRegistering, AddAccount, SendRegister, LoginFailed, Broadcast,
           Quitting, ui
  <1> USE <1>0 DEF Inv
  <1>1. CASE CheckState(t)
    <2>1. /\ UNCHANGED <<acc, at, login>>
          /\ \A u \in Threads : u # t => thr'[u] = thr[u]
          /\ thr[t] = "check"
      BY <1>1 DEF CheckState, TypeOK
    <2>2. UnderWay => UnderWay'
      BY <2>1 DEF UnderWay
    <2> QED  BY <2>1, <2>2, Unseen
  <1>2. CASE SetRegistering(t)
    <2>1. thr'[t] = "clear" /\ login' = "REGISTERING"
      BY <1>2 DEF SetRegistering, TypeOK
    <2>2. UnderWay' = TRUE
      BY <2>1 DEF UnderWay
    <2> QED  BY <2>1, <2>2 DEF L!Next, L!Begin
  <1>3. CASE ClearAccounts(t) \/ MarkRegistering(t)
    <2>1. thr'[t] \in {"clear", "mark", "add"} /\ login' = login
      BY <1>3 DEF ClearAccounts, MarkRegistering, TypeOK
    <2>2. UnderWay'
      BY <2>1 DEF UnderWay
    <2> QED  BY <2>1, <2>2, Unseen
  <1>4. CASE AddAccount(t)
    <2>1. login' = login
      BY <1>4 DEF AddAccount
    <2>2. CASE thr' = [thr EXCEPT ![t] = "fail"]
      <3>1. thr'[t] = "fail"
        BY <2>2 DEF TypeOK
      <3>2. UnderWay'
        BY <3>1 DEF UnderWay
      <3> QED  BY <2>1, <3>2, Unseen
    <2>3. ASSUME NEW i \in Slot, acc' = [acc EXCEPT ![i] = "none"],
                 at' = [at EXCEPT ![t] = i], thr' = [thr EXCEPT ![t] = "send"]
          PROVE  UnderWay'
      <3>1. thr'[t] = "send" /\ acc'[at'[t]] = "none"
        BY <2>3 DEF TypeOK
      <3> QED  BY <3>1 DEF UnderWay
    <2> QED  BY <1>4, <2>1, <2>2, <2>3, Unseen DEF AddAccount
  <1>5. CASE SendRegister(t)
    <2>1. at[t] \in Slot /\ Register(at[t]) /\ UNCHANGED <<replies, login, at>>
      BY <1>5 DEF SendRegister, SendHasSlot
    <2>2. /\ \A j \in Slot : acc[j] = "busy" => acc'[j] = "busy"
          /\ \A j \in Slot : acc[j] = "free" <=> acc'[j] = "free"
          /\ acc[at[t]] # "free" => acc'[at[t]] = "busy"
      BY <2>1, InvAccounts, RegisterAccounts
    <2>3. (\A u \in Threads : u # t => thr'[u] = thr[u]) /\ thr[t] = "send"
      BY <1>5 DEF SendRegister, TypeOK
    <2>4. ASSUME UnderWay PROVE UnderWay'
      <3>1. CASE \E u \in Threads : thr[u] \in {"clear", "mark", "add", "fail"}
        BY <2>3, <3>1 DEF UnderWay
      <3>2. ASSUME NEW u \in Threads, thr[u] = "send", acc[at[u]] # "free"
            PROVE  UnderWay'
        <4>1. CASE u = t
          BY <2>1, <2>2, <3>2, <4>1 DEF UnderWay
        <4>2. CASE u # t
          <5>1. at[u] \in Slot
            BY <3>2 DEF SendHasSlot
          <5>2. thr'[u] = "send" /\ acc'[at'[u]] # "free"
            BY <2>1, <2>2, <2>3, <3>2, <4>2, <5>1
          <5> QED  BY <5>2 DEF UnderWay
        <4> QED  BY <4>1, <4>2
      <3>3. CASE \E i \in Slot : acc[i] = "busy"
        BY <2>2, <3>3 DEF UnderWay
      <3> QED  BY <2>4, <3>1, <3>2, <3>3 DEF UnderWay
    <2> QED  BY <2>1, <2>4, Unseen
  <1>6. CASE LoginFailed(t)
    <2>1. thr[t] = "fail" /\ login' = "ERROR"
      BY <1>6 DEF LoginFailed
    <2>2. UnderWay
      BY <2>1 DEF UnderWay
    <2> QED  BY <2>1, <2>2, Reported
  <1> QED  BY <1>1, <1>2, <1>3, <1>4, <1>5, <1>6 DEF RegisterThread

\* A REGISTER of the worker or of a timer.
LEMMA ResendShown ==
    ASSUME Inv, NEW i \in Slot, Register(i),
           UNCHANGED <<login, thr, at, replies, Quitting>>
    PROVE  [L!Next]_<<login, UnderWay, Quitting>>
  <1>1. /\ \A j \in Slot : acc[j] = "busy" => acc'[j] = "busy"
        /\ \A j \in Slot : acc[j] = "free" <=> acc'[j] = "free"
    BY InvAccounts, RegisterAccounts
  <1>2. UnderWay => UnderWay'
    BY <1>1 DEF Inv, SendHasSlot, UnderWay
  <1> QED  BY <1>2, Unseen

\* Steps that leave the accounts alone, and may start a thread.
LEMMA QuietShown ==
    ASSUME Inv, UNCHANGED <<acc, at>>, thr' = thr \/ StartThread,
           \/ login' = login /\ Quitting' = Quitting
           \/ login # "SUCCESS" /\ login' = login /\ ~Quitting /\ Quitting' = TRUE
           \/ Quitting /\ Quitting' = FALSE /\ login' = "UNREGISTERED"
    PROVE  [L!Next]_<<login, UnderWay, Quitting>>
  <1>1. \A u \in Threads : thr'[u] = thr[u] \/ (thr[u] = "off" /\ thr'[u] = "check")
    BY DEF Inv, TypeOK, StartThread
  <1>2. UnderWay' = UnderWay
    BY <1>1 DEF UnderWay
  <1> QED  BY <1>2 DEF L!Next, L!Quit, L!Cancel

LEMMA AnswerShown ==
    ASSUME Inv, NEW x \in Tsx, regc_cb(x)
    PROVE  [L!Next]_<<login, UnderWay, Quitting>>
  <1>1. tsx[x].st \in Answers /\ tsx[x].owner \in Slot
    BY ReplyTaken DEF regc_cb, Inv, TypeOK, Transaction
  <1>2. acc[tsx[x].owner] = "busy"
    BY <1>1 DEF Inv, BusyHasTransaction, Pending, Answers
  <1>3. UnderWay
    BY <1>1, <1>2 DEF UnderWay
  <1>4. login' \in {"SUCCESS", "ERROR"} \/ (login' = login /\ login = "UNREGISTERED")
    BY DEF regc_cb, showLoginState
  <1>5. Quitting' = Quitting
    BY DEF regc_cb, showLoginState, Broadcast, Quitting
  <1> QED  BY <1>3, <1>4, <1>5, Reported, Unseen

\* The terminal shows its user what the abstract Login allows, step by step,
\* with any number of threads, accounts and transactions.
THEOREM LoginImplemented == Safety => ImplementsLogin
  <1>1. Init => L!Init
    BY DEF Init, L!Init, UnderWay, Quitting
  <1>2. Inv /\ [Next]_vars => [L!Next]_<<login, UnderWay, Quitting>>
    <2> SUFFICES ASSUME Inv, [Next]_vars
                 PROVE  [L!Next]_<<login, UnderWay, Quitting>>
      OBVIOUS
    <2>1. ASSUME NEW t \in Threads, RegisterThread(t)
          PROVE  [L!Next]_<<login, UnderWay, Quitting>>
      BY <2>1, ThreadShown
    <2>2. ASSUME NEW x \in Tsx, regc_cb(x)
          PROVE  [L!Next]_<<login, UnderWay, Quitting>>
      BY <2>2, AnswerShown
    <2>3. CASE \E x \in Tsx : DeletedRegcAnswered(x)
      BY <2>3, QuietShown DEF DeletedRegcAnswered, Quitting, ui
    <2>4. CASE RegisterAgain
      <3>1. CASE registering = 2
        <4>1. dflt \in Slot /\ Register(dflt) /\ UNCHANGED <<login, thr, at, replies, Quitting>>
          BY <2>4, <3>1 DEF RegisterAgain, Inv, TypeOK, Quitting, ui
        <4> QED  BY <4>1, ResendShown
      <3>2. CASE registering # 2
        BY <2>4, <3>2, QuietShown DEF RegisterAgain, Quitting, ui
      <3> QED  BY <3>1, <3>2
    <2>5. CASE ResetRegistering
      BY <2>5, QuietShown DEF ResetRegistering, Quitting, ui
    <2>6. ASSUME NEW i \in Slot, RetryTimer(i) \/ RefreshTimer(i)
          PROVE  [L!Next]_<<login, UnderWay, Quitting>>
      BY <2>6, ResendShown DEF RetryTimer, RefreshTimer, Quitting, ui
    <2>7. CASE Recover \/ \E x \in Tsx, k \in Kinds : Answer(x, k)
      BY <2>7, QuietShown DEF Recover, Answer, Quitting, ui
    <2>8. CASE Screen
      <3>1. /\ UNCHANGED <<acc, at>>
            /\ thr' = thr \/ StartThread
            /\ \/ login' = login /\ Quitting' = Quitting
               \/ login # "SUCCESS" /\ login' = login /\ ~Quitting /\ Quitting' = TRUE
               \/ Quitting /\ Quitting' = FALSE /\ login' = "UNREGISTERED"
        BY <2>8 DEF Screen, MainPageRegister, SettingsReregister, CancelDialog, SetUnregistered,
             DismissDialog, OpenSettings, CloseSettings, MemberStateChange,
             CallError, ShowAlert, ResumeAlert, CloseAlert, checkSpecialError,
             MainIdle, Quitting, ui
      <3> QED  BY <3>1, QuietShown
    <2>9. CASE UNCHANGED vars
      <3>1. UNCHANGED <<acc, at, thr, login, Quitting>>
        BY <2>9 DEF vars, ui, Quitting
      <3> QED  BY <3>1, QuietShown
    <2> QED  BY <2>1, <2>2, <2>3, <2>4, <2>5, <2>6, <2>7, <2>8, <2>9 DEF Next, Worker
  <1> QED  BY InitInv, NextInv, <1>1, <1>2, PTL DEF Safety, ImplementsLogin, L!Spec

=============================================================================
