---------------------- MODULE RegistrationRace_proofs ----------------------
(***************************************************************************)
(* What RegisterThreads that overtake each other leave behind, for any     *)
(* number of account slots and transactions:                               *)
(*   - pjsua_acc_add finds a free slot as long as there are no more        *)
(*     RegisterThreads than slots;                                         *)
(*   - a terminal that has come to rest and says it is registered is       *)
(*     registered, when answers are handled in the order they were given.  *)
(***************************************************************************)
EXTENDS Registration_proofs, FiniteSetTheorems

(***************************************************************************)
(* Every account has a thread that added it last, and no thread has two:   *)
(* it deletes what it finds before it adds.  The program keeps no record   *)
(* of that thread, so the invariant says that there is one.                *)
(***************************************************************************)
OwnedBy(o) ==
    /\ \A i, j \in Slot :
          acc[i] # "free" /\ acc[j] # "free" /\ o[i] = o[j] => i = j
    /\ \A i \in Slot :
          acc[i] # "free" =>
             /\ thr[o[i]] \notin {"mark", "add"}
             /\ thr[o[i]] = "clear" => at[o[i]] <= i

Owners == \E o \in [Slot -> Threads] : OwnedBy(o)

-----------------------------------------------------------------------------
(* The account table *)

\* set_registration neither takes a slot nor frees one, and leaves the
\* transactions that are pending alone.
LEMMA RegisterStep ==
    ASSUME Inv, NEW i \in Slot, Register(i), UNCHANGED replies
    PROVE  /\ \A j \in Slot : acc[j] = "free" <=> acc'[j] = "free"
           /\ \A y \in Tsx : Pending(y) => tsx'[y] = tsx[y]
           /\ \A y \in Tsx : \/ tsx'[y] = tsx[y]
                             \/ tsx'[y] = [owner |-> i, op |-> "reg", st |-> "sent"]
           /\ acc[i] # "free" => \E y \in Tsx : Pending(y)' /\ tsx'[y].owner = i
  <1>0. Accounts /\ replies \in Seq(Tsx)
    BY InvAccounts
  <1>1. /\ Accounts'
        /\ \A j \in Slot : acc[j] = "free" <=> acc'[j] = "free"
        /\ acc[i] # "free" => acc'[i] = "busy"
    BY <1>0, RegisterAccounts
  <1>2. acc[i] # "free" => \E y \in Tsx : Pending(y)' /\ tsx'[y].owner = i
    BY <1>1 DEF Accounts, BusyHasTransaction
  <1>3. CASE UNCHANGED tsx
    BY <1>1, <1>2, <1>3
  <1>4. ASSUME NEW x \in Tsx, Request(x, i, "reg")
        PROVE  /\ \A y \in Tsx : Pending(y) => tsx'[y] = tsx[y]
               /\ \A y \in Tsx :
                     \/ tsx'[y] = tsx[y]
                     \/ tsx'[y] = [owner |-> i, op |-> "reg", st |-> "sent"]
    BY <1>0, <1>4 DEF Request, Pending, Accounts
  <1> QED  BY <1>1, <1>2, <1>3, <1>4 DEF Register

\* pjsua_acc_del frees its slot; a pending transaction may lose its owner.
LEMMA DeleteStep ==
    ASSUME Inv, NEW i \in Slot, pjsua_acc_del(i)
    PROVE  /\ acc'[i] = "free"
           /\ \A j \in Slot : j # i => acc'[j] = acc[j]
           /\ \A y \in Tsx : Pending(y) => /\ tsx'[y].st = tsx[y].st
                                           /\ tsx'[y].op = tsx[y].op
           /\ \A y \in Tsx : tsx'[y].owner # Gone => tsx'[y] = tsx[y]
  <1>0. acc \in [Slot -> {"free", "none", "idle", "busy"}] /\ tsx \in [Tsx -> Transaction]
    BY DEF Inv, TypeOK
  <1>1. acc'[i] = "free" /\ \A j \in Slot : j # i => acc'[j] = acc[j]
    BY <1>0 DEF pjsua_acc_del
  <1>2. CASE acc[i] = "idle"
    <2>1. PICK x \in Tsx : Request(x, Gone, "unreg")
      BY <1>2 DEF pjsua_acc_del
    <2>2. tsx[x].st = "free" /\ tsx'[x].owner = Gone
          /\ \A y \in Tsx : y # x => tsx'[y] = tsx[y]
      BY <1>0, <2>1 DEF Request
    <2> QED  BY <1>1, <2>2 DEF Pending
  <1>3. CASE acc[i] = "busy"
    <2>1. tsx' = [x \in Tsx |-> IF tsx[x].st # "free" /\ tsx[x].owner = i
                                THEN [tsx[x] EXCEPT !.owner = Gone]
                                ELSE tsx[x]]
      BY <1>3 DEF pjsua_acc_del
    <2>2. \A y \in Tsx :
             \/ tsx'[y] = tsx[y]
             \/ /\ tsx'[y].owner = Gone
                /\ tsx'[y].st = tsx[y].st
                /\ tsx'[y].op = tsx[y].op
      BY <1>0, <2>1 DEF Transaction
    <2> QED  BY <1>1, <2>2
  <1>4. CASE acc[i] \notin {"idle", "busy"}
    <2>1. UNCHANGED tsx
      BY <1>4 DEF pjsua_acc_del
    <2> QED  BY <1>1, <2>1
  <1> QED  BY <1>2, <1>3, <1>4

\* One step of pjsua_acc_clear.
LEMMA ClearStep ==
    ASSUME Inv, NEW t \in Threads, ClearAccounts(t)
    PROVE  /\ thr[t] = "clear"
           /\ \A u \in Threads : u # t => thr'[u] = thr[u] /\ at'[u] = at[u]
           /\ \/ /\ at[t] = Slots /\ thr'[t] = "mark"
                 /\ UNCHANGED <<acc, dflt, tsx>>
              \/ /\ at[t] \in Slot /\ thr'[t] = "clear" /\ at'[t] = at[t] + 1
                 /\ acc'[at[t]] = "free"
                 /\ \A j \in Slot : j # at[t] => acc'[j] = acc[j]
                 /\ dflt' = dflt \/ dflt' = 0
                 /\ dflt = at[t] => dflt' = 0 \/ UNCHANGED <<acc, dflt>>
           /\ \A y \in Tsx : Pending(y) => /\ tsx'[y].st = tsx[y].st
                                           /\ tsx'[y].op = tsx[y].op
           /\ \A y \in Tsx : tsx'[y].owner # Gone => tsx'[y] = tsx[y]
  <1>0. /\ thr \in [Threads -> {"off", "check", "set", "clear", "mark", "add",
                                "send", "fail"}]
        /\ at \in [Threads -> 0 .. Slots]
        /\ acc \in [Slot -> {"free", "none", "idle", "busy"}]
    BY DEF Inv, TypeOK
  <1>1. CASE at[t] = Slots
    <2>1. thr' = [thr EXCEPT ![t] = "mark"] /\ UNCHANGED <<at, acc, dflt, tsx>>
          /\ thr[t] = "clear"
      BY <1>1 DEF ClearAccounts
    <2> QED  BY <1>0, <1>1, <2>1
  <1>2. CASE at[t] # Slots
    <2>1. at[t] \in Slot
      BY <1>0, <1>2, SlotsAssumption DEF Slot
    <2>2. at' = [at EXCEPT ![t] = @ + 1] /\ thr' = thr /\ thr[t] = "clear"
      BY <1>2 DEF ClearAccounts
    <2>3. at'[t] = at[t] + 1 /\ \A u \in Threads : u # t => at'[u] = at[u]
      BY <1>0, <2>2
    <2>4. CASE acc[at[t]] = "free"
      <3>1. UNCHANGED <<acc, dflt, tsx>>
        BY <1>2, <2>4 DEF ClearAccounts
      <3> QED  BY <2>1, <2>2, <2>3, <2>4, <3>1
    <2>5. CASE acc[at[t]] # "free"
      <3>1. pjsua_acc_del(at[t]) /\ dflt' = IF dflt = at[t] THEN 0 ELSE dflt
        BY <1>2, <2>5 DEF ClearAccounts
      <3>2. /\ acc'[at[t]] = "free"
            /\ \A j \in Slot : j # at[t] => acc'[j] = acc[j]
            /\ \A y \in Tsx : Pending(y) => /\ tsx'[y].st = tsx[y].st
                                            /\ tsx'[y].op = tsx[y].op
            /\ \A y \in Tsx : tsx'[y].owner # Gone => tsx'[y] = tsx[y]
        BY <2>1, <3>1, DeleteStep
      <3> QED  BY <2>1, <2>2, <2>3, <3>1, <3>2
    <2> QED  BY <2>4, <2>5
  <1> QED  BY <1>1, <1>2

\* pjsua_acc_add takes the first free slot, or fails.
LEMMA AddStep ==
    ASSUME Inv, NEW t \in Threads, AddAccount(t)
    PROVE  /\ thr[t] = "add"
           /\ \A u \in Threads : u # t => thr'[u] = thr[u] /\ at'[u] = at[u]
           /\ UNCHANGED <<login, registering, worker, tsx, replies, bound>>
           /\ \/ thr'[t] = "fail" /\ UNCHANGED <<acc, dflt>>
              \/ \E i \in Slot :
                    /\ acc[i] = "free" /\ acc'[i] = "none"
                    /\ \A j \in Slot : j < i => acc[j] # "free"
                    /\ \A j \in Slot : j # i => acc'[j] = acc[j]
                    /\ dflt' = i /\ at'[t] = i /\ thr'[t] = "send"
  <1>0. /\ thr \in [Threads -> {"off", "check", "set", "clear", "mark", "add",
                                "send", "fail"}]
        /\ at \in [Threads -> 0 .. Slots]
        /\ acc \in [Slot -> {"free", "none", "idle", "busy"}]
    BY DEF Inv, TypeOK
  <1>1. thr[t] = "add" /\ UNCHANGED <<login, registering, worker, tsx, replies, bound>>
    BY DEF AddAccount
  <1>2. CASE thr' = [thr EXCEPT ![t] = "fail"] /\ UNCHANGED <<acc, dflt, at>>
    BY <1>0, <1>1, <1>2
  <1>3. ASSUME NEW i \in Slot, acc[i] = "free",
               \A j \in 0 .. i - 1 : acc[j] # "free",
               acc' = [acc EXCEPT ![i] = "none"], dflt' = i,
               at' = [at EXCEPT ![t] = i], thr' = [thr EXCEPT ![t] = "send"]
        PROVE  /\ \A u \in Threads : u # t => thr'[u] = thr[u] /\ at'[u] = at[u]
               /\ acc'[i] = "none" /\ at'[t] = i /\ thr'[t] = "send"
               /\ \A j \in Slot : j < i => acc[j] # "free"
               /\ \A j \in Slot : j # i => acc'[j] = acc[j]
    <2>1. \A j \in Slot : j < i => j \in 0 .. i - 1
      BY SlotsAssumption DEF Slot
    <2> QED  BY <1>0, <1>3, <2>1
  <1> QED  BY <1>1, <1>2, <1>3 DEF AddAccount

-----------------------------------------------------------------------------
(* A slot for everybody *)

\* Steps that take no slot, and clear none behind a thread's back.
LEMMA OwnersKept ==
    ASSUME Owners,
           \A i \in Slot : acc'[i] # "free" => acc[i] # "free",
           \A u \in Threads :
              /\ thr'[u] \in {"mark", "add"} => thr[u] \in {"mark", "add"}
              /\ thr'[u] = "clear" => \/ thr[u] = "clear" /\ at'[u] = at[u]
                                      \/ at'[u] = 0
    PROVE  Owners'
  <1>1. PICK o \in [Slot -> Threads] : OwnedBy(o)
    BY DEF Owners
  <1>2. \A i \in Slot : o[i] \in Threads /\ 0 <= i
    BY SlotsAssumption DEF Slot
  <1>3. OwnedBy(o)'
    BY <1>1, <1>2 DEF OwnedBy
  <1> QED  BY <1>1, <1>3 DEF Owners

LEMMA ThreadOwners ==
    ASSUME Inv, Owners, NEW t \in Threads, RegisterThread(t)
    PROVE  Owners'
  <1>0. PICK o \in [Slot -> Threads] : OwnedBy(o)
    BY DEF Owners
  <1>a. \A i \in Slot : o[i] \in Threads /\ i < Slots /\ i \in Int
    BY SlotsAssumption DEF Slot
  <1>1. CASE CheckState(t) \/ SetRegistering(t) \/ MarkRegistering(t) \/ LoginFailed(t)
    <2>1. /\ UNCHANGED acc
          /\ \A u \in Threads :
                /\ thr'[u] \in {"mark", "add"} => thr[u] \in {"mark", "add"}
                /\ thr'[u] = "clear" => \/ thr[u] = "clear" /\ at'[u] = at[u]
                                        \/ at'[u] = 0
      BY <1>1 DEF CheckState, SetRegistering, MarkRegistering, LoginFailed, Inv, TypeOK
    <2> QED  BY <2>1, OwnersKept
  <1>2. CASE ClearAccounts(t)
    <2>1. /\ thr[t] = "clear"
          /\ \A u \in Threads : u # t => thr'[u] = thr[u] /\ at'[u] = at[u]
          /\ \/ at[t] = Slots /\ thr'[t] = "mark" /\ UNCHANGED acc
             \/ /\ at[t] \in Slot /\ thr'[t] = "clear" /\ at'[t] = at[t] + 1
                /\ acc'[at[t]] = "free"
                /\ \A j \in Slot : j # at[t] => acc'[j] = acc[j]
      BY <1>2, ClearStep
    <2>2. \A i \in Slot : acc'[i] # "free" => acc[i] # "free"
      BY <2>1
    <2>3. ASSUME NEW i \in Slot, acc'[i] # "free"
          PROVE  /\ thr'[o[i]] \notin {"mark", "add"}
                 /\ thr'[o[i]] = "clear" => at'[o[i]] <= i
      <3>1. CASE o[i] # t
        BY <1>0, <1>a, <2>1, <2>2, <2>3, <3>1 DEF OwnedBy
      <3>2. CASE o[i] = t
        <4>1. at[t] <= i
          BY <1>0, <2>1, <2>2, <2>3, <3>2 DEF OwnedBy
        <4>2. at[t] # Slots /\ at[t] \in Slot /\ i # at[t]
          BY <1>a, <2>1, <2>3, <4>1, SlotsAssumption
        <4>3. at[t] \in Int
          BY <4>2 DEF Slot
        <4> QED  BY <1>a, <2>1, <3>2, <4>1, <4>2, <4>3
      <3> QED  BY <3>1, <3>2
    <2>4. OwnedBy(o)'
      BY <1>0, <2>2, <2>3 DEF OwnedBy
    <2> QED  BY <1>0, <2>4 DEF Owners
  <1>3. CASE AddAccount(t)
    <2>1. /\ thr[t] = "add"
          /\ \A u \in Threads : u # t => thr'[u] = thr[u] /\ at'[u] = at[u]
      BY <1>3, AddStep
    <2>2. CASE thr'[t] = "fail" /\ UNCHANGED acc
      BY <2>1, <2>2, OwnersKept
    <2>3. ASSUME NEW i \in Slot, acc[i] = "free", thr'[t] = "send",
                 \A j \in Slot : j # i => acc'[j] = acc[j]
          PROVE  Owners'
      <3> DEFINE p == [o EXCEPT ![i] = t]
      <3>1. p \in [Slot -> Threads] /\ p[i] = t /\ \A j \in Slot : j # i => p[j] = o[j]
        BY <1>0
      <3> HIDE DEF p
      <3>2. \A j \in Slot : acc[j] # "free" => o[j] # t
        BY <1>0, <2>1 DEF OwnedBy
      <3>3. \A j \in Slot : j # i /\ acc'[j] # "free" => p[j] # t /\ p[j] = o[j]
                                                        /\ acc[j] # "free"
        BY <2>3, <3>1, <3>2
      <3>4. OwnedBy(p)'
        <4>1. ASSUME NEW j \in Slot, NEW k \in Slot, acc'[j] # "free",
                     acc'[k] # "free", p[j] = p[k]
              PROVE  j = k
          BY <1>0, <3>1, <3>3, <4>1 DEF OwnedBy
        <4>2. ASSUME NEW j \in Slot, acc'[j] # "free"
              PROVE  /\ thr'[p[j]] \notin {"mark", "add"}
                     /\ thr'[p[j]] = "clear" => at'[p[j]] <= j
          <5>1. CASE j = i
            BY <2>3, <3>1, <5>1
          <5>2. CASE j # i
            BY <1>0, <1>a, <2>1, <3>3, <4>2, <5>2 DEF OwnedBy
          <5> QED  BY <5>1, <5>2
        <4> QED  BY <4>1, <4>2 DEF OwnedBy
      <3> QED  BY <3>1, <3>4 DEF Owners
    <2> QED  BY <1>3, <2>2, <2>3, AddStep
  <1>4. CASE SendRegister(t)
    <2>1. at[t] \in Slot /\ Register(at[t]) /\ UNCHANGED <<replies, at>>
      BY <1>4 DEF SendRegister, Inv, SendHasSlot
    <2>2. \A j \in Slot : acc[j] = "free" <=> acc'[j] = "free"
      BY <2>1, RegisterStep
    <2>3. \A u \in Threads : thr'[u] = thr[u] \/ thr'[u] = "off"
      BY <1>4 DEF SendRegister, Inv, TypeOK
    <2> QED  BY <2>1, <2>2, <2>3, OwnersKept
  <1> QED  BY <1>1, <1>2, <1>3, <1>4 DEF RegisterThread

\* What the worker, the timers, the server and the screens do takes no slot.
LEMMA OthersOwners ==
    ASSUME Inv, Owners, [Next]_vars, \A t \in Threads : ~RegisterThread(t)
    PROVE  Owners'
  <1>0. ASSUME NEW i \in Slot, Register(i), UNCHANGED <<thr, at, replies>>
        PROVE  Owners'
    <2>1. \A j \in Slot : acc[j] = "free" <=> acc'[j] = "free"
      BY <1>0, RegisterStep
    <2> QED  BY <1>0, <2>1, OwnersKept
  <1>1. ASSUME NEW x \in Tsx, regc_cb(x)
        PROVE  Owners'
    <2>1. tsx[x].st \in Answers /\ tsx[x].owner \in Slot
      BY <1>1, ReplyTaken DEF regc_cb, Inv, TypeOK, Transaction
    <2>2. acc[tsx[x].owner] = "busy"
      BY <2>1 DEF Inv, BusyHasTransaction, Pending, Answers
    <2>3. \A j \in Slot : acc'[j] # "free" => acc[j] # "free"
      BY <1>1, <2>1, <2>2 DEF regc_cb, Inv, TypeOK
    <2>4. UNCHANGED <<thr, at>>
      BY <1>1 DEF regc_cb
    <2> QED  BY <2>3, <2>4, OwnersKept
  <1>2. CASE RegisterAgain
    <2>1. CASE registering = 2
      <3>1. dflt \in Slot /\ Register(dflt) /\ UNCHANGED <<thr, at, replies>>
        BY <1>2, <2>1 DEF RegisterAgain, Inv, TypeOK
      <3> QED  BY <1>0, <3>1
    <2>2. CASE registering # 2
      BY <1>2, <2>2, OwnersKept DEF RegisterAgain
    <2> QED  BY <2>1, <2>2
  <1>3. ASSUME NEW i \in Slot, RetryTimer(i) \/ RefreshTimer(i)
        PROVE  Owners'
    BY <1>0, <1>3 DEF RetryTimer, RefreshTimer
  <1>4. ASSUME UNCHANGED <<acc, at>>, thr' = thr \/ StartThread
        PROVE  Owners'
    <2>1. \A u \in Threads : thr'[u] = thr[u] \/ thr'[u] = "check"
      BY <1>4 DEF Inv, TypeOK, StartThread
    <2> QED  BY <1>4, <2>1, OwnersKept
  <1>5. CASE ResetRegistering \/ Recover \/ (\E x \in Tsx : DeletedRegcAnswered(x))
             \/ (\E x \in Tsx, k \in Kinds : Answer(x, k))
    BY <1>4, <1>5 DEF ResetRegistering, Recover, DeletedRegcAnswered, Answer
  <1>6. CASE Screen
    <2>1. UNCHANGED <<acc, at>> /\ (thr' = thr \/ StartThread)
      BY <1>6 DEF Screen, MainPageRegister, SettingsReregister, CancelDialog, SetUnregistered,
             DismissDialog, OpenSettings, CloseSettings, MemberStateChange,
             CallError, ShowAlert, ResumeAlert, CloseAlert, checkSpecialError
    <2> QED  BY <1>4, <2>1
  <1>7. CASE UNCHANGED vars
    BY <1>4, <1>7 DEF vars
  <1> QED  BY <1>1, <1>2, <1>3, <1>5, <1>6, <1>7 DEF Next, Worker

\* The slots of a full table belong to as many other threads.
LEMMA FullTable ==
    ASSUME Owners, IsFiniteSet(Threads), NEW t \in Threads, thr[t] = "add",
           \A i \in Slot : acc[i] # "free"
    PROVE  Slots < Cardinality(Threads)
  <1>1. PICK o \in [Slot -> Threads] : OwnedBy(o)
    BY DEF Owners
  <1>2. o \in [Slot -> Threads \ {t}]
    BY <1>1 DEF OwnedBy
  <1>3. \A i, j \in Slot : o[i] = o[j] => i = j
    BY <1>1 DEF OwnedBy
  <1>4. o \in Injection(Slot, Threads \ {t})
    BY <1>2, <1>3 DEF Injection, IsInjective
  <1>5. /\ IsFiniteSet(Threads \ {t})
        /\ Cardinality(Threads \ {t}) = Cardinality(Threads) - 1
    BY FS_RemoveElement
  <1>6. Cardinality(Slot) <= Cardinality(Threads \ {t})
    BY <1>4, <1>5, FS_Injection
  <1>7. Cardinality(Slot) = Slots
    BY FS_Interval, SlotsAssumption DEF Slot
  <1>8. Cardinality(Threads) \in Nat
    BY FS_CardinalityType
  <1> QED  BY <1>5, <1>6, <1>7, <1>8, SlotsAssumption

\* No more RegisterThreads than account slots: however they overtake each
\* other between deleting the accounts and adding one, the table is not full
\* when pjsua_acc_add is called.
THEOREM SlotForEveryThread ==
    ASSUME IsFiniteSet(Threads), Cardinality(Threads) <= Slots
    PROVE  Safety => []SlotAlwaysFree
  <1>1. Init => Owners
    <2> SUFFICES ASSUME Init PROVE Owners
      OBVIOUS
    <2>1. PICK t \in Threads : TRUE
      BY DEF Init
    <2>2. OwnedBy([i \in Slot |-> t])
      BY DEF Init, OwnedBy
    <2>3. [i \in Slot |-> t] \in [Slot -> Threads]
      OBVIOUS
    <2> QED  BY <2>2, <2>3 DEF Owners
  <1>2. Inv /\ Owners /\ [Next]_vars => Owners'
    BY ThreadOwners, OthersOwners
  <1>3. Owners => SlotAlwaysFree
    <2> SUFFICES ASSUME Owners, NEW t \in Threads, thr[t] = "add",
                        \A i \in Slot : acc[i] # "free"
                 PROVE  FALSE
      BY DEF SlotAlwaysFree
    <2>1. Slots < Cardinality(Threads)
      BY FullTable
    <2>2. Cardinality(Threads) \in Nat
      BY FS_CardinalityType
    <2> QED  BY <2>1, <2>2, SlotsAssumption
  <1> QED  BY InitInv, NextInv, <1>1, <1>2, <1>3, PTL DEF Safety

-----------------------------------------------------------------------------
(***************************************************************************)
(* The UNREGISTER of a deleted account and the REGISTER of its successor   *)
(* race.  The account a resend is for is the default one, which exists     *)
(* unless some thread is still deleting accounts (NoHole, DefaultKept); a  *)
(* thread that marks "registering", so that nothing is resent, is on its   *)
(* way to a REGISTER of its own (FlagIsMeant); and a REGISTER answered     *)
(* before an UNREGISTER is handled before it (UnregisterLast).             *)
(***************************************************************************)

\* Some thread is going to delete the accounts, or to send a REGISTER.
Working ==
    \/ \E t \in Threads : thr[t] \in {"set", "clear", "mark", "add", "fail"}
    \/ \E t \in Threads : thr[t] = "send" /\ acc[at[t]] # "free"

\* An account waits for the answer to a REGISTER.
Awaited == \E x \in Tsx : Pending(x) /\ tsx[x].owner # Gone

\* The answer to a transaction of a deleted account is still to be handled.
LateAnswer == \E n \in 1 .. Len(replies) : tsx[replies[n]].owner = Gone

\* A slot is free below a used one only where a thread is deleting accounts.
NoHole ==
    \A i, j \in Slot :
       j < i /\ acc[j] = "free" /\ acc[i] # "free" =>
          \E t \in Threads : thr[t] = "clear" /\ j < at[t] /\ at[t] <= i

DefaultKept == dflt = 0 \/ acc[dflt] # "free"

\* What an account sends is a REGISTER.
OwnerRegisters == \A x \in Tsx : tsx[x].owner # Gone => tsx[x].op = "reg"

FlagIsMeant ==
    /\ worker = "idle" => registering # 2
    /\ worker = "resend" => registering # 0
    /\ registering = 1 /\ login = "SUCCESS" => Working \/ Awaited

SuccessHasAccount ==
    login = "SUCCESS" => Working \/ \E i \in Slot : acc[i] # "free"

Unregisters(p) ==
    \E q \in 1 .. Len(replies) : p < q /\ tsx[replies[q]].op = "unreg"

\* Without a binding, an UNREGISTER was answered after every REGISTER whose
\* success the worker has yet to learn.
UnregisterLast ==
    ~bound => \A p \in 1 .. Len(replies) :
                 tsx[replies[p]].op = "reg" /\ tsx[replies[p]].st = "ok"
                    => Unregisters(p)

\* Registered on the display but not with the server: not for ever.
NotYetBound ==
    login = "SUCCESS" /\ ~bound
        => Working \/ Awaited \/ LateAnswer \/ worker = "resend"

Race ==
    /\ NoHole
    /\ DefaultKept
    /\ OwnerRegisters
    /\ FlagIsMeant
    /\ SuccessHasAccount
    /\ UnregisterLast
    /\ NotYetBound

LEMMA InitRace == Init => Race
  <1> SUFFICES ASSUME Init PROVE Race
    OBVIOUS
  <1>1. NoHole /\ DefaultKept
    BY DEF Init, NoHole, DefaultKept
  <1>2. OwnerRegisters
    BY DEF Init, OwnerRegisters, Free
  <1>3. FlagIsMeant /\ SuccessHasAccount /\ UnregisterLast /\ NotYetBound
    BY DEF Init, FlagIsMeant, SuccessHasAccount, UnregisterLast, NotYetBound
  <1> QED  BY <1>1, <1>2, <1>3 DEF Race

\* What waits for the worker is pending.
LEMMA ReplyIsPending ==
    ASSUME Inv, NEW n \in 1 .. Len(replies)
    PROVE  replies[n] \in Tsx /\ Pending(replies[n])
  <1>1. replies \in Seq(Tsx) /\ tsx[replies[n]].st \in Answers
    BY DEF Inv, TypeOK, RepliesAreAnswers
  <1>2. replies[n] \in Tsx
    BY <1>1
  <1> QED  BY <1>1, <1>2 DEF Pending, Answers

\* Without a thread in the middle of its deletions, an account exists only if
\* the default one does.
LEMMA DefaultExists ==
    ASSUME Inv, Race, login = "SUCCESS", acc[dflt] = "free"
    PROVE  Working
  <1>1. dflt = 0 /\ 0 \in Slot
    BY SlotsAssumption DEF Race, DefaultKept, Inv, TypeOK, Slot
  <1>2. CASE \E i \in Slot : acc[i] # "free"
    <2>1. PICK i \in Slot : acc[i] # "free"
      BY <1>2
    <2>2. 0 < i
      BY <1>1, <2>1 DEF Slot
    <2>3. \E t \in Threads : thr[t] = "clear"
      BY <1>1, <2>1, <2>2 DEF Race, NoHole
    <2> QED  BY <2>3 DEF Working
  <1> QED  BY <1>2 DEF Race, SuccessHasAccount

-----------------------------------------------------------------------------
(* The steps *)

\* A REGISTER for an account that is there, whoever asks for it.
LEMMA RegisterRace ==
    ASSUME Inv, Race, NEW i \in Slot, Register(i),
           UNCHANGED <<login, thr, at, dflt, replies, bound>>
    PROVE  /\ NoHole' /\ DefaultKept' /\ OwnerRegisters' /\ SuccessHasAccount'
           /\ UnregisterLast'
           /\ Working => Working'
           /\ Awaited => Awaited'
           /\ LateAnswer => LateAnswer'
           /\ acc[i] # "free" => Awaited'
  <1>1. /\ \A j \in Slot : acc[j] = "free" <=> acc'[j] = "free"
        /\ \A y \in Tsx : Pending(y) => tsx'[y] = tsx[y]
        /\ \A y \in Tsx : \/ tsx'[y] = tsx[y]
                          \/ tsx'[y] = [owner |-> i, op |-> "reg", st |-> "sent"]
        /\ acc[i] # "free" => \E y \in Tsx : Pending(y)' /\ tsx'[y].owner = i
    BY RegisterStep
  <1>2. \A n \in 1 .. Len(replies) : tsx'[replies'[n]] = tsx[replies[n]]
    BY <1>1, ReplyIsPending
  <1>3. NoHole'
    BY <1>1 DEF Race, NoHole
  <1>4. dflt \in Slot /\ \A t \in Threads : thr[t] = "send" => at[t] \in Slot
    BY DEF Inv, TypeOK, SendHasSlot
  <1>5. DefaultKept'
    BY <1>1, <1>4 DEF Race, DefaultKept
  <1>6. OwnerRegisters'
    BY <1>1 DEF Race, OwnerRegisters
  <1>7. Working => Working'
    BY <1>1, <1>4 DEF Working
  <1>8. SuccessHasAccount'
    BY <1>1, <1>7 DEF Race, SuccessHasAccount
  <1>9. UnregisterLast' /\ (LateAnswer => LateAnswer')
    BY <1>2 DEF Race, UnregisterLast, Unregisters, LateAnswer
  <1>10. Awaited => Awaited'
    <2>1. \A y \in Tsx : Pending(y) => Pending(y)' /\ tsx'[y].owner = tsx[y].owner
      BY <1>1 DEF Pending
    <2> QED  BY <2>1 DEF Awaited
  <1>11. acc[i] # "free" => Awaited'
    <2>1. i # Gone
      BY DEF Slot, Gone
    <2> QED  BY <1>1, <2>1 DEF Awaited
  <1> QED  BY <1>3, <1>5, <1>6, <1>7, <1>8, <1>9, <1>10, <1>11

LEMMA SendRace ==
    ASSUME Inv, Race, NEW t \in Threads, SendRegister(t)
    PROVE  Race'
  <1>0. /\ thr[t] = "send" /\ at[t] \in Slot /\ Register(at[t])
        /\ UNCHANGED <<login, at, dflt, registering, worker, replies, bound>>
        /\ \A u \in Threads : u # t => thr'[u] = thr[u]
    BY DEF SendRegister, Inv, SendHasSlot, TypeOK
  <1>1. /\ \A j \in Slot : acc[j] = "free" <=> acc'[j] = "free"
        /\ \A y \in Tsx : Pending(y) => tsx'[y] = tsx[y]
        /\ \A y \in Tsx :
              \/ tsx'[y] = tsx[y]
              \/ tsx'[y] = [owner |-> at[t], op |-> "reg", st |-> "sent"]
        /\ acc[at[t]] # "free" => \E y \in Tsx : Pending(y)' /\ tsx'[y].owner = at[t]
    BY <1>0, RegisterStep
  <1>2. \A n \in 1 .. Len(replies) : tsx'[replies'[n]] = tsx[replies[n]]
    BY <1>0, <1>1, ReplyIsPending
  <1>3. NoHole'
    <2>1. \A u \in Threads : thr[u] = "clear" => thr'[u] = "clear" /\ at'[u] = at[u]
      BY <1>0
    <2> QED  BY <1>1, <2>1 DEF Race, NoHole
  <1>4. dflt \in Slot /\ \A u \in Threads : thr[u] = "send" => at[u] \in Slot
    BY DEF Inv, TypeOK, SendHasSlot
  <1>5. DefaultKept' /\ OwnerRegisters'
    BY <1>0, <1>1, <1>4 DEF Race, DefaultKept, OwnerRegisters
  <1>6. UnregisterLast' /\ (LateAnswer => LateAnswer')
    BY <1>0, <1>2 DEF Race, UnregisterLast, Unregisters, LateAnswer
  <1>7. Awaited => Awaited'
    <2>1. \A y \in Tsx : Pending(y) => Pending(y)' /\ tsx'[y].owner = tsx[y].owner
      BY <1>1 DEF Pending
    <2> QED  BY <2>1 DEF Awaited
  <1>8. Working => Working' \/ Awaited'
    <2>1. CASE acc[at[t]] # "free"
      <3>1. at[t] # Gone
        BY <1>0 DEF Slot, Gone
      <3> QED  BY <1>1, <2>1, <3>1 DEF Awaited
    <2>2. CASE acc[at[t]] = "free"
      BY <1>0, <1>1, <1>4, <2>2 DEF Working
    <2> QED  BY <2>1, <2>2
  <1>9. SuccessHasAccount'
    <2>1. Working /\ ~Working' => acc[at[t]] # "free"
      BY <1>0, <1>1, <1>4 DEF Working
    <2> QED  BY <1>0, <1>1, <2>1 DEF Race, SuccessHasAccount
  <1>10. FlagIsMeant' /\ NotYetBound'
    BY <1>0, <1>6, <1>7, <1>8 DEF Race, FlagIsMeant, NotYetBound
  <1> QED  BY <1>3, <1>5, <1>6, <1>9, <1>10 DEF Race

LEMMA ClearRace ==
    ASSUME Inv, Race, NEW t \in Threads, ClearAccounts(t)
    PROVE  Race'
  <1>0. /\ thr[t] = "clear"
        /\ \A u \in Threads : u # t => thr'[u] = thr[u] /\ at'[u] = at[u]
        /\ \/ /\ at[t] = Slots /\ thr'[t] = "mark"
              /\ UNCHANGED <<acc, dflt, tsx>>
           \/ /\ at[t] \in Slot /\ thr'[t] = "clear" /\ at'[t] = at[t] + 1
              /\ acc'[at[t]] = "free"
              /\ \A j \in Slot : j # at[t] => acc'[j] = acc[j]
              /\ dflt' = dflt \/ dflt' = 0
              /\ dflt = at[t] => dflt' = 0 \/ UNCHANGED <<acc, dflt>>
        /\ \A y \in Tsx : Pending(y) => /\ tsx'[y].st = tsx[y].st
                                        /\ tsx'[y].op = tsx[y].op
        /\ \A y \in Tsx : tsx'[y].owner # Gone => tsx'[y] = tsx[y]
    BY ClearStep
  <1>1. UNCHANGED <<login, registering, worker, replies, bound>>
    BY DEF ClearAccounts
  <1>2. Working'
    BY <1>0 DEF Working
  <1>3. FlagIsMeant' /\ SuccessHasAccount' /\ NotYetBound'
    BY <1>1, <1>2 DEF Race, FlagIsMeant, SuccessHasAccount, NotYetBound
  <1>4. OwnerRegisters'
    BY <1>0 DEF Race, OwnerRegisters
  <1>5. UnregisterLast'
    <2>1. \A n \in 1 .. Len(replies) :
             /\ tsx'[replies'[n]].st = tsx[replies[n]].st
             /\ tsx'[replies'[n]].op = tsx[replies[n]].op
      BY <1>0, <1>1, ReplyIsPending
    <2> QED  BY <1>1, <2>1 DEF Race, UnregisterLast, Unregisters
  <1>6. dflt \in Slot
    BY DEF Inv, TypeOK
  <1>7. DefaultKept'
    BY <1>0, <1>6 DEF Race, DefaultKept
  <1>8. NoHole'
    <2> SUFFICES ASSUME NEW i \in Slot, NEW j \in Slot, j < i,
                        acc'[j] = "free", acc'[i] # "free"
                 PROVE  \E u \in Threads : thr'[u] = "clear" /\ j < at'[u] /\ at'[u] <= i
      BY DEF NoHole
    <2>1. i \in Int /\ j \in Int /\ i < Slots
      BY SlotsAssumption DEF Slot
    <2>2. CASE acc[j] = "free" /\ acc[i] # "free"
      <3>1. PICK u \in Threads : thr[u] = "clear" /\ j < at[u] /\ at[u] <= i
        BY <2>2 DEF Race, NoHole
      <3>2. CASE u # t
        BY <1>0, <3>1, <3>2
      <3>3. CASE u = t
        <4>1. at[t] \in Int
          BY DEF Inv, TypeOK
        <4>2. at[t] # Slots
          BY <2>1, <3>1, <3>3, SlotsAssumption
        <4>3. thr'[t] = "clear" /\ at'[t] = at[t] + 1 /\ i # at[t]
          BY <1>0, <4>2
        <4> QED  BY <2>1, <3>1, <3>3, <4>1, <4>3
      <3> QED  BY <3>2, <3>3
    <2>3. CASE ~(acc[j] = "free" /\ acc[i] # "free")
      <3>1. at[t] = j /\ thr'[t] = "clear" /\ at'[t] = at[t] + 1
        BY <1>0, <2>3
      <3> QED  BY <2>1, <3>1
    <2> QED  BY <2>2, <2>3
  <1> QED  BY <1>3, <1>4, <1>5, <1>7, <1>8 DEF Race

LEMMA AddRace ==
    ASSUME Inv, Race, NEW t \in Threads, AddAccount(t)
    PROVE  Race'
  <1>0. /\ thr[t] = "add"
        /\ \A u \in Threads : u # t => thr'[u] = thr[u] /\ at'[u] = at[u]
        /\ UNCHANGED <<login, registering, worker, tsx, replies, bound>>
        /\ \/ thr'[t] = "fail" /\ UNCHANGED <<acc, dflt>>
           \/ \E i \in Slot :
                 /\ acc[i] = "free" /\ acc'[i] = "none"
                 /\ \A j \in Slot : j < i => acc[j] # "free"
                 /\ \A j \in Slot : j # i => acc'[j] = acc[j]
                 /\ dflt' = i /\ at'[t] = i /\ thr'[t] = "send"
    BY AddStep
  <1>1. \A u \in Threads : thr[u] = "clear" => thr'[u] = "clear" /\ at'[u] = at[u]
    BY <1>0
  <1>2. Working'
    BY <1>0 DEF Working
  <1>3. FlagIsMeant' /\ SuccessHasAccount' /\ NotYetBound'
    BY <1>0, <1>2 DEF Race, FlagIsMeant, SuccessHasAccount, NotYetBound
  <1>4. OwnerRegisters' /\ UnregisterLast'
    BY <1>0 DEF Race, OwnerRegisters, UnregisterLast, Unregisters
  <1>5. CASE UNCHANGED <<acc, dflt>>
    <2>1. NoHole' /\ DefaultKept'
      BY <1>1, <1>5 DEF Race, NoHole, DefaultKept
    <2> QED  BY <1>3, <1>4, <2>1 DEF Race
  <1>6. ASSUME NEW i \in Slot, acc[i] = "free", acc'[i] = "none",
               \A j \in Slot : j < i => acc[j] # "free",
               \A j \in Slot : j # i => acc'[j] = acc[j], dflt' = i
        PROVE  NoHole' /\ DefaultKept'
    <2>1. DefaultKept'
      BY <1>6 DEF DefaultKept
    <2>2. ASSUME NEW k \in Slot, NEW j \in Slot, j < k, acc'[j] = "free", acc'[k] # "free"
          PROVE  acc[j] = "free" /\ acc[k] # "free"
      BY <1>6, <2>2
    <2>3. NoHole'
      BY <1>1, <2>2 DEF Race, NoHole
    <2> QED  BY <2>1, <2>3
  <1> QED  BY <1>0, <1>3, <1>4, <1>5, <1>6 DEF Race

LEMMA ThreadRace ==
    ASSUME Inv, Race, NEW t \in Threads, RegisterThread(t)
    PROVE  Race'
  <1>0. thr \in [Threads -> {"off", "check", "set", "clear", "mark", "add",
                             "send", "fail"}] /\ at \in [Threads -> 0 .. Slots]
    BY DEF Inv, TypeOK
  <1>1. ASSUME UNCHANGED <<acc, dflt, worker, tsx, replies, bound>>,
               \A u \in Threads : u # t => thr'[u] = thr[u] /\ at'[u] = at[u],
               thr[t] # "clear"
        PROVE  /\ NoHole' /\ DefaultKept' /\ OwnerRegisters' /\ UnregisterLast'
               /\ Awaited => Awaited'
               /\ LateAnswer => LateAnswer'
    <2>1. \A u \in Threads : thr[u] = "clear" => thr'[u] = "clear" /\ at'[u] = at[u]
      BY <1>1
    <2>2. NoHole'
      BY <1>1, <2>1 DEF Race, NoHole
    <2> QED  BY <1>1, <2>2 DEF Race, DefaultKept, OwnerRegisters, UnregisterLast,
                               Unregisters, Awaited, LateAnswer, Pending
  <1>2. CASE CheckState(t)
    <2>1. /\ UNCHANGED <<acc, dflt, worker, tsx, replies, bound, login, registering, at>>
          /\ \A u \in Threads : u # t => thr'[u] = thr[u] /\ at'[u] = at[u]
          /\ thr[t] = "check"
      BY <1>0, <1>2 DEF CheckState
    <2>2. Working => Working'
      BY <2>1 DEF Working
    <2>3. FlagIsMeant' /\ SuccessHasAccount' /\ NotYetBound'
      BY <1>1, <2>1, <2>2 DEF Race, FlagIsMeant, SuccessHasAccount, NotYetBound
    <2> QED  BY <1>1, <2>1, <2>3 DEF Race
  <1>3. CASE SetRegistering(t) \/ LoginFailed(t)
    <2>1. /\ UNCHANGED <<acc, dflt, worker, tsx, replies, bound, registering>>
          /\ \A u \in Threads : u # t => thr'[u] = thr[u] /\ at'[u] = at[u]
          /\ thr[t] # "clear" /\ login' # "SUCCESS"
      BY <1>0, <1>3 DEF SetRegistering, LoginFailed
    <2>2. FlagIsMeant' /\ SuccessHasAccount' /\ NotYetBound'
      BY <2>1 DEF Race, FlagIsMeant, SuccessHasAccount, NotYetBound
    <2> QED  BY <1>1, <2>1, <2>2 DEF Race
  <1>4. CASE MarkRegistering(t)
    <2>1. /\ UNCHANGED <<acc, dflt, worker, tsx, replies, bound, login>>
          /\ \A u \in Threads : u # t => thr'[u] = thr[u] /\ at'[u] = at[u]
          /\ thr[t] # "clear" /\ thr'[t] = "add" /\ registering' = 1
      BY <1>0, <1>4 DEF MarkRegistering
    <2>2. Working'
      BY <2>1 DEF Working
    <2>3. FlagIsMeant' /\ SuccessHasAccount' /\ NotYetBound'
      BY <2>1, <2>2 DEF Race, FlagIsMeant, SuccessHasAccount, NotYetBound
    <2> QED  BY <1>1, <2>1, <2>3 DEF Race
  <1> QED  BY <1>2, <1>3, <1>4, ClearRace, AddRace, SendRace DEF RegisterThread

\* The worker takes answers in the order they came.
LEMMA FirstTaken ==
    ASSUME Inv, ~Reorder, NEW x \in Tsx, NextReply(x)
    PROVE  /\ Len(replies) \in Nat \ {0} /\ replies[1] = x
           /\ Len(replies') = Len(replies) - 1
           /\ \A n \in 1 .. Len(replies') : replies'[n] = replies[n + 1]
           /\ \A n \in 2 .. Len(replies) : replies[n] # x
  <1>1. PICK k \in 1 .. Len(replies) :
           /\ replies[k] = x
           /\ k = 1
           /\ replies' = [n \in 1 .. Len(replies) - 1 |->
                            IF n < k THEN replies[n] ELSE replies[n + 1]]
    BY DEF NextReply
  <1>2. replies \in Seq(Tsx) /\ Len(replies) \in Nat \ {0}
    BY <1>1 DEF Inv, TypeOK
  <1>3. /\ Len(replies') = Len(replies) - 1
        /\ \A n \in 1 .. Len(replies') : replies'[n] = replies[n + 1]
    BY <1>1, <1>2
  <1>4. \A n \in 2 .. Len(replies) : replies[n] # x
    BY <1>1, <1>2 DEF Inv, RepliesAreAnswers
  <1> QED  BY <1>1, <1>2, <1>3, <1>4

\* What an answer that is handled leaves of the queue and the transactions.
LEMMA HandledRace ==
    ASSUME Inv, Race, ~Reorder, NEW x \in Tsx, NextReply(x),
           tsx' = [tsx EXCEPT ![x] = Free], UNCHANGED bound
    PROVE  /\ OwnerRegisters' /\ UnregisterLast'
           /\ \A y \in Tsx : y # x => tsx'[y] = tsx[y]
           /\ Unregisters(1) => LateAnswer'
  <1>1. /\ Len(replies) \in Nat \ {0} /\ replies[1] = x
        /\ Len(replies') = Len(replies) - 1
        /\ \A n \in 1 .. Len(replies') : replies'[n] = replies[n + 1]
        /\ \A n \in 2 .. Len(replies) : replies[n] # x
    BY FirstTaken
  <1>2. tsx'[x] = Free /\ \A y \in Tsx : y # x => tsx'[y] = tsx[y]
    BY DEF Inv, TypeOK
  <1>3. \A n \in 2 .. Len(replies) : replies[n] \in Tsx /\ tsx'[replies[n]] = tsx[replies[n]]
    BY <1>1, <1>2, ReplyIsPending
  <1>4. \A n \in 1 .. Len(replies') : n + 1 \in 2 .. Len(replies)
                                     /\ tsx'[replies'[n]] = tsx[replies[n + 1]]
    BY <1>1, <1>3
  <1>5. ASSUME NEW q \in 2 .. Len(replies)
        PROVE  q - 1 \in 1 .. Len(replies') /\ tsx'[replies'[q - 1]] = tsx[replies[q]]
    <2>1. q - 1 \in 1 .. Len(replies')
      BY <1>1
    <2>2. (q - 1) + 1 = q
      OBVIOUS
    <2> QED  BY <1>4, <2>1, <2>2
  <1>6. OwnerRegisters'
    BY <1>2 DEF Race, OwnerRegisters, Free
  <1>7. UnregisterLast'
    <2> SUFFICES ASSUME ~bound, NEW p \in 1 .. Len(replies'),
                        tsx'[replies'[p]].op = "reg", tsx'[replies'[p]].st = "ok"
                 PROVE  \E q \in 1 .. Len(replies') :
                           p < q /\ tsx'[replies'[q]].op = "unreg"
      BY DEF UnregisterLast, Unregisters
    <2>1. p + 1 \in 1 .. Len(replies) /\ tsx[replies[p + 1]].op = "reg"
          /\ tsx[replies[p + 1]].st = "ok"
      BY <1>1, <1>4
    <2>2. PICK q \in 1 .. Len(replies) : p + 1 < q /\ tsx[replies[q]].op = "unreg"
      BY <2>1 DEF Race, UnregisterLast, Unregisters
    <2>3. q \in 2 .. Len(replies) /\ p < q - 1
      BY <1>1, <2>2
    <2> QED  BY <1>5, <2>2, <2>3
  <1>8. ASSUME Unregisters(1) PROVE LateAnswer'
    <2>1. PICK q \in 1 .. Len(replies) : 1 < q /\ tsx[replies[q]].op = "unreg"
      BY <1>8 DEF Unregisters
    <2>2. q \in 2 .. Len(replies) /\ tsx[replies[q]].owner = Gone
      BY <1>1, <1>3, <2>1 DEF Race, OwnerRegisters
    <2> QED  BY <1>5, <2>2 DEF LateAnswer
  <1> QED  BY <1>2, <1>6, <1>7, <1>8

LEMMA AnsweredRace ==
    ASSUME Inv, Race, ~Reorder, NEW x \in Tsx, regc_cb(x)
    PROVE  Race'
  <1>0. /\ NextReply(x) /\ tsx[x].owner # Gone
        /\ tsx' = [tsx EXCEPT ![x] = Free]
        /\ registering' = 0 /\ showLoginState(tsx[x].st)
        /\ acc' = [acc EXCEPT ![tsx[x].owner] = IF tsx[x].st = "ok" THEN "idle" ELSE "none"]
        /\ UNCHANGED <<thr, at, dflt, worker, bound>>
    BY DEF regc_cb
  <1>1. /\ OwnerRegisters' /\ UnregisterLast'
        /\ Unregisters(1) => LateAnswer'
    BY <1>0, HandledRace
  <1>2. Len(replies) \in Nat \ {0} /\ replies[1] = x /\ worker = "idle"
    BY <1>0, FirstTaken DEF NextReply
  <1>3. tsx[x].st \in Answers /\ tsx[x].owner \in Slot
    BY <1>0, ReplyTaken DEF Inv, TypeOK, Transaction
  <1>4. acc[tsx[x].owner] = "busy"
    BY <1>3 DEF Inv, BusyHasTransaction, Pending, Answers
  <1>5. acc'[tsx[x].owner] # "free" /\ \A j \in Slot : acc'[j] = "free" <=> acc[j] = "free"
    BY <1>0, <1>3, <1>4 DEF Inv, TypeOK
  <1>6. NoHole'
    BY <1>0, <1>5 DEF Race, NoHole
  <1>7. dflt \in Slot
    BY DEF Inv, TypeOK
  <1>8. DefaultKept'
    BY <1>0, <1>5, <1>7 DEF Race, DefaultKept
  <1>9. FlagIsMeant' /\ SuccessHasAccount'
    BY <1>0, <1>2, <1>3, <1>5 DEF FlagIsMeant, SuccessHasAccount
  <1>10. ASSUME login' = "SUCCESS", ~bound PROVE LateAnswer'
    <2>1. tsx[x].st = "ok"
      BY <1>0, <1>10 DEF showLoginState
    <2>2. tsx[x].op = "reg"
      BY <1>0 DEF Race, OwnerRegisters
    <2>3. 1 \in 1 .. Len(replies)
      BY <1>2
    <2>4. Unregisters(1)
      BY <1>2, <1>10, <2>1, <2>2, <2>3 DEF Race, UnregisterLast
    <2> QED  BY <1>1, <2>4
  <1>11. NotYetBound'
    BY <1>0, <1>10 DEF NotYetBound
  <1> QED  BY <1>1, <1>6, <1>8, <1>9, <1>11 DEF Race

LEMMA DeletedRace ==
    ASSUME Inv, Race, ~Reorder, NEW x \in Tsx, DeletedRegcAnswered(x)
    PROVE  Race'
  <1>0. /\ NextReply(x) /\ tsx[x].owner = Gone
        /\ tsx' = [tsx EXCEPT ![x] = Free]
        /\ UNCHANGED <<login, thr, at, acc, dflt, bound>>
        /\ worker = "idle"
    BY DEF DeletedRegcAnswered, NextReply
  <1>1. /\ OwnerRegisters' /\ UnregisterLast'
        /\ \A y \in Tsx : y # x => tsx'[y] = tsx[y]
    BY <1>0, HandledRace
  <1>2. Awaited => Awaited'
    BY <1>0, <1>1 DEF Awaited, Pending
  <1>3. Working => Working'
    BY <1>0 DEF Working
  <1>4. NoHole' /\ DefaultKept' /\ SuccessHasAccount'
    BY <1>0, <1>3 DEF Race, NoHole, DefaultKept, SuccessHasAccount
  <1>5. CASE registering = 0
    <2>1. registering' = 2 /\ worker' = "resend"
      BY <1>5 DEF DeletedRegcAnswered
    <2>2. FlagIsMeant' /\ NotYetBound'
      BY <2>1 DEF FlagIsMeant, NotYetBound
    <2> QED  BY <1>1, <1>4, <2>2 DEF Race
  <1>6. CASE registering # 0
    <2>1. UNCHANGED <<registering, worker>>
      BY <1>6 DEF DeletedRegcAnswered
    <2>2. registering = 1
      BY <1>0, <1>6 DEF Race, FlagIsMeant, Inv, TypeOK
    <2>3. login = "SUCCESS" => Working' \/ Awaited'
      BY <1>2, <1>3, <2>2 DEF Race, FlagIsMeant
    <2>4. FlagIsMeant' /\ NotYetBound'
      BY <1>0, <2>1, <2>2, <2>3 DEF FlagIsMeant, NotYetBound
    <2> QED  BY <1>1, <1>4, <2>4 DEF Race
  <1> QED  BY <1>5, <1>6

LEMMA WorkerRace ==
    ASSUME Inv, Race, ~Reorder, Worker \/ \E i \in Slot : RefreshTimer(i)
    PROVE  Race'
  <1>1. CASE RegisterAgain
    <2>0. worker = "resend" /\ UNCHANGED <<login, thr, at, dflt, replies, bound, registering>>
      BY <1>1 DEF RegisterAgain
    <2>1. CASE registering = 2
      <3>1. dflt \in Slot /\ Register(dflt) /\ worker' = "reset"
        BY <1>1, <2>1 DEF RegisterAgain, Inv, TypeOK
      <3>2. /\ NoHole' /\ DefaultKept' /\ OwnerRegisters' /\ SuccessHasAccount'
            /\ UnregisterLast'
            /\ Working => Working'
            /\ acc[dflt] # "free" => Awaited'
        BY <2>0, <3>1, RegisterRace
      <3>3. login = "SUCCESS" => Working' \/ Awaited'
        BY <3>2, DefaultExists
      <3>4. FlagIsMeant' /\ NotYetBound'
        BY <2>0, <2>1, <3>1, <3>3 DEF FlagIsMeant, NotYetBound
      <3> QED  BY <3>2, <3>4 DEF Race
    <2>2. CASE registering # 2
      <3>1. worker' = "idle" /\ UNCHANGED <<acc, tsx>>
        BY <1>1, <2>2 DEF RegisterAgain
      <3>2. registering = 1
        BY <2>0, <2>2 DEF Race, FlagIsMeant, Inv, TypeOK
      <3>3. login = "SUCCESS" => Working' \/ Awaited'
        BY <2>0, <3>1, <3>2 DEF Race, FlagIsMeant, Working, Awaited, Pending
      <3>4. FlagIsMeant' /\ NotYetBound'
        BY <2>0, <3>1, <3>2, <3>3 DEF FlagIsMeant, NotYetBound
      <3>5. /\ NoHole' /\ DefaultKept' /\ OwnerRegisters' /\ SuccessHasAccount'
            /\ UnregisterLast'
        BY <2>0, <3>1 DEF Race, NoHole, DefaultKept, OwnerRegisters, Working,
                          SuccessHasAccount, UnregisterLast, Unregisters
      <3> QED  BY <3>4, <3>5 DEF Race
    <2> QED  BY <2>1, <2>2
  <1>2. CASE ResetRegistering
    <2>1. /\ worker = "reset" /\ worker' = "idle" /\ registering' = 0
          /\ UNCHANGED <<login, thr, at, acc, dflt, tsx, replies, bound>>
      BY <1>2 DEF ResetRegistering
    <2> QED  BY <2>1 DEF Race, NoHole, DefaultKept, OwnerRegisters, FlagIsMeant,
                         SuccessHasAccount, UnregisterLast, Unregisters, NotYetBound,
                         Working, Awaited, LateAnswer, Pending
  <1>3. ASSUME NEW i \in Slot, RetryTimer(i) \/ RefreshTimer(i)
        PROVE  Race'
    <2>1. Register(i) /\ UNCHANGED <<login, thr, at, dflt, replies, bound, worker, registering>>
      BY <1>3 DEF RetryTimer, RefreshTimer
    <2>2. /\ NoHole' /\ DefaultKept' /\ OwnerRegisters' /\ SuccessHasAccount'
          /\ UnregisterLast'
          /\ Working => Working'
          /\ Awaited => Awaited'
          /\ LateAnswer => LateAnswer'
      BY <2>1, RegisterRace
    <2>3. FlagIsMeant' /\ NotYetBound'
      BY <2>1, <2>2 DEF Race, FlagIsMeant, NotYetBound
    <2> QED  BY <2>2, <2>3 DEF Race
  <1> QED  BY <1>1, <1>2, <1>3, AnsweredRace, DeletedRace DEF Worker

\* The server answers: a binding that is gone was taken by an UNREGISTER,
\* whose answer comes last.
LEMMA ServerRace ==
    ASSUME Inv, Race, NEW x \in Tsx, NEW k \in Kinds, Answer(x, k)
    PROVE  Race'
  <1>1. /\ replies' = Append(replies, x)
        /\ tsx' = [tsx EXCEPT ![x].st = k]
        /\ UNCHANGED <<acc, login, thr, at, dflt, registering, worker>>
        /\ tsx[x].st = "sent"
        /\ k \in Answers
    BY KindsAssumption DEF Answer
  <1>2. /\ tsx'[x].st = k /\ tsx'[x].owner = tsx[x].owner /\ tsx'[x].op = tsx[x].op
        /\ \A y \in Tsx : y # x => tsx'[y] = tsx[y]
        /\ tsx[x].op \in {"reg", "unreg"}
    BY <1>1 DEF Inv, TypeOK, Transaction
  <1>3. /\ Len(replies) \in Nat
        /\ Len(replies') = Len(replies) + 1
        /\ replies'[Len(replies) + 1] = x
        /\ \A n \in 1 .. Len(replies) : replies'[n] = replies[n]
    BY <1>1 DEF Inv, TypeOK
  <1>4. \A n \in 1 .. Len(replies) : tsx'[replies'[n]] = tsx[replies[n]]
    <2>1. \A n \in 1 .. Len(replies) : replies[n] # x
      BY <1>1 DEF Inv, RepliesAreAnswers, Answers
    <2> QED  BY <1>2, <1>3, <2>1, ReplyIsPending
  <1>5. \A y \in Tsx : (Pending(y)' <=> Pending(y)) /\ tsx'[y].owner = tsx[y].owner
                       /\ tsx'[y].op = tsx[y].op
    BY <1>1, <1>2 DEF Pending, Answers
  <1>6. (Working' <=> Working) /\ (Awaited' <=> Awaited) /\ (LateAnswer => LateAnswer')
    <2>1. LateAnswer => LateAnswer'
      BY <1>3, <1>4 DEF LateAnswer
    <2> QED  BY <1>1, <1>5, <2>1 DEF Working, Awaited
  <1>7. NoHole' /\ DefaultKept' /\ OwnerRegisters' /\ FlagIsMeant' /\ SuccessHasAccount'
    BY <1>1, <1>5, <1>6
    DEF Race, NoHole, DefaultKept, OwnerRegisters, FlagIsMeant, SuccessHasAccount
  <1>8. bound /\ ~bound' => tsx[x].op = "unreg"
    BY <1>2 DEF Answer
  <1>9. ~bound' => ~(tsx[x].op = "reg" /\ k = "ok")
    BY DEF Answer
  <1>10. UnregisterLast'
    <2> SUFFICES ASSUME ~bound', NEW p \in 1 .. Len(replies'),
                        tsx'[replies'[p]].op = "reg", tsx'[replies'[p]].st = "ok"
                 PROVE  \E q \in 1 .. Len(replies') :
                           p < q /\ tsx'[replies'[q]].op = "unreg"
      BY DEF UnregisterLast, Unregisters
    <2>1. p # Len(replies) + 1
      BY <1>2, <1>3, <1>9
    <2>2. p \in 1 .. Len(replies) /\ tsx[replies[p]].op = "reg" /\ tsx[replies[p]].st = "ok"
      BY <1>3, <1>4, <2>1
    <2>3. CASE bound
      <3>1. Len(replies) + 1 \in 1 .. Len(replies') /\ p < Len(replies) + 1
        BY <1>3, <2>2
      <3> QED  BY <1>2, <1>3, <1>8, <2>3, <3>1
    <2>4. CASE ~bound
      <3>1. PICK q \in 1 .. Len(replies) : p < q /\ tsx[replies[q]].op = "unreg"
        BY <2>2, <2>4 DEF Race, UnregisterLast, Unregisters
      <3>2. q \in 1 .. Len(replies')
        BY <1>3
      <3> QED  BY <1>4, <3>1, <3>2
    <2> QED  BY <2>3, <2>4
  <1>11. NotYetBound'
    <2>1. CASE bound /\ ~bound'
      <3>1. tsx'[x].owner = Gone
        BY <1>2, <1>8, <2>1 DEF Race, OwnerRegisters
      <3>2. Len(replies) + 1 \in 1 .. Len(replies')
        BY <1>3
      <3>3. LateAnswer'
        BY <1>3, <3>1, <3>2 DEF LateAnswer
      <3> QED  BY <3>3 DEF NotYetBound
    <2>2. CASE ~(bound /\ ~bound')
      BY <1>1, <1>6, <2>2 DEF Race, NotYetBound
    <2> QED  BY <2>1, <2>2
  <1> QED  BY <1>7, <1>10, <1>11 DEF Race

\* Screens change the state on display, but to no success, and start threads.
LEMMA ScreenRace ==
    ASSUME Inv, Race, Screen \/ Recover \/ UNCHANGED vars
    PROVE  Race'
  <1>1. /\ UNCHANGED <<at, acc, dflt, registering, worker, tsx, replies, bound>>
        /\ thr' = thr \/ StartThread
        /\ login' = "SUCCESS" => login = "SUCCESS"
    BY DEF Screen, MainPageRegister, SettingsReregister, CancelDialog, SetUnregistered,
           DismissDialog, OpenSettings, CloseSettings, MemberStateChange,
           CallError, ShowAlert, ResumeAlert, CloseAlert, checkSpecialError,
           Recover, vars
  <1>2. \A u \in Threads : thr'[u] = thr[u] \/ (thr[u] = "off" /\ thr'[u] = "check")
    BY <1>1 DEF Inv, TypeOK, StartThread
  <1>3. (Working => Working') /\ (Awaited => Awaited') /\ (LateAnswer => LateAnswer')
    BY <1>1, <1>2 DEF Working, Awaited, LateAnswer, Pending
  <1>4. NoHole'
    BY <1>1, <1>2 DEF Race, NoHole
  <1>5. DefaultKept' /\ OwnerRegisters' /\ UnregisterLast'
    BY <1>1 DEF Race, DefaultKept, OwnerRegisters, UnregisterLast, Unregisters
  <1>6. FlagIsMeant' /\ SuccessHasAccount' /\ NotYetBound'
    BY <1>1, <1>3 DEF Race, FlagIsMeant, SuccessHasAccount, NotYetBound
  <1> QED  BY <1>4, <1>5, <1>6 DEF Race

\* Answers handled in their order: however many threads delete, add and
\* register accounts at the same time, and whatever the server answers, a
\* terminal at rest that shows "registered" has a binding with the server.
THEOREM RegisteredAtRest ==
    ASSUME ~Reorder
    PROVE  Safety => []RegisteredIsBound
  <1>1. Inv /\ Race /\ [Next]_vars => Race'
    BY ThreadRace, WorkerRace, ServerRace, ScreenRace DEF Next
  <1>2. Inv /\ Race => RegisteredIsBound
    <2> SUFFICES ASSUME Inv, Race, login = "SUCCESS",
                        \A t \in Threads : thr[t] \in {"off", "check"},
                        worker = "idle", \A x \in Tsx : ~Pending(x)
                 PROVE  bound
      BY DEF RegisteredIsBound
    <2>1. ~Working /\ ~Awaited
      BY DEF Working, Awaited
    <2>2. ~LateAnswer
      BY ReplyIsPending DEF LateAnswer
    <2> QED  BY <2>1, <2>2 DEF Race, NotYetBound
  <1> QED  BY InitInv, NextInv, InitRace, <1>1, <1>2, PTL DEF Safety

=============================================================================
