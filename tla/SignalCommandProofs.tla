------------------------ MODULE SignalCommandProofs ------------------------
(***************************************************************************)
(* Proofs about SignalCommand: the types, at most two handlers at once,    *)
(* and that a command that arrives between two status_checks is obeyed as  *)
(* it was sent, for any number of signals.                                 *)
(***************************************************************************)
EXTENDS SignalCommand, SequenceTheorems, TLAPS

Signal == [cmd : Cmds, id : 1..MaxSignals]

Handling ==
    [cmd : Cmds, id : 1..MaxSignals, todo : (SUBSET Accesses) \ {{}}]

-----------------------------------------------------------------------------
(* The handlers.                                                           *)

(* A sequence cut short keeps what comes before.                           *)
LEMMA WithoutLast ==
    ASSUME NEW S, NEW s \in Seq(S), NEW k \in Nat, k < Len(s)
    PROVE  /\ SubSeq(s, 1, k) \in Seq(S) /\ Len(SubSeq(s, 1, k)) = k
           /\ \A i \in 1..k : SubSeq(s, 1, k)[i] = s[i]
OBVIOUS

(* A handler with other stores to make is still a handler.                 *)
LEMMA OneStoreLess ==
    ASSUME NEW h \in Handling, NEW X
    PROVE  /\ [h EXCEPT !.todo = X] = [cmd |-> h.cmd, id |-> h.id, todo |-> X]
           /\ h.cmd \in Cmds /\ h.id \in 1..MaxSignals
           /\ h.todo \in (SUBSET Accesses) \ {{}}
BY DEF Handling

(* What one store does to the handlers: the running one returns or has one *)
(* store less to make, the others stay.                                    *)
LEMMA HandlersAfterStore ==
    ASSUME handlers \in Seq(Handling), NEW member \in Accesses,
           HandlerStores(member)
    PROVE  LET n == Len(handlers)
               m == Len(handlers')
           IN /\ n \in Nat \ {0} /\ m \in {n - 1, n}
              /\ handlers' \in Seq(Handling)
              /\ \A i \in 1..(n - 1) : handlers'[i] = handlers[i]
              /\ m = n => /\ handlers'[n].todo = handlers[n].todo \ {member}
                          /\ handlers'[n].cmd = handlers[n].cmd
                          /\ handlers'[n].id = handlers[n].id
              /\ m = 0 <=> handlers' = <<>>
<1> DEFINE n == Len(handlers)
           rest == [cmd |-> handlers[n].cmd, id |-> handlers[n].id,
                    todo |-> handlers[n].todo \ {member}]
<1>1. n \in Nat \ {0} /\ member \in handlers[n].todo
  <2>1. handlers # <<>> /\ member \in handlers[n].todo
    BY DEF HandlerStores, Top
  <2>2. QED BY <2>1, EmptySeq
<1>2. handlers[n] \in Handling
  BY <1>1
<1>3. CASE handlers[n].todo = {member}
  <2>1. handlers' = SubSeq(handlers, 1, n - 1)
    BY <1>3 DEF HandlerStores, Top
  <2>2. /\ handlers' \in Seq(Handling) /\ Len(handlers') = n - 1
        /\ \A i \in 1..(n - 1) : handlers'[i] = handlers[i]
    <3>1. n - 1 \in Nat /\ n - 1 < n
      BY <1>1
    <3>2. QED BY <2>1, <3>1, WithoutLast
  <2>3. n - 1 # n /\ (n - 1 = 0 <=> handlers' = <<>>)
    BY <1>1, <2>2, EmptySeq
  <2>4. QED BY <1>1, <2>2, <2>3
<1>4. CASE handlers[n].todo # {member}
  <2>1. handlers' = [handlers EXCEPT ![n] = rest]
    <3>1. [handlers[n] EXCEPT !.todo = handlers[n].todo \ {member}] = rest
      BY <1>2, OneStoreLess
    <3>2. QED BY <1>4, <3>1 DEF HandlerStores, Top
  <2>2. /\ rest.cmd = handlers[n].cmd /\ rest.id = handlers[n].id
        /\ rest.todo = handlers[n].todo \ {member}
        /\ rest \in Handling
    BY <1>1, <1>2, <1>4 DEF Handling
  <2> HIDE DEF rest
  <2>3. /\ handlers' \in Seq(Handling) /\ Len(handlers') = n
        /\ handlers'[n] = rest
        /\ \A i \in 1..(n - 1) : handlers'[i] = handlers[i]
    BY <2>1, <2>2, <1>1
  <2>4. handlers' # <<>>
    BY <1>1, <2>3
  <2>5. QED BY <1>1, <2>2, <2>3, <2>4
<1>5. QED BY <1>3, <1>4

(* Two handlers of the same signal are never at work together, so there    *)
(* are at most two.                                                        *)
LEMMA AtMostTwo ==
    ASSUME NEW hs \in Seq(Handling),
           \A i, j \in 1..Len(hs) :
               i # j => hs[i].cmd # hs[j].cmd
    PROVE  Len(hs) <= 2
<1> SUFFICES ASSUME ~(Len(hs) <= 2)
             PROVE  FALSE
  OBVIOUS
<1>1. /\ 1 \in 1..Len(hs) /\ 2 \in 1..Len(hs)
      /\ 3 \in 1..Len(hs)
  OBVIOUS
<1>2. ASSUME NEW i \in 1..Len(hs)
      PROVE  hs[i].cmd \in Cmds
  <2>1. hs[i] \in Handling
    OBVIOUS
  <2>2. QED BY <2>1, OneStoreLess
<1>3. /\ hs[1].cmd # hs[2].cmd /\ hs[1].cmd # hs[3].cmd
      /\ hs[2].cmd # hs[3].cmd
  BY <1>1
<1>4. QED BY <1>1, <1>2, <1>3 DEF Cmds

-----------------------------------------------------------------------------
(* The signals.                                                            *)
(* The types, with the signals and handlers named.                         *)
Types ==
    /\ TypeOK
    /\ handlers \in Seq(Handling) /\ pending \subseteq Signal

(* They are no more than TypeOK says.                                      *)
LEMMA TypesAreTypes == TypeOK <=> Types
BY DEF TypeOK, Types, Handling, Signal

(* A step of the loop leaves the signals alone, and so what is known of    *)
(* them.                                                                   *)
LEMMA LoopLeavesSignals ==
    ASSUME Types, OneSignalEach, SlotIsStored, StatusCheck
    PROVE  OneSignalEach' /\ SlotIsStored' /\ handlers = <<>>
<1>1. /\ UNCHANGED <<signals, last, taskId>>
      /\ handlers = <<>>
  BY DEF StatusCheck, TestNone, TestCreate, TestCancel, LoadTaskId, ClearCmd,
         g_cmd
<1>2. cmd' \in {cmd, "CMD_NONE"}
  BY DEF StatusCheck, TestNone, TestCreate, TestCancel, LoadTaskId, ClearCmd,
         g_cmd
<1>3. OneSignalEach'
  BY <1>1 DEF OneSignalEach, signals
<1>4. SlotIsStored'
  BY <1>1, <1>2 DEF SlotIsStored, signals
<1>5. QED BY <1>1, <1>3, <1>4

(* A step of the loop keeps the types.                                     *)
LEMMA LoopTypes ==
    ASSUME Types, StatusCheck
    PROVE  TypeOK'
<1> USE DEF Types, TypeOK, signals, g_cmd, Cmds, Accesses, Load, LoadFresh
<1>1. CASE TestNone
  BY <1>1 DEF TestNone
<1>2. CASE TestCreate
  BY <1>2 DEF TestCreate
<1>3. CASE TestCancel
  BY <1>3 DEF TestCancel
<1>4. CASE LoadTaskId
  BY <1>4 DEF LoadTaskId, Leave
<1>5. CASE ClearCmd
  BY <1>5 DEF ClearCmd, Leave
<1>6. QED BY <1>1, <1>2, <1>3, <1>4, <1>5 DEF StatusCheck

(* A command on its way stays on it, or is obeyed.                         *)
LEMMA LoopObeys ==
    ASSUME Types, SlotIsStored, OnItsWay, StatusCheck
    PROVE  OnItsWay'
<1>0. /\ taskId = last.task_id /\ cmd \in Cmds \union {"CMD_NONE"}
      /\ cmd # "CMD_NONE" => cmd = sent[last.cmd]
      /\ todo \subseteq Accesses /\ (todo # {} <=> at \in {"start", "stop"})
  BY DEF SlotIsStored, Types, TypeOK
<1> USE <1>0
        DEF OnItsWay, Seen, signals, g_cmd, Cmds, Accesses, Load, LoadFresh
<1>1. CASE TestNone
  BY <1>1 DEF TestNone
<1>2. CASE TestCreate
  BY <1>2 DEF TestCreate
<1>3. CASE TestCancel
  BY <1>3 DEF TestCancel
<1>4. CASE LoadTaskId
  BY <1>4 DEF LoadTaskId, Leave
<1>5. CASE ClearCmd
  BY <1>5 DEF ClearCmd, Leave
<1>6. QED BY <1>1, <1>2, <1>3, <1>4, <1>5 DEF StatusCheck

-----------------------------------------------------------------------------
(* A command sent gets an id of its own.                                   *)
LEMMA SendStep ==
    ASSUME IInv, Send
    PROVE  IInv'
<1> USE ConstantsAssumption
<1>1. Types /\ OneSignalEach /\ SlotIsStored
  BY TypesAreTypes DEF IInv
<1> DEFINE n == Len(sent)
<1>2. /\ sent \in Seq(Cmds) /\ n \in Nat /\ n < MaxSignals
      /\ UNCHANGED <<g_cmd, loop, handlers, history>>
  BY <1>1 DEF Send, Types, TypeOK
<1>3. PICK c \in Cmds :
        /\ sent' = Append(sent, c)
        /\ \/ pending' = pending
           \/ pending' = pending \union {[cmd |-> c, id |-> Len(sent')]}
  BY DEF Send
<1>4. /\ sent' \in Seq(Cmds) /\ Len(sent') = n + 1
      /\ sent'[n + 1] = c
      /\ \A i \in 1..n : sent'[i] = sent[i]
  BY <1>2, <1>3
<1> DEFINE new == [cmd |-> c, id |-> n + 1]
<1>5. /\ new \in Signal /\ new.cmd = c /\ new.id = n + 1
      /\ pending' = pending \/ pending' = pending \union {new}
  BY <1>2, <1>3, <1>4 DEF Signal
<1> HIDE DEF n, new
<1>6. TypeOK'
  <2>1. pending' \subseteq Signal
    BY <1>1, <1>5 DEF Types
  <2>2. QED BY <1>1, <1>2, <1>4, <2>1
             DEF Types, TypeOK, Signal, g_cmd, loop, history
<1>7. OneSignalEach'
  <2>1. /\ last.cmd \in 0..n /\ last.task_id \in 0..n
        /\ last' = last /\ handlers' = handlers
    BY <1>1, <1>2 DEF OneSignalEach, history, n
  <2>2. ASSUME NEW i \in 1..Len(handlers)
        PROVE  /\ handlers[i].id \in 1..n
               /\ handlers[i].cmd = sent'[handlers[i].id]
               /\ \A j \in 1..Len(handlers) :
                     i # j => /\ handlers[i].id # handlers[j].id
                              /\ handlers[i].cmd # handlers[j].cmd
    BY <1>1, <1>4 DEF OneSignalEach, n
  <2>3. ASSUME NEW p \in pending
        PROVE  /\ p.id \in 1..n /\ p.cmd = sent'[p.id]
               /\ last.cmd # p.id /\ last.task_id # p.id
               /\ \A q \in pending : q.id = p.id => q = p
               /\ \A i \in 1..Len(handlers) : handlers[i].id # p.id
    BY <1>1, <1>4 DEF OneSignalEach, n
  <2>4. ASSUME NEW p \in pending'
        PROVE  /\ p.id \in 1..(n + 1) /\ p.cmd = sent'[p.id]
               /\ last.cmd # p.id /\ last.task_id # p.id
               /\ \A q \in pending' : q.id = p.id => q = p
               /\ \A i \in 1..Len(handlers) : handlers[i].id # p.id
    <3>1. CASE p \in pending
      BY <1>2, <1>4, <1>5, <2>3, <3>1
    <3>2. CASE p = new
      BY <1>2, <1>4, <1>5, <2>1, <2>2, <2>3, <3>2
    <3>3. QED BY <1>5, <3>1, <3>2
  <2>5. QED BY <1>2, <1>4, <2>1, <2>2, <2>4 DEF OneSignalEach
<1>8. SlotIsStored' /\ (last.cmd # 0 => (OnItsWay => OnItsWay'))
  <2>1. last.cmd # 0 => sent'[last.cmd] = sent[last.cmd]
    BY <1>1, <1>4 DEF OneSignalEach, n
  <2>2. QED BY <1>1, <1>2, <2>1
             DEF SlotIsStored, OnItsWay, Seen, g_cmd, loop, history
<1>9. QED BY <1>2, <1>6, <1>7, <1>8 DEF IInv, history

(* A handler that starts has its id from the signal it handles.            *)
LEMMA DeliverStep ==
    ASSUME IInv, Deliver
    PROVE  IInv'
<1>1. Types /\ OneSignalEach /\ SlotIsStored
  BY TypesAreTypes DEF IInv
<1>2. PICK p \in pending :
        /\ \A i \in 1..Len(handlers) : handlers[i].cmd # p.cmd
        /\ pending' = pending \ {p}
        /\ handlers' = Append(handlers,
              [cmd |-> p.cmd, id |-> p.id, todo |-> {"cmd", "task_id"}])
  BY DEF Deliver
<1>3. UNCHANGED <<g_cmd, loop, sent, history>>
  BY DEF Deliver
<1> DEFINE h == [cmd |-> p.cmd, id |-> p.id, todo |-> {"cmd", "task_id"}]
           n == Len(handlers)
<1>4. /\ h \in Handling /\ h.cmd = p.cmd /\ h.id = p.id
      /\ h.todo = {"cmd", "task_id"}
  BY <1>1, <1>2 DEF Types, Signal, Handling, Accesses
<1> HIDE DEF h
<1>5. /\ handlers' \in Seq(Handling) /\ n \in Nat /\ Len(handlers') = n + 1
      /\ \A i \in 1..(n + 1) :
            handlers'[i] = IF i = n + 1 THEN h ELSE handlers[i]
      /\ handlers' # <<>>
  <2>1. handlers' = Append(handlers, h) /\ handlers \in Seq(Handling)
    BY <1>1, <1>2 DEF Types, h
  <2>2. QED BY <1>4, <2>1
<1>6. OneSignalEach'
  <2>1. /\ h.id \in 1..Len(sent) /\ h.cmd = sent[h.id]
        /\ \A i \in 1..n : /\ handlers[i].id # h.id
                           /\ handlers[i].cmd # h.cmd
        /\ \A q \in pending' : q.id # h.id
    BY <1>1, <1>2, <1>4 DEF OneSignalEach
  <2>2. \A i \in 1..(n + 1) : i # n + 1 => i \in 1..n
    BY <1>5
  <2>3. ASSUME NEW q \in pending'
        PROVE  /\ q.id \in 1..Len(sent) /\ q.cmd = sent[q.id]
               /\ last.cmd # q.id /\ last.task_id # q.id
               /\ \A r \in pending' : r.id = q.id => r = q
               /\ \A i \in 1..(n + 1) : handlers'[i].id # q.id
    BY <1>1, <1>2, <1>5, <2>1, <2>2 DEF OneSignalEach
  <2>4. ASSUME NEW i \in 1..(n + 1)
        PROVE  /\ handlers'[i].id \in 1..Len(sent)
               /\ handlers'[i].cmd = sent[handlers'[i].id]
               /\ \A j \in 1..(n + 1) :
                     i # j => /\ handlers'[i].id # handlers'[j].id
                              /\ handlers'[i].cmd # handlers'[j].cmd
    <3>1. CASE i = n + 1
      BY <1>5, <2>1, <2>2, <3>1
    <3>2. CASE i # n + 1
      <4>1. i \in 1..n /\ handlers'[i] = handlers[i]
        BY <1>5, <2>2, <3>2
      <4>2. /\ handlers[i].id \in 1..Len(sent)
            /\ handlers[i].cmd = sent[handlers[i].id]
            /\ \A j \in 1..n :
                  i # j => /\ handlers[i].id # handlers[j].id
                           /\ handlers[i].cmd # handlers[j].cmd
        BY <1>1, <4>1 DEF OneSignalEach
      <4>3. \A j \in 1..(n + 1) :
              i # j => /\ handlers'[i].id # handlers'[j].id
                       /\ handlers'[i].cmd # handlers'[j].cmd
        BY <1>5, <2>1, <2>2, <4>1, <4>2
      <4>4. QED BY <4>1, <4>2, <4>3
    <3>3. QED BY <3>1, <3>2
  <2>5. QED
    BY <1>1, <1>3, <1>5, <2>3, <2>4 DEF OneSignalEach, history
<1>7. Len(handlers') <= 2
  <2>1. \A i, j \in 1..Len(handlers') :
            i # j => handlers'[i].cmd # handlers'[j].cmd
    BY <1>6 DEF OneSignalEach
  <2>2. QED BY <1>5, <2>1, AtMostTwo
<1>8. TypeOK'
  BY <1>1, <1>2, <1>3, <1>5, <1>7
     DEF Types, TypeOK, Handling, g_cmd, loop, history
<1>9. SlotIsStored'
  BY <1>1, <1>2, <1>3, <1>4, <1>5
     DEF SlotIsStored, OneSignalEach, g_cmd, history
<1>10. QED BY <1>5, <1>6, <1>8, <1>9 DEF IInv

(* A handler stores: when the last one returns at the head of the loop and *)
(* both members are its own, the command it stored is still there.         *)
LEMMA StoreStep ==
    ASSUME IInv, NEW member \in Accesses, HandlerStores(member),
           IF member = "cmd" THEN StoreCmd ELSE StoreTaskId
    PROVE  IInv'
<1> DEFINE n == Len(handlers)
           m == Len(handlers')
           top == handlers[n]
<1>1. Types /\ OneSignalEach /\ SlotIsStored
  BY TypesAreTypes DEF IInv
<1>2. /\ n \in Nat \ {0} /\ m \in {n - 1, n}
      /\ handlers' \in Seq(Handling)
      /\ \A i \in 1..(n - 1) : handlers'[i] = handlers[i]
      /\ m = n => /\ handlers'[n].todo = top.todo \ {member}
                  /\ handlers'[n].cmd = top.cmd
                  /\ handlers'[n].id = top.id
      /\ m = 0 <=> handlers' = <<>>
  BY <1>1, HandlersAfterStore DEF Types
<1>3. /\ top.cmd \in Cmds /\ top.id \in 1..MaxSignals
      /\ member \in top.todo
  <2>1. top \in Handling
    BY <1>1, <1>2 DEF Types
  <2>2. QED BY <2>1, OneStoreLess DEF HandlerStores, Top
<1>4. /\ last' = [cmd |-> IF member = "cmd" THEN top.id ELSE last.cmd,
                  task_id |-> IF member = "cmd" THEN last.task_id ELSE top.id,
                  head |-> (at = "head")]
      /\ cmd' = IF member = "cmd" THEN top.cmd ELSE cmd
      /\ taskId' = IF member = "cmd" THEN taskId ELSE top.id
      /\ UNCHANGED <<loop, pending, sent, seenFrom, obeyed>>
  BY <1>1
     DEF Types, TypeOK, HandlerStores, StoreCmd, StoreTaskId, Top, Accesses
<1>5. /\ last'.cmd = IF member = "cmd" THEN top.id ELSE last.cmd
      /\ last'.task_id = IF member = "cmd" THEN last.task_id ELSE top.id
      /\ last'.head = (at = "head")
  BY <1>4
<1>6. OneSignalEach'
  <2>1. ASSUME NEW i \in 1..m
        PROVE  /\ i \in 1..n
               /\ handlers'[i].id = handlers[i].id
               /\ handlers'[i].cmd = handlers[i].cmd
    BY <1>2
  <2>2. n \in 1..n /\ top.id \in 1..Len(sent)
    BY <1>1, <1>2 DEF OneSignalEach
  <2>3. ASSUME NEW p \in pending
        PROVE  /\ p.id \in 1..Len(sent) /\ p.cmd = sent[p.id]
               /\ last'.cmd # p.id /\ last'.task_id # p.id
               /\ \A q \in pending : q.id = p.id => q = p
               /\ \A i \in 1..m : handlers'[i].id # p.id
    BY <1>1, <1>5, <2>1, <2>2 DEF OneSignalEach
  <2>4. ASSUME NEW i \in 1..m
        PROVE  /\ handlers'[i].id \in 1..Len(sent)
               /\ handlers'[i].cmd = sent[handlers'[i].id]
               /\ \A j \in 1..m :
                     i # j => /\ handlers'[i].id # handlers'[j].id
                              /\ handlers'[i].cmd # handlers'[j].cmd
    BY <1>1, <2>1 DEF OneSignalEach
  <2>5. last'.cmd \in 0..Len(sent) /\ last'.task_id \in 0..Len(sent)
    BY <1>1, <1>5, <2>2 DEF OneSignalEach
  <2>6. pending' = pending /\ sent' = sent
    BY <1>4
  <2>7. QED BY <2>3, <2>4, <2>5, <2>6 DEF OneSignalEach
<1>7. Len(handlers') <= 2
  BY <1>1, <1>2 DEF Types, TypeOK
<1>8. TypeOK'
  BY <1>1, <1>2, <1>3, <1>4, <1>7, SMTT(30)
     DEF Types, TypeOK, Handling, loop
<1>9. SlotIsStored'
  <2>1. top.cmd = sent[top.id] /\ top.id # 0 /\ n \in 1..n
    BY <1>1, <1>2, <1>3 DEF OneSignalEach
  <2>2. /\ taskId' = last'.task_id
        /\ cmd' # "CMD_NONE" => last'.cmd # 0 /\ cmd' = sent'[last'.cmd]
    BY <1>1, <1>4, <1>5, <2>1 DEF SlotIsStored
  <2>3. \A i \in 1..m :
          IF "cmd" \in handlers'[i].todo THEN last'.cmd # handlers'[i].id
                                         ELSE cmd' \in Cmds
    BY <1>1, <1>2, <1>3, <1>4, <1>5
       DEF SlotIsStored, OneSignalEach, Accesses
  <2>4. QED BY <2>2, <2>3 DEF SlotIsStored
<1>10. ASSUME handlers' = <<>>, last'.head, last'.cmd = last'.task_id
       PROVE  OnItsWay'
  <2>1. n \in 1..n /\ cmd' \in Cmds
    BY <1>1, <1>2, <1>3, <1>4, <1>5, <1>10 DEF SlotIsStored
  <2>2. at' = "head"
    BY <1>4, <1>5, <1>10 DEF loop
  <2>3. QED BY <2>1, <2>2 DEF OnItsWay
<1>11. QED BY <1>6, <1>8, <1>9, <1>10 DEF IInv

-----------------------------------------------------------------------------
(* The invariant holds at the start, and every step keeps it.              *)
LEMMA Inductive == Spec => []IInv
<1>1. Init => IInv
  <2> SUFFICES ASSUME Init
               PROVE  IInv
    OBVIOUS
  <2>1. TypeOK
    BY ConstantsAssumption DEF Init, TypeOK, Cmds, Accesses
  <2>2. OneSignalEach /\ SlotIsStored /\ last.cmd = 0
    BY DEF Init, OneSignalEach, SlotIsStored
  <2>3. QED BY <2>1, <2>2 DEF IInv
<1>2. IInv /\ [Next]_vars => IInv'
  <2> SUFFICES ASSUME IInv, [Next]_vars
               PROVE  IInv'
    OBVIOUS
  <2>1. CASE Send
    BY <2>1, SendStep
  <2>2. CASE Deliver
    BY <2>2, DeliverStep
  <2>3. CASE Handler
    <3>1. CASE StoreCmd
      <4>1. "cmd" \in Accesses /\ HandlerStores("cmd")
        BY <3>1 DEF StoreCmd, Accesses
      <4>2. QED BY <3>1, <4>1, StoreStep
    <3>2. CASE StoreTaskId
      <4>1. "task_id" \in Accesses /\ HandlerStores("task_id")
        BY <3>2 DEF StoreTaskId, Accesses
      <4>2. QED BY <3>2, <4>1, StoreStep
    <3>3. QED BY <2>3, <3>1, <3>2 DEF Handler
  <2>4. CASE StatusCheck
    <3>1. Types /\ OneSignalEach /\ SlotIsStored
      BY TypesAreTypes DEF IInv
    <3>2. TypeOK' /\ OneSignalEach' /\ SlotIsStored' /\ handlers = <<>>
      BY <2>4, <3>1, LoopTypes, LoopLeavesSignals
    <3>3. UNCHANGED last
      BY <2>4
         DEF StatusCheck, TestNone, TestCreate, TestCancel, LoadTaskId,
             ClearCmd
    <3>4. OnItsWay => OnItsWay'
      BY <2>4, <3>1, LoopObeys
    <3>5. QED BY <3>2, <3>3, <3>4 DEF IInv
  <2>5. CASE UNCHANGED vars
    BY <2>5
       DEF vars, g_cmd, loop, signals, history, IInv, TypeOK, OneSignalEach,
           SlotIsStored, OnItsWay, Seen
  <2>6. QED BY <2>1, <2>2, <2>3, <2>4, <2>5 DEF Next
<1>3. QED BY <1>1, <1>2, PTL DEF Spec

(* Every variable has its type; two handlers at most are at work at once.  *)
THEOREM TypeCorrectness == Spec => []TypeOK
<1>1. IInv => TypeOK
  BY DEF IInv
<1>2. QED BY <1>1, Inductive, PTL

(* A command that arrives between two status_checks is obeyed as it was    *)
(* sent, the command of that very signal with its task, however many       *)
(* signals come and wherever their handlers interrupt.                     *)
THEOREM CommandsObeyedAsSent == Spec => []ObeyedAsSent
<1>1. IInv => ObeyedAsSent
  BY DEF IInv, ObeyedAsSent, OnItsWay, Cmds
<1>2. QED BY <1>1, Inductive, PTL
=============================================================================
