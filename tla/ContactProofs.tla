--------------------------- MODULE ContactProofs ---------------------------
(***************************************************************************)
(* Theorems about the contact app, for every value of the constants.       *)
(***************************************************************************)
EXTENDS Contact, TLAPS

-----------------------------------------------------------------------------
(* Types.  A draft becomes a message with its primary key; and a visitor   *)
(* waits only for a thread that handles the visitor's own form, so that no *)
(* answer of the admin reaches a visitor.                                  *)

Draft == [id : {0}, intent : Valid, status : {"new"}]
AnyMemory == Message \cup Draft \cup {Nothing}
Label == {"idle", "save", "notify", "confirm", "edit"}

Fits(label, m) ==
    /\ label \in {"notify", "confirm", "edit"} => m \in Message
    /\ label = "save" => m \in Draft

StoreTyped ==
    /\ messages \subseteq Message /\ nextId \in Nat \ {0} /\ removed \subseteq Letter
    /\ adminMails \subseteq Letter /\ confirmations \subseteq Letter
ThreadsTyped ==
    /\ pc \in [Procs -> Label] /\ mem \in [Procs -> AnyMemory]
    /\ \A p \in Procs : Fits(pc[p], mem[p])
VisitorsTyped ==
    /\ waits \in [Intents -> Procs \cup {Nobody}]
    /\ answer \in [Intents -> {"none", "201", "400", "500"}]
    /\ tries \in [Intents -> 0..MaxTries]
BoundsTyped == faults \in 0..MaxFaults /\ edits \in 0..MaxEdits

Waiting ==
    \A i \in Intents, p \in Procs : waits[i] = p =>
        pc[p] \in {"save", "notify", "confirm"} /\ mem[p].intent = i /\ answer[i] = "none"

TypeInv == StoreTyped /\ ThreadsTyped /\ VisitorsTyped /\ BoundsTyped /\ Waiting

(* TypeInv is at least what TypeOK says.                                   *)
LEMMA TypeInvTypes == TypeInv => TypeOK
  BY DEF TypeInv, TypeOK, StoreTyped, ThreadsTyped, VisitorsTyped, BoundsTyped, Fits, Label, Draft

(* The initial state is well typed.                                        *)
LEMMA InitTypes == Init => TypeInv
<1> SUFFICES ASSUME Init PROVE TypeInv
  OBVIOUS
<1>1. StoreTyped /\ BoundsTyped
  BY BoundsAssumption DEF Init, StoreTyped, BoundsTyped
<1>2. ThreadsTyped
  BY DEF Init, ThreadsTyped, Fits, Label, AnyMemory
<1>3. VisitorsTyped /\ Waiting
  BY BoundsAssumption, NobodyAssumption DEF Init, VisitorsTyped, Waiting
<1> QED
  BY <1>1, <1>2, <1>3 DEF TypeInv

(* A thread moves to a label, with a memory that fits.                     *)
LEMMA MoveTypes ==
  ASSUME ThreadsTyped, NEW p \in Procs, NEW to \in Label, NEW m \in AnyMemory, Fits(to, m),
         pc' = [pc EXCEPT ![p] = to], mem' = [mem EXCEPT ![p] = m]
  PROVE  ThreadsTyped'
  BY DEF ThreadsTyped, Fits

(* A thread moves to a label, and its memory, which fits, stays.           *)
LEMMA StayTypes ==
  ASSUME ThreadsTyped, NEW p \in Procs, NEW to \in Label, Fits(to, mem[p]),
         pc' = [pc EXCEPT ![p] = to], UNCHANGED mem
  PROVE  ThreadsTyped'
  BY DEF ThreadsTyped, Fits

(* A letter is what identifies a message.                                  *)
LEMMA LetterTypes ==
  ASSUME NEW m \in Message
  PROVE  LetterOf(m) \in Letter /\ LetterOf(m).id = m.id /\ LetterOf(m).intent = m.intent
  BY DEF LetterOf, Message, Letter

(* A thread replies to whoever waits for it.                               *)
LEMMA ReplyTypes ==
  ASSUME TypeInv, NEW p \in Procs, NEW status, Reply(p, status),
         status \in {"201", "500"} \/ pc[p] = "edit"
  PROVE  ThreadsTyped' /\ VisitorsTyped' /\ Waiting'
<1> USE DEF TypeInv
<1>1. ThreadsTyped'
  <2>1. Fits("idle", Nothing) /\ "idle" \in Label /\ Nothing \in AnyMemory
    BY DEF Fits, Label, AnyMemory
  <2> QED
    BY <2>1, MoveTypes DEF Reply
<1>2. ASSUME NEW i \in Intents PROVE answer'[i] \in {"none", "201", "400", "500"}
  BY DEF Reply, VisitorsTyped, Waiting
<1>3. VisitorsTyped'
  BY <1>2, NobodyAssumption DEF Reply, VisitorsTyped
<1>4. ASSUME NEW i \in Intents, NEW q \in Procs, waits'[i] = q
      PROVE  pc'[q] \in {"save", "notify", "confirm"} /\ mem'[q].intent = i /\ answer'[i] = "none"
  <2>1. waits[i] = q /\ q # p /\ answer'[i] = answer[i]
    BY <1>4, NobodyAssumption DEF Reply, VisitorsTyped
  <2>2. pc'[q] = pc[q] /\ mem'[q] = mem[q]
    BY <2>1 DEF Reply, ThreadsTyped
  <2> QED
    BY <2>1, <2>2 DEF Waiting
<1> QED
  BY <1>1, <1>3, <1>4 DEF Waiting

(* A failure and an edit are counted.                                      *)
LEMMA CountTypes ==
  ASSUME BoundsTyped, (\E kind \in FaultKinds : Fault(kind)) \/ Edit \/ UNCHANGED bounds
  PROVE  BoundsTyped'
  BY BoundsAssumption DEF BoundsTyped, Fault, Edit, bounds

-----------------------------------------------------------------------------
(* Every step keeps the types.                                             *)

(* A form arrives.                                                         *)
LEMMA SubmitTypes ==
  ASSUME TypeInv, NEW i \in Intents, SubmitInvalid(i) \/ \E p \in Procs : Submit(p, i)
  PROVE  TypeInv'
<1> USE DEF TypeInv
<1>1. CASE SubmitInvalid(i)
  <2>1. StoreTyped' /\ ThreadsTyped' /\ BoundsTyped'
    BY <1>1 DEF SubmitInvalid, stored, mailed, bounds, StoreTyped, ThreadsTyped, BoundsTyped
  <2>2. tries' \in [Intents -> 0..MaxTries]
    BY <1>1, BoundsAssumption DEF SubmitInvalid, Sends, VisitorsTyped
  <2>3. VisitorsTyped' /\ Waiting'
    BY <1>1, <2>2, NobodyAssumption DEF SubmitInvalid, Sends, VisitorsTyped, Waiting
  <2> QED
    BY <2>1, <2>3
<1>2. ASSUME NEW p \in Procs, Submit(p, i) PROVE TypeInv'
  <2> DEFINE m == [id |-> 0, intent |-> i, status |-> "new"]
  <2>1. StoreTyped' /\ BoundsTyped'
    BY <1>2 DEF Submit, SubmitUnchecked, stored, mailed, bounds, StoreTyped, BoundsTyped
  <2>2. m \in AnyMemory /\ Fits("save", m) /\ "save" \in Label
    BY <1>2 DEF Submit, Draft, AnyMemory, Fits, Label
  <2>3. /\ pc[p] = "idle" /\ pc' = [pc EXCEPT ![p] = "save"] /\ mem' = [mem EXCEPT ![p] = m]
        /\ waits' = [waits EXCEPT ![i] = p] /\ answer' = [answer EXCEPT ![i] = "none"]
        /\ Sends(i)
    BY <1>2 DEF Submit, SubmitUnchecked, Step
  <2>4. m.intent = i
    OBVIOUS
  <2> HIDE DEF m
  <2>5. ThreadsTyped'
    BY <2>2, <2>3, MoveTypes
  <2>6. tries' \in [Intents -> 0..MaxTries]
    BY <2>3, BoundsAssumption DEF Sends, VisitorsTyped
  <2>7. VisitorsTyped'
    BY <2>3, <2>6 DEF VisitorsTyped
  <2>8. ASSUME NEW j \in Intents, NEW q \in Procs, waits'[j] = q
        PROVE  pc'[q] \in {"save", "notify", "confirm"} /\ mem'[q].intent = j /\ answer'[j] = "none"
    <3>1. CASE j = i
      BY <2>3, <2>4, <2>8, <3>1 DEF VisitorsTyped, ThreadsTyped
    <3>2. CASE j # i
      <4>1. waits[j] = q /\ answer'[j] = answer[j]
        BY <2>3, <2>8, <3>2 DEF VisitorsTyped
      <4>2. q # p
        BY <2>3, <4>1 DEF Waiting
      <4> QED
        BY <2>3, <4>1, <4>2 DEF Waiting, ThreadsTyped
    <3> QED
      BY <3>1, <3>2
  <2> QED
    BY <2>1, <2>5, <2>7, <2>8 DEF Waiting
<1> QED
  BY <1>1, <1>2
(* What a save makes of the draft.                                         *)
LEMMA DraftSaved ==
  ASSUME TypeInv, NEW p \in Procs, pc[p] = "save"
  PROVE  /\ [mem[p] EXCEPT !.id = nextId] \in Message
         /\ [mem[p] EXCEPT !.id = nextId].id = nextId
         /\ [mem[p] EXCEPT !.id = nextId].intent = mem[p].intent
<1>1. mem[p] \in Draft /\ nextId \in Nat \ {0}
  BY DEF TypeInv, ThreadsTyped, StoreTyped, Fits
<1> QED
  BY <1>1, StatusAssumption DEF Draft, Message

(* The handler of the form goes on to its next access.                     *)
LEMMA GoOnTypes ==
  ASSUME TypeInv, NEW p \in Procs, Save(p) \/ Notify(p)
  PROVE  TypeInv'
<1> USE DEF TypeInv
<1>1. CASE Save(p)
  <2> DEFINE m == [mem[p] EXCEPT !.id = nextId]
  <2>1. /\ pc[p] = "save" /\ pc' = [pc EXCEPT ![p] = "notify"] /\ mem' = [mem EXCEPT ![p] = m]
        /\ messages' = messages \cup {m} /\ nextId' = nextId + 1
        /\ UNCHANGED <<removed, mailed, client, bounds>>
    BY <1>1 DEF Save, Insert, Step
  <2>2. m \in Message /\ m.intent = mem[p].intent
    BY <2>1, DraftSaved
  <2> HIDE DEF m
  <2>3. m \in AnyMemory /\ Fits("notify", m) /\ "notify" \in Label
    BY <2>2 DEF AnyMemory, Fits, Label
  <2>4. ThreadsTyped'
    BY <2>1, <2>3, MoveTypes
  <2>5. StoreTyped'
    BY <2>1, <2>2 DEF StoreTyped, mailed
  <2>6. VisitorsTyped' /\ BoundsTyped'
    BY <2>1 DEF VisitorsTyped, BoundsTyped, client, bounds
  <2>7. Waiting'
    BY <2>1, <2>2 DEF Waiting, ThreadsTyped, client
  <2> QED
    BY <2>4, <2>5, <2>6, <2>7
<1>2. CASE Notify(p)
  <2>1. /\ pc[p] = "notify" /\ pc' = [pc EXCEPT ![p] = "confirm"] /\ mem' = mem
        /\ adminMails' = adminMails \cup {LetterOf(mem[p])}
        /\ UNCHANGED <<stored, confirmations, client, bounds>>
    BY <1>2 DEF Notify, Step
  <2>2. mem[p] \in Message
    BY <2>1 DEF ThreadsTyped, Fits
  <2>3. Fits("confirm", mem[p]) /\ "confirm" \in Label
    BY <2>2 DEF Fits, Label
  <2>4. ThreadsTyped'
    BY <2>1, <2>3, StayTypes
  <2>5. StoreTyped'
    BY <2>1, <2>2, LetterTypes DEF StoreTyped, stored
  <2>6. VisitorsTyped' /\ BoundsTyped'
    BY <2>1 DEF VisitorsTyped, BoundsTyped, client, bounds
  <2>7. Waiting'
    BY <2>1 DEF Waiting, ThreadsTyped, client
  <2> QED
    BY <2>4, <2>5, <2>6, <2>7
<1> QED
  BY <1>1, <1>2

(* A handler ends.                                                         *)
LEMMA EndTypes ==
  ASSUME TypeInv, NEW p \in Procs,
         \/ SaveFails(p) \/ NotifyFails(p) \/ NotifyLost(p) \/ NotifyBadHeader(p)
         \/ Confirm(p) \/ EditSave(p)
  PROVE  TypeInv'
<1> USE DEF TypeInv
<1>1. PICK status : Reply(p, status) /\ (status \in {"201", "500"} \/ pc[p] = "edit")
  BY DEF SaveFails, NotifyFails, NotifyLost, NotifyBadHeader, Confirm, EditSave
<1>2. ThreadsTyped' /\ VisitorsTyped' /\ Waiting'
  BY <1>1, ReplyTypes
<1>3. pc[p] \in {"notify", "confirm"} => LetterOf(mem[p]) \in Letter
  BY LetterTypes DEF ThreadsTyped, Fits
<1>4. pc[p] = "edit" => mem[p] \in Message
  BY DEF ThreadsTyped, Fits
<1>5. CASE EditSave(p)
  <2>1. StoreTyped'
    BY <1>4, <1>5 DEF EditSave, StoreTyped, mailed
  <2>2. BoundsTyped'
    BY <1>5, CountTypes DEF EditSave
  <2> QED
    BY <1>2, <2>1, <2>2
<1>6. CASE Confirm(p)
  <2>1. StoreTyped'
    BY <1>3, <1>6 DEF Confirm, StoreTyped, stored
  <2>2. BoundsTyped'
    BY <1>6, CountTypes DEF Confirm
  <2> QED
    BY <1>2, <2>1, <2>2
<1>7. CASE NotifyLost(p)
  <2>1. StoreTyped'
    BY <1>3, <1>7 DEF NotifyLost, StoreTyped, stored
  <2>2. BoundsTyped'
    BY <1>7, CountTypes DEF NotifyLost, Fault
  <2> QED
    BY <1>2, <2>1, <2>2
<1>8. CASE SaveFails(p) \/ NotifyFails(p) \/ NotifyBadHeader(p)
  <2>1. StoreTyped'
    BY <1>8 DEF SaveFails, NotifyFails, NotifyBadHeader, StoreTyped, stored, mailed
  <2>2. BoundsTyped'
    BY <1>8, CountTypes DEF SaveFails, NotifyFails, NotifyBadHeader, Fault
  <2> QED
    BY <1>2, <2>1, <2>2
<1> QED
  BY <1>5, <1>6, <1>7, <1>8

(* The threads that die with a worker.                                     *)
Dead(w) == {p \in Procs : WorkerOf[p] = w}

(* A worker dies with all its threads.                                     *)
LEMMA CrashTypes ==
  ASSUME TypeInv, NEW w \in Workers, Crash(w)
  PROVE  TypeInv'
<1> USE DEF TypeInv
<1> DEFINE dead == Dead(w)
<1>1. /\ pc' = [p \in Procs |-> IF p \in dead THEN "idle" ELSE pc[p]]
      /\ mem' = [p \in Procs |-> IF p \in dead THEN Nothing ELSE mem[p]]
      /\ answer' = [i \in Intents |-> IF waits[i] \in dead THEN "500" ELSE answer[i]]
      /\ waits' = [i \in Intents |-> IF waits[i] \in dead THEN Nobody ELSE waits[i]]
      /\ UNCHANGED <<stored, mailed, tries>> /\ Fault("crash")
  BY DEF Crash, Dead
<1>2. dead \subseteq Procs
  BY DEF Dead
<1> HIDE DEF dead
<1>3. StoreTyped'
  BY <1>1 DEF StoreTyped, stored, mailed
<1>4. BoundsTyped'
  BY <1>1, CountTypes DEF Fault
<1>5. ThreadsTyped'
  BY <1>1, <1>2 DEF ThreadsTyped, Fits, Label, AnyMemory
<1>6. VisitorsTyped'
  BY <1>1 DEF VisitorsTyped
<1>7. Waiting'
  BY <1>1, NobodyAssumption DEF Waiting, VisitorsTyped
<1> QED
  BY <1>3, <1>4, <1>5, <1>6, <1>7

(* A visitor gives up, or the admin begins to edit, or deletes.            *)
LEMMA OtherTypes ==
  ASSUME TypeInv, (\E i \in Intents : GiveUp(i)) \/ (\E p \in Procs : EditBegin(p)) \/ AdminDelete
  PROVE  TypeInv'
<1> USE DEF TypeInv
<1>1. ASSUME NEW i \in Intents, GiveUp(i) PROVE TypeInv'
  <2>1. StoreTyped' /\ ThreadsTyped'
    BY <1>1 DEF GiveUp, stored, mailed, StoreTyped, ThreadsTyped
  <2>2. VisitorsTyped' /\ Waiting'
    BY <1>1, NobodyAssumption DEF GiveUp, VisitorsTyped, Waiting
  <2>3. BoundsTyped'
    BY <1>1, CountTypes DEF GiveUp, Fault
  <2> QED
    BY <2>1, <2>2, <2>3
<1>2. ASSUME NEW p \in Procs, EditBegin(p) PROVE TypeInv'
  <2>1. PICK m \in messages, s \in Statuses : mem' = [mem EXCEPT ![p] = [m EXCEPT !.status = s]]
    BY <1>2 DEF EditBegin
  <2> DEFINE n == [m EXCEPT !.status = s]
  <2>2. n \in Message
    BY DEF StoreTyped, Message
  <2> HIDE DEF n
  <2>3. n \in AnyMemory /\ Fits("edit", n) /\ "edit" \in Label
    BY <2>2 DEF AnyMemory, Fits, Label
  <2>4. mem' = [mem EXCEPT ![p] = n]
    BY <2>1 DEF n
  <2>5. ThreadsTyped'
    BY <1>2, <2>3, <2>4, MoveTypes DEF EditBegin, Step
  <2>6. StoreTyped' /\ VisitorsTyped'
    BY <1>2 DEF EditBegin, stored, mailed, client, StoreTyped, VisitorsTyped
  <2>7. Waiting'
    BY <1>2, <2>4 DEF EditBegin, Step, client, Waiting, ThreadsTyped
  <2>8. BoundsTyped'
    BY <1>2, CountTypes DEF EditBegin
  <2> QED
    BY <2>5, <2>6, <2>7, <2>8
<1>3. CASE AdminDelete
  <2>1. PICK m \in messages : messages' = messages \ {m} /\ removed' = removed \cup {LetterOf(m)}
    BY <1>3 DEF AdminDelete
  <2>2. StoreTyped'
    BY <1>3, <2>1, LetterTypes DEF AdminDelete, StoreTyped, mailed
  <2>3. ThreadsTyped' /\ VisitorsTyped' /\ Waiting'
    BY <1>3 DEF AdminDelete, client, ThreadsTyped, VisitorsTyped, Waiting
  <2>4. BoundsTyped'
    BY <1>3, CountTypes DEF AdminDelete
  <2> QED
    BY <2>2, <2>3, <2>4
<1> QED
  BY <1>1, <1>2, <1>3

(* Every step keeps the types.                                             *)
LEMMA NextTypes == TypeInv /\ [Next]_vars => TypeInv'
<1> SUFFICES ASSUME TypeInv, [Next]_vars PROVE TypeInv'
  OBVIOUS
<1>1. CASE UNCHANGED vars
  BY <1>1 DEF vars, TypeInv, StoreTyped, ThreadsTyped, VisitorsTyped, BoundsTyped, Waiting
<1> QED
  BY <1>1, SubmitTypes, GoOnTypes, EndTypes, CrashTypes, OtherTypes DEF Next, Handle

(* The invariant of the types always holds.                                *)
THEOREM TypesAlways == Spec => []TypeInv
  BY InitTypes, NextTypes, PTL DEF Spec

(* The state always has the types TypeOK gives it.                         *)
THEOREM TypeCorrect == Spec => []TypeOK
  BY TypesAlways, TypeInvTypes, PTL
-----------------------------------------------------------------------------
(* What Postbox sees.  A primary key names one letter for ever, although   *)
(* an admin may bring a deleted one back; the admins have not been told of *)
(* a letter a thread is about to mail, and no two threads mail the same.   *)

Letters == {LetterOf(m) : m \in messages}
Unsent == {LetterOf(mem[p]) : p \in {q \in Procs : pc[q] = "notify"}}
Thanked == {i \in Intents : answer[i] = "201"}
Known == Letters \cup removed

Genuine ==
    /\ \A l \in Known \cup adminMails : l.id < nextId
    /\ \A k, l \in Known : k.id = l.id => k = l
    /\ \A m, n \in messages : m.id = n.id => m = n

Hand(label, m, known, mails, next) ==
    /\ label = "notify" => m.id < next /\ LetterOf(m) \notin mails
    /\ label = "confirm" => LetterOf(m) \in mails
    /\ label = "edit" => LetterOf(m) \in known
AllHands == \A p \in Procs : Hand(pc[p], mem[p], Known, adminMails, nextId)
Apart ==
    \A p, q \in Procs : p # q /\ pc[p] = "notify" /\ pc[q] = "notify" => mem[p].id # mem[q].id

PostInv == TypeInv /\ Genuine /\ AllHands /\ Apart

(* The memory of a thread that knows its message.                          *)
LEMMA InHand ==
  ASSUME TypeInv, NEW p \in Procs, pc[p] \in {"notify", "confirm", "edit"}
  PROVE  /\ mem[p] \in Message /\ LetterOf(mem[p]) \in Letter
         /\ LetterOf(mem[p]).id = mem[p].id /\ LetterOf(mem[p]).intent = mem[p].intent
<1>1. mem[p] \in Message
  BY DEF TypeInv, ThreadsTyped, Fits
<1> QED
  BY <1>1, LetterTypes

(* Whatever a thread does, the other threads' letters are theirs, as long  *)
(* as letters stay known and it mails none but its own.                    *)
LEMMA OthersHands ==
  ASSUME PostInv, NEW p \in Procs,
         \A q \in Procs \ {p} : pc'[q] = pc[q] /\ mem'[q] = mem[q],
         nextId' \in Nat, nextId <= nextId', Known \subseteq Known', adminMails \subseteq adminMails',
         \A l \in adminMails' \ adminMails : pc[p] = "notify" /\ l = LetterOf(mem[p]),
         Hand(pc'[p], mem'[p], Known', adminMails', nextId'),
         pc'[p] = "notify" => \A q \in Procs \ {p} : pc[q] = "notify" => mem[q].id # mem'[p].id
  PROVE  AllHands' /\ Apart'
<1>1. Apart'
  <2> SUFFICES ASSUME NEW q \in Procs, NEW r \in Procs, q # r, pc'[q] = "notify", pc'[r] = "notify"
               PROVE  mem'[q].id # mem'[r].id
    BY DEF Apart
  <2>1. CASE q = p
    BY <2>1
  <2>2. CASE r = p
    BY <2>2
  <2>3. CASE q # p /\ r # p
    BY <2>3 DEF PostInv, Apart
  <2> QED
    BY <2>1, <2>2, <2>3
<1>2. ASSUME NEW q \in Procs \ {p} PROVE Hand(pc[q], mem[q], Known', adminMails', nextId')
  <2>1. Hand(pc[q], mem[q], Known, adminMails, nextId)
    BY DEF PostInv, AllHands
  <2>2. CASE pc[q] = "notify"
    <3>1. mem[q].id < nextId /\ LetterOf(mem[q]) \notin adminMails
      BY <2>1, <2>2 DEF Hand
    <3>2. mem[q].id \in Nat /\ nextId \in Nat
      BY <2>2, InHand DEF PostInv, TypeInv, StoreTyped, Message
    <3>3. pc[p] = "notify" => LetterOf(mem[q]) # LetterOf(mem[p])
      BY <2>2, InHand DEF PostInv, Apart
    <3> QED
      BY <2>2, <3>1, <3>2, <3>3 DEF Hand
  <2>3. CASE pc[q] # "notify"
    BY <2>1, <2>3 DEF Hand
  <2> QED
    BY <2>2, <2>3
<1> QED
  BY <1>1, <1>2 DEF AllHands

(* The letters stay as they are.                                           *)
LEMMA GenuineStays ==
  ASSUME PostInv, UNCHANGED <<messages, removed, nextId>>,
         \A l \in adminMails' \ adminMails : \E p \in Procs : pc[p] = "notify" /\ l = LetterOf(mem[p])
  PROVE  Genuine' /\ Known' = Known
<1>1. Known' = Known
  BY DEF Known, Letters
<1>2. ASSUME NEW p \in Procs, pc[p] = "notify" PROVE LetterOf(mem[p]).id < nextId
  BY <1>2, InHand DEF PostInv, AllHands, Hand
<1>3. \A l \in adminMails' : l.id < nextId
  BY <1>2 DEF PostInv, Genuine
<1>4. \A l \in Known : l.id < nextId
  BY DEF PostInv, Genuine
<1>5. /\ \A k, l \in Known : k.id = l.id => k = l
      /\ \A m, n \in messages : m.id = n.id => m = n
  BY DEF PostInv, Genuine
<1> QED
  BY <1>1, <1>3, <1>4, <1>5 DEF Genuine

(* A handler that ends has no letter any more.                             *)
LEMMA EndPost ==
  ASSUME PostInv, NEW p \in Procs, NEW status, Reply(p, status),
         nextId' = nextId, Genuine', Known \subseteq Known', adminMails \subseteq adminMails',
         \A l \in adminMails' \ adminMails : pc[p] = "notify" /\ l = LetterOf(mem[p])
  PROVE  AllHands' /\ Apart'
<1>1. \A q \in Procs \ {p} : pc'[q] = pc[q] /\ mem'[q] = mem[q]
  BY DEF Reply, PostInv, TypeInv, ThreadsTyped
<1>2. pc'[p] = "idle"
  BY DEF Reply, PostInv, TypeInv, ThreadsTyped
<1>3. Hand(pc'[p], mem'[p], Known', adminMails', nextId')
  BY <1>2 DEF Hand
<1>4. nextId \in Nat
  BY DEF PostInv, TypeInv, StoreTyped
<1> QED
  BY <1>1, <1>2, <1>3, <1>4, OthersHands
(* A letter is unsent no longer when the thread that has it moves on.      *)
LEMMA UnsentLess ==
  ASSUME PostInv, NEW p \in Procs, pc'[p] # "notify",
         \A q \in Procs \ {p} : pc'[q] = pc[q] /\ mem'[q] = mem[q]
  PROVE  Unsent' = IF pc[p] = "notify" THEN Unsent \ {LetterOf(mem[p])} ELSE Unsent
<1> DEFINE others == {LetterOf(mem[q]) : q \in {r \in Procs \ {p} : pc[r] = "notify"}}
<1>1. Unsent' = others
  BY DEF Unsent
<1>2. Unsent = IF pc[p] = "notify" THEN others \cup {LetterOf(mem[p])} ELSE others
  BY DEF Unsent
<1>3. pc[p] = "notify" => LetterOf(mem[p]) \notin others
  BY InHand DEF PostInv, Apart
<1> QED
  BY <1>1, <1>2, <1>3

(* Only a 201 thanks somebody, and only the sender of the message.         *)
LEMMA ThankedMore ==
  ASSUME TypeInv, NEW p \in Procs, NEW status, Reply(p, status)
  PROVE  /\ status # "201" => Thanked' = Thanked
         /\ Thanked' \in {Thanked, Thanked \cup {mem[p].intent}}
<1>1. \A i \in Intents : answer'[i] = IF waits[i] = p THEN status ELSE answer[i]
  BY DEF Reply
<1>2. \A i \in Intents : waits[i] = p => answer[i] = "none" /\ mem[p].intent = i
  BY DEF TypeInv, Waiting
<1>3. status # "201" => Thanked' = Thanked
  BY <1>1, <1>2 DEF Thanked
<1>4. Thanked \subseteq Thanked' /\ Thanked' \subseteq Thanked \cup {mem[p].intent}
  BY <1>1, <1>2 DEF Thanked
<1>5. Thanked' \in {Thanked, Thanked \cup {mem[p].intent}}
  <2>1. CASE mem[p].intent \in Thanked'
    BY <1>4, <2>1
  <2>2. CASE mem[p].intent \notin Thanked'
    BY <1>4, <2>2
  <2> QED
    BY <2>1, <2>2
<1> QED
  BY <1>3, <1>5

-----------------------------------------------------------------------------
(* Every step keeps PostInv and is one of Postbox, or none.                *)

Holds == Genuine' /\ AllHands' /\ Apart'
Stutters == UNCHANGED <<Letters, removed, Unsent, adminMails, confirmations, Thanked>>

(* A thread that leaves the handler, after it has told nobody, gives up    *)
(* its letter if it had one to send.                                       *)
LEMMA GivesUp ==
  ASSUME PostInv, NEW p \in Procs, Reply(p, "500"), UNCHANGED <<stored, mailed>>
  PROVE  Holds /\ (Promise!Next \/ Stutters)
<1>1. Genuine' /\ Known' = Known
  BY GenuineStays DEF stored, mailed
<1>2. Holds
  BY <1>1, EndPost DEF Holds, stored, mailed
<1>3. pc'[p] # "notify" /\ \A q \in Procs \ {p} : pc'[q] = pc[q] /\ mem'[q] = mem[q]
  BY DEF Reply, PostInv, TypeInv, ThreadsTyped
<1>4. Unsent' = IF pc[p] = "notify" THEN Unsent \ {LetterOf(mem[p])} ELSE Unsent
  BY <1>3, UnsentLess
<1>5. UNCHANGED <<Letters, removed, adminMails, confirmations, Thanked>>
  BY ThankedMore DEF Letters, stored, mailed, PostInv
<1>6. CASE pc[p] = "notify"
  <2>1. PICK l \in Unsent : l = LetterOf(mem[p])
    BY <1>6 DEF Unsent
  <2>2. Promise!GiveUp({l})
    BY <1>4, <1>5, <1>6, <2>1 DEF Promise!GiveUp, Letters, Unsent, Thanked
  <2> QED
    BY <1>2, <2>1, <2>2 DEF Promise!Next, Unsent
<1>7. CASE pc[p] # "notify"
  BY <1>2, <1>4, <1>5, <1>7 DEF Stutters
<1> QED
  BY <1>6, <1>7

(* A worker that dies gives up the letters all its threads had to send.    *)
LEMMA CrashGivesUp ==
  ASSUME PostInv, NEW w \in Workers, Crash(w)
  PROVE  Holds /\ Promise!Next
<1> USE DEF PostInv
<1> DEFINE dead == Dead(w)
<1>1. /\ \A p \in Procs : pc'[p] = IF p \in dead THEN "idle" ELSE pc[p]
      /\ \A p \in Procs \ dead : mem'[p] = mem[p]
      /\ \A i \in Intents : answer'[i] = IF waits[i] \in dead THEN "500" ELSE answer[i]
      /\ UNCHANGED <<messages, nextId, removed, adminMails, confirmations>>
  BY DEF Crash, Dead, stored, mailed
<1>2. dead \subseteq Procs
  BY DEF Dead
<1> HIDE DEF dead
<1>3. Genuine' /\ Known' = Known
  BY <1>1, GenuineStays
<1>4. AllHands'
  <2> SUFFICES ASSUME NEW p \in Procs PROVE Hand(pc'[p], mem'[p], Known, adminMails, nextId)
    BY <1>1, <1>3 DEF AllHands
  <2>1. CASE p \in dead
    BY <1>1, <2>1 DEF Hand
  <2>2. CASE p \notin dead
    BY <1>1, <2>2 DEF AllHands
  <2> QED
    BY <2>1, <2>2
<1>5. Apart'
  BY <1>1 DEF Apart
<1>6. Thanked' = Thanked
  BY <1>1, <1>2 DEF Thanked, TypeInv, Waiting
<1>7. PICK some \in SUBSET Unsent : some = {LetterOf(mem[p]) : p \in {q \in dead : pc[q] = "notify"}}
  BY <1>2 DEF Unsent
<1>8. Unsent' = {LetterOf(mem[p]) : p \in {q \in Procs \ dead : pc[q] = "notify"}}
  BY <1>1 DEF Unsent
<1>9. ASSUME NEW p \in dead, NEW q \in Procs \ dead, pc[p] = "notify", pc[q] = "notify"
      PROVE  LetterOf(mem[p]) # LetterOf(mem[q])
  BY <1>2, <1>9, InHand DEF Apart
<1>10. Unsent' = Unsent \ some
  BY <1>2, <1>7, <1>8, <1>9 DEF Unsent
<1>11. Promise!GiveUp(some)
  BY <1>1, <1>6, <1>10 DEF Promise!GiveUp, Letters, Unsent, Thanked
<1> QED
  BY <1>3, <1>4, <1>5, <1>7, <1>11 DEF Holds, Promise!Next, Unsent

(* The mail to the admins tells them of a letter that is unsent.           *)
LEMMA Tells ==
  ASSUME PostInv, NEW p \in Procs, Notify(p) \/ NotifyLost(p)
  PROVE  Holds /\ Promise!Next
<1>0. PICK l : l = LetterOf(mem[p])
  OBVIOUS
<1>1. pc[p] = "notify" /\ adminMails' = adminMails \cup {l} /\ UNCHANGED <<stored, confirmations>>
  BY <1>0 DEF Notify, NotifyLost, Step
<1>2. /\ pc'[p] # "notify" /\ \A q \in Procs \ {p} : pc'[q] = pc[q] /\ mem'[q] = mem[q]
  BY DEF Notify, NotifyLost, Step, Reply, PostInv, TypeInv, ThreadsTyped
<1>3. Genuine' /\ Known' = Known
  BY <1>0, <1>1, GenuineStays DEF stored
<1>4. Holds
  <2>1. CASE Notify(p)
    <3>1. pc'[p] = "confirm" /\ mem'[p] = mem[p]
      BY <2>1 DEF Notify, Step, PostInv, TypeInv, ThreadsTyped
    <3>2. Hand(pc'[p], mem'[p], Known', adminMails', nextId')
      BY <1>0, <1>1, <3>1 DEF Hand
    <3>3. nextId' = nextId /\ nextId \in Nat
      BY <1>1 DEF stored, PostInv, TypeInv, StoreTyped
    <3>4. \A k \in adminMails' \ adminMails : pc[p] = "notify" /\ k = LetterOf(mem[p])
      BY <1>0, <1>1
    <3>5. nextId <= nextId' /\ Known \subseteq Known' /\ adminMails \subseteq adminMails'
      BY <1>1, <1>3, <3>3
    <3>6. AllHands' /\ Apart'
      BY <1>2, <3>2, <3>3, <3>4, <3>5, OthersHands
    <3> QED
      BY <1>3, <3>6 DEF Holds
  <2>2. CASE NotifyLost(p)
    BY <1>0, <1>1, <1>3, <2>2, EndPost DEF NotifyLost, Holds, stored
  <2> QED
    BY <2>1, <2>2
<1>5. Unsent' = Unsent \ {l} /\ l \in Unsent
  BY <1>0, <1>1, <1>2, UnsentLess DEF Unsent
<1>6. l \notin adminMails
  BY <1>0, <1>1 DEF PostInv, AllHands, Hand
<1>7. UNCHANGED <<Letters, removed, confirmations, Thanked>>
  BY <1>1, ThankedMore DEF Notify, NotifyLost, client, Letters, Thanked, stored, PostInv
<1>8. Promise!Tell(l)
  BY <1>1, <1>5, <1>6, <1>7 DEF Promise!Tell, Letters, Unsent, Thanked
<1> QED
  BY <1>4, <1>5, <1>8 DEF Promise!Next, Unsent

(* The rest of the handler thanks a sender of whose letter the admins know.*)
LEMMA Finishes ==
  ASSUME PostInv, NEW p \in Procs, Confirm(p)
  PROVE  Holds /\ Promise!Next
<1>0. PICK l : l = LetterOf(mem[p])
  OBVIOUS
<1>1. /\ pc[p] = "confirm" /\ Reply(p, "201") /\ UNCHANGED <<stored, adminMails>>
      /\ confirmations' \in {confirmations, confirmations \cup {l}}
  BY <1>0 DEF Confirm
<1>2. Genuine' /\ Known' = Known
  BY <1>1, GenuineStays DEF stored
<1>3. Holds
  BY <1>1, <1>2, EndPost DEF Holds, stored
<1>4. pc'[p] # "notify" /\ \A q \in Procs \ {p} : pc'[q] = pc[q] /\ mem'[q] = mem[q]
  BY <1>1 DEF Reply, PostInv, TypeInv, ThreadsTyped
<1>5. UNCHANGED <<Letters, removed, Unsent, adminMails>>
  BY <1>1, <1>4, UnsentLess DEF Letters, stored
<1>6. l \in adminMails /\ l.intent = mem[p].intent
  BY <1>0, <1>1, InHand DEF PostInv, AllHands, Hand
<1>7. Thanked' \in {Thanked, Thanked \cup {l.intent}}
  BY <1>1, <1>6, ThankedMore DEF PostInv
<1>8. Promise!Finish(l)
  BY <1>1, <1>5, <1>6, <1>7 DEF Promise!Finish, Letters, Unsent, Thanked
<1> QED
  BY <1>3, <1>6, <1>8 DEF Promise!Next
(* The INSERT stores a letter that is new.                                 *)
LEMMA Stores ==
  ASSUME PostInv, NEW p \in Procs, Save(p)
  PROVE  Holds /\ Promise!Next
<1> USE DEF PostInv
<1>1. /\ pc[p] = "save" /\ mem' = [mem EXCEPT ![p] = [mem[p] EXCEPT !.id = nextId]]
      /\ pc' = [pc EXCEPT ![p] = "notify"] /\ messages' = messages \cup {[mem[p] EXCEPT !.id = nextId]}
      /\ nextId' = nextId + 1 /\ UNCHANGED <<removed, mailed, client, bounds>>
  BY DEF Save, Insert, Step
<1>2. PICK m \in Message : m = [mem[p] EXCEPT !.id = nextId] /\ m.id = nextId
  BY <1>1, DraftSaved
<1>3. PICK l \in Letter : l = LetterOf(m) /\ l.id = nextId
  BY <1>2, LetterTypes
<1>4. nextId \in Nat /\ nextId' \in Nat /\ nextId <= nextId' /\ nextId < nextId'
  BY <1>1 DEF TypeInv, StoreTyped
<1>5. /\ pc'[p] = "notify" /\ mem'[p] = m
      /\ \A q \in Procs \ {p} : pc'[q] = pc[q] /\ mem'[q] = mem[q]
  BY <1>1, <1>2 DEF TypeInv, ThreadsTyped
<1>6. Letters' = Letters \cup {l} /\ Known' = Known \cup {l} /\ messages' = messages \cup {m}
  BY <1>1, <1>2, <1>3 DEF Letters, Known
<1>7. UNCHANGED <<removed, adminMails, confirmations, answer>>
  BY <1>1 DEF mailed, client
<1>8. \A k \in Known \cup adminMails : k.id \in Nat /\ k.id < nextId
  BY LetterTypes DEF Genuine, Known, Letters, TypeInv, StoreTyped, Letter
<1>9. \A n \in messages : n.id < nextId /\ n.id \in Nat
  <2> SUFFICES ASSUME NEW n \in messages PROVE n.id < nextId /\ n.id \in Nat
    OBVIOUS
  <2>1. LetterOf(n) \in Known /\ LetterOf(n).id = n.id
    BY LetterTypes DEF Known, Letters, TypeInv, StoreTyped
  <2> QED
    BY <1>8, <2>1
<1>10. Genuine'
  <2>1. \A k \in Known' \cup adminMails' : k.id < nextId'
    BY <1>3, <1>4, <1>6, <1>7, <1>8
  <2>2. \A j, k \in Known' : j.id = k.id => j = k
    BY <1>3, <1>4, <1>6, <1>8 DEF Genuine
  <2>3. \A n, o \in messages' : n.id = o.id => n = o
    <3>1. \A n, o \in messages : n.id = o.id => n = o
      BY DEF Genuine
    <3>2. \A n \in messages : n.id # m.id
      BY <1>2, <1>4, <1>9
    <3> QED
      BY <1>6, <3>1, <3>2
  <2> QED
    BY <2>1, <2>2, <2>3 DEF Genuine
<1>11. AllHands' /\ Apart'
  <2>1. Hand(pc'[p], mem'[p], Known', adminMails', nextId')
    BY <1>2, <1>3, <1>4, <1>5, <1>7, <1>8 DEF Hand
  <2>2. \A q \in Procs \ {p} : pc[q] = "notify" => mem[q].id # m.id
    <3> SUFFICES ASSUME NEW q \in Procs \ {p}, pc[q] = "notify" PROVE mem[q].id # m.id
      OBVIOUS
    <3>1. mem[q].id < nextId /\ mem[q] \in Message
      BY InHand DEF AllHands, Hand
    <3> QED
      BY <1>2, <1>4, <3>1 DEF Message
  <2> QED
    BY <1>4, <1>5, <1>6, <1>7, <2>1, <2>2, OthersHands
<1>12. Unsent' = Unsent \cup {l}
  <2>1. {q \in Procs : pc'[q] = "notify"} = {q \in Procs : pc[q] = "notify"} \cup {p}
    BY <1>1, <1>5
  <2>2. \A q \in Procs : pc[q] = "notify" => mem'[q] = mem[q]
    BY <1>1, <1>5
  <2> QED
    BY <1>3, <1>5, <2>1, <2>2 DEF Unsent
<1>13. l \in Promise!Letter
  BY <1>3, IntentsAssumption DEF Letter, Promise!Letter
<1>14. \A k \in Letters \cup removed : k.id # l.id
  BY <1>3, <1>4, <1>8 DEF Known
<1>15. Promise!Store(l)
  BY <1>6, <1>7, <1>12, <1>14 DEF Promise!Store, Letters, Unsent, Thanked
<1> QED
  BY <1>6, <1>10, <1>11, <1>13, <1>15 DEF Holds, Promise!Next, Letters

(* An admin who saves brings the letter back if it was deleted meanwhile.  *)
LEMMA Edits ==
  ASSUME PostInv, NEW p \in Procs, EditSave(p)
  PROVE  Holds /\ (Promise!Next \/ Stutters)
<1> USE DEF PostInv
<1>1. /\ pc[p] = "edit" /\ Reply(p, "302") /\ UNCHANGED <<nextId, removed, mailed>>
      /\ messages' = {n \in messages : n.id # mem[p].id} \cup {mem[p]}
  BY DEF EditSave
<1>2. PICK m \in Message : m = mem[p]
  BY <1>1, InHand
<1>3. PICK l \in Known : l = LetterOf(m) /\ l.id = m.id
  BY <1>1, <1>2, InHand DEF AllHands, Hand
<1>4. ASSUME NEW n \in messages PROVE LetterOf(n) \in Known /\ LetterOf(n).id = n.id
  BY LetterTypes DEF Known, Letters, TypeInv, StoreTyped
<1>5. ASSUME NEW n \in messages, n.id = m.id PROVE LetterOf(n) = l
  BY <1>3, <1>4, <1>5 DEF Genuine
<1>6. Letters' = Letters \cup {l} /\ Known' = Known
  <2>1. Letters' = Letters \cup {l}
    BY <1>1, <1>2, <1>3, <1>5 DEF Letters
  <2> QED
    BY <1>1, <1>3, <2>1 DEF Known
<1>7. Genuine'
  <2>1. \A n, o \in messages' : n.id = o.id => n = o
    BY <1>1 DEF Genuine
  <2> QED
    BY <1>1, <1>6, <2>1 DEF Genuine, mailed
<1>8. Holds
  BY <1>1, <1>6, <1>7, EndPost DEF Holds, mailed
<1>9. pc'[p] # "notify" /\ \A q \in Procs \ {p} : pc'[q] = pc[q] /\ mem'[q] = mem[q]
  BY <1>1 DEF Reply, TypeInv, ThreadsTyped
<1>10. UNCHANGED <<removed, Unsent, adminMails, confirmations, Thanked>>
  BY <1>1, <1>9, UnsentLess, ThankedMore DEF mailed
<1>11. CASE l \in Letters
  BY <1>6, <1>8, <1>10, <1>11 DEF Stutters
<1>12. CASE l \in removed
  <2>1. Promise!Restore(l)
    BY <1>6, <1>10, <1>12 DEF Promise!Restore, Letters, Unsent, Thanked
  <2> QED
    BY <1>8, <1>12, <2>1 DEF Promise!Next
<1> QED
  BY <1>3, <1>11, <1>12 DEF Known

(* An admin removes a letter that is there.                                *)
LEMMA Removes ==
  ASSUME PostInv, AdminDelete
  PROVE  Holds /\ Promise!Next
<1> USE DEF PostInv
<1>1. PICK m \in messages : messages' = messages \ {m} /\ removed' = removed \cup {LetterOf(m)}
  BY DEF AdminDelete
<1>2. PICK l \in Letters : l = LetterOf(m)
  BY DEF Letters
<1>3. UNCHANGED <<nextId, adminMails, confirmations, pc, mem, answer>>
  BY DEF AdminDelete, mailed, client
<1>4. ASSUME NEW n \in messages \ {m} PROVE LetterOf(n) # l
  <2>1. n.id # m.id
    BY DEF Genuine
  <2> QED
    BY <1>2, <2>1, LetterTypes DEF TypeInv, StoreTyped
<1>5. Letters' = Letters \ {l}
  BY <1>1, <1>2, <1>4 DEF Letters
<1>6. Known' = Known
  BY <1>1, <1>2, <1>5 DEF Known
<1>7. Genuine'
  BY <1>1, <1>3, <1>6 DEF Genuine
<1>8. AllHands' /\ Apart'
  BY <1>3, <1>6 DEF AllHands, Apart
<1>9. Promise!Remove(l)
  BY <1>1, <1>2, <1>3, <1>5 DEF Promise!Remove, Letters, Unsent, Thanked
<1> QED
  BY <1>2, <1>7, <1>8, <1>9 DEF Holds, Promise!Next, Letters

(* Forms that arrive, visitors who give up and forms the admin opens are   *)
(* nothing to Postbox.                                                     *)
LEMMA Unseen ==
  ASSUME PostInv,
         \/ \E i \in Intents : SubmitInvalid(i) \/ GiveUp(i) \/ \E p \in Procs : Submit(p, i)
         \/ \E p \in Procs : EditBegin(p)
  PROVE  Holds /\ Stutters
<1> USE DEF PostInv
<1>1. UNCHANGED <<stored, mailed>>
  BY DEF SubmitInvalid, GiveUp, Submit, SubmitUnchecked, EditBegin
<1>2. UNCHANGED <<messages, nextId, removed, adminMails, confirmations>>
  BY <1>1 DEF stored, mailed
<1>3. Genuine' /\ Known' = Known
  BY <1>2, GenuineStays
<1>4. nextId' \in Nat /\ nextId <= nextId'
  BY <1>2 DEF TypeInv, StoreTyped
<1>5. Thanked' = Thanked
  BY DEF SubmitInvalid, GiveUp, Submit, SubmitUnchecked, Sends, EditBegin, client, Thanked,
         TypeInv, VisitorsTyped
<1>6. ASSUME NEW p \in Procs, pc[p] # "notify", pc'[p] # "notify",
             \A q \in Procs \ {p} : pc'[q] = pc[q] /\ mem'[q] = mem[q],
             Hand(pc'[p], mem'[p], Known, adminMails, nextId)
      PROVE  Holds /\ Stutters
  <2>1. AllHands' /\ Apart'
    BY <1>2, <1>3, <1>4, <1>6, OthersHands
  <2>2. Unsent' = Unsent
    BY <1>6, UnsentLess
  <2> QED
    BY <1>2, <1>3, <1>5, <2>1, <2>2 DEF Holds, Stutters, Letters
<1>7. ASSUME NEW i \in Intents, SubmitInvalid(i) \/ GiveUp(i) PROVE Holds /\ Stutters
  <2>1. UNCHANGED <<pc, mem>>
    BY <1>7 DEF SubmitInvalid, GiveUp
  <2>2. AllHands' /\ Apart'
    BY <1>2, <1>3, <2>1 DEF AllHands, Apart
  <2> QED
    BY <1>2, <1>3, <1>5, <2>1, <2>2 DEF Holds, Stutters, Letters, Unsent
<1>8. ASSUME NEW p \in Procs, NEW i \in Intents, Submit(p, i) PROVE Holds /\ Stutters
  <2>1. /\ pc[p] = "idle" /\ pc'[p] = "save"
        /\ \A q \in Procs \ {p} : pc'[q] = pc[q] /\ mem'[q] = mem[q]
    BY <1>8 DEF Submit, SubmitUnchecked, Step, TypeInv, ThreadsTyped
  <2> QED
    BY <1>6, <2>1 DEF Hand
<1>9. ASSUME NEW p \in Procs, EditBegin(p) PROVE Holds /\ Stutters
  <2>1. PICK m \in messages, s \in Statuses : mem' = [mem EXCEPT ![p] = [m EXCEPT !.status = s]]
    BY <1>9 DEF EditBegin
  <2>2. PICK n : n = [m EXCEPT !.status = s]
    OBVIOUS
  <2>3. LetterOf(n) = LetterOf(m)
    BY <2>2 DEF LetterOf, TypeInv, StoreTyped, Message
  <2>4. /\ pc[p] = "idle" /\ pc'[p] = "edit" /\ mem'[p] = n
        /\ \A q \in Procs \ {p} : pc'[q] = pc[q] /\ mem'[q] = mem[q]
    BY <1>9, <2>1, <2>2 DEF EditBegin, Step, TypeInv, ThreadsTyped
  <2>5. LetterOf(n) \in Known
    BY <2>3 DEF Known, Letters
  <2> QED
    BY <1>6, <2>4, <2>5 DEF Hand
<1> QED
  BY <1>7, <1>8, <1>9

-----------------------------------------------------------------------------
(* So every step of Contact.                                               *)
LEMMA NextPost ==
  PostInv /\ [Next]_vars => PostInv' /\ (Promise!Next \/ Stutters)
<1> SUFFICES ASSUME PostInv, [Next]_vars PROVE PostInv' /\ (Promise!Next \/ Stutters)
  OBVIOUS
<1>1. TypeInv'
  BY NextTypes DEF PostInv
<1>2. CASE UNCHANGED vars
  <2>1. Genuine' /\ AllHands' /\ Apart'
    BY <1>2 DEF vars, PostInv, Genuine, AllHands, Apart, Known, Letters
  <2>2. Stutters
    BY <1>2 DEF vars, Stutters, Letters, Unsent, Thanked
  <2> QED
    BY <1>1, <2>1, <2>2 DEF PostInv
<1>3. ASSUME NEW p \in Procs, SaveFails(p) \/ NotifyFails(p) \/ NotifyBadHeader(p)
      PROVE  Holds /\ (Promise!Next \/ Stutters)
  BY <1>3, GivesUp DEF SaveFails, NotifyFails, NotifyBadHeader
<1>4. CASE Next
  <2>1. Holds /\ (Promise!Next \/ Stutters)
    BY <1>3, <1>4, Stores, Tells, CrashGivesUp, Finishes, Edits, Removes, Unseen DEF Next, Handle
  <2> QED
    BY <1>1, <2>1 DEF Holds, PostInv
<1> QED
  BY <1>2, <1>4

(* The contact app implements Postbox: whatever fails and whoever crashes, *)
(* a visitor is answered 201 only if the message was stored and mailed to  *)
(* the admins, and no mail is about a message that never was.              *)
THEOREM PromiseKept == Spec => KeepsPromise
<1>1. Init => PostInv /\ Promise!Init
  <2> SUFFICES ASSUME Init PROVE PostInv /\ Promise!Init
    OBVIOUS
  <2>1. Letters = {} /\ Unsent = {} /\ Thanked = {} /\ Known = {}
    BY DEF Init, Letters, Unsent, Thanked, Known
  <2>2. Genuine /\ AllHands /\ Apart
    BY <2>1 DEF Init, Genuine, AllHands, Apart, Hand
  <2> QED
    BY <2>1, <2>2, InitTypes DEF PostInv, Init, Promise!Init, Letters, Unsent, Thanked
<1>2. PostInv /\ [Next]_vars => PostInv' /\ [Promise!Next]_(Promise!vars)
  BY NextPost DEF Stutters, Promise!vars, Letters, Unsent, Thanked
<1> QED
  BY <1>1, <1>2, PTL DEF Spec, KeepsPromise, Promise!Spec
=============================================================================
