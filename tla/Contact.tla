------------------------------ MODULE Contact ------------------------------
(***************************************************************************)
(* The contact app.  submit_contact_form stores a message, mails it to the *)
(* admins and confirms it to the sender, without a transaction around the  *)
(* three; a visitor who is not answered, or answered 500, sends the form   *)
(* again.  Superusers change the status of messages and delete them.       *)
(*                                                                         *)
(* AnonRateThrottle lets every request pass: no rate is configured.        *)
(***************************************************************************)
EXTENDS Naturals

CONSTANTS
    Procs,          \* threads serving requests
    Workers,        \* gunicorn's worker processes
    WorkerOf,       \* the worker each thread belongs to
    Intents,        \* what visitors want to send, sender and text
    Valid,          \* those the serializer accepts
    Unmailable,     \* those of a name with a line break in it: BadHeaderError
    Statuses,       \* Status.choices
    Nobody,         \* no thread
    Nothing,        \* no request
    FaultKinds,     \* what may fail
    MaxFaults,      \* bound on failures, crashes and visitors giving up
    MaxTries,       \* bound on the times a visitor sends one intent
    MaxEdits        \* bound on what the admins edit and delete

ASSUME IntentsAssumption == Unmailable \subseteq Valid /\ Valid \subseteq Intents
ASSUME WorkersAssumption == WorkerOf \in [Procs -> Workers]
ASSUME StatusAssumption == "new" \in Statuses
ASSUME NobodyAssumption == Nobody \notin Procs
ASSUME BoundsAssumption == {MaxFaults, MaxTries, MaxEdits} \subseteq Nat /\ MaxTries > MaxFaults

VARIABLES
    messages,   \* the table ContactMessage
    nextId,     \* the sequence its primary keys are drawn from
    removed,    \* observer: the letters deleted from it
    adminMails, \* the notifications ADMIN_EMAIL has received
    confirmations, \* the letters confirmed to their sender
    pc, mem,    \* where each thread is, and its local variables
    waits,      \* the thread each visitor waits for
    answer,     \* the status of the last answer a visitor got
    tries,      \* how often each intent was sent
    faults, edits \* counters for the bounds

stored == <<messages, nextId, removed>>
mailed == <<adminMails, confirmations>>
client == <<waits, answer, tries>>
bounds == <<faults, edits>>
vars == <<messages, nextId, removed, adminMails, confirmations, pc, mem, waits, answer, tries, faults, edits>>

Message == [id : Nat \ {0}, intent : Valid, status : Statuses]
Letter == [id : Nat \ {0}, intent : Valid]
LetterOf(m) == [id |-> m.id, intent |-> m.intent]

TypeOK ==
    /\ messages \subseteq Message /\ nextId \in Nat \ {0} /\ removed \subseteq Letter
    /\ adminMails \subseteq Letter /\ confirmations \subseteq Letter
    /\ pc \in [Procs -> {"idle", "save", "notify", "confirm", "edit"}]
    /\ \A p \in Procs : pc[p] \in {"notify", "confirm", "edit"} => mem[p] \in Message
    /\ \A p \in Procs : pc[p] = "save" => mem[p].intent \in Valid
    /\ waits \in [Intents -> Procs \cup {Nobody}]
    /\ answer \in [Intents -> {"none", "201", "400", "500"}]
    /\ tries \in [Intents -> 0..MaxTries] /\ faults \in 0..MaxFaults /\ edits \in 0..MaxEdits

Init ==
    /\ messages = {} /\ nextId = 1 /\ removed = {}
    /\ adminMails = {} /\ confirmations = {}
    /\ pc = [p \in Procs |-> "idle"] /\ mem = [p \in Procs |-> Nothing]
    /\ waits = [i \in Intents |-> Nobody] /\ answer = [i \in Intents |-> "none"]
    /\ tries = [i \in Intents |-> 0] /\ faults = 0 /\ edits = 0

-----------------------------------------------------------------------------
Fault(kind) == kind \in FaultKinds /\ faults < MaxFaults /\ faults' = faults + 1 /\ UNCHANGED edits
Edit == edits < MaxEdits /\ edits' = edits + 1 /\ UNCHANGED faults

Step(p, from, to) == pc[p] = from /\ pc' = [pc EXCEPT ![p] = to]

(* The handler returns: whoever still waits for it gets the answer.        *)
Reply(p, status) ==
    /\ pc' = [pc EXCEPT ![p] = "idle"] /\ mem' = [mem EXCEPT ![p] = Nothing]
    /\ answer' = [i \in Intents |-> IF waits[i] = p THEN status ELSE answer[i]]
    /\ waits' = [i \in Intents |-> IF waits[i] = p THEN Nobody ELSE waits[i]]
    /\ UNCHANGED tries

(* A visitor sends the form, for the first time or again.                  *)
Sends(i) ==
    /\ waits[i] = Nobody /\ answer[i] \in {"none", "500"}
    /\ tries[i] < MaxTries /\ tries' = [tries EXCEPT ![i] = @ + 1]

-----------------------------------------------------------------------------
(* submit_contact_form.                                                    *)

(* SubmitUnchecked is the slip of saving without is_valid().               *)
SubmitUnchecked(p, i) ==
    /\ Sends(i) /\ Step(p, "idle", "save")
    /\ mem' = [mem EXCEPT ![p] = [id |-> 0, intent |-> i, status |-> "new"]]
    /\ waits' = [waits EXCEPT ![i] = p] /\ answer' = [answer EXCEPT ![i] = "none"]
    /\ UNCHANGED <<stored, mailed, bounds>>
Submit(p, i) == SubmitUnchecked(p, i) /\ i \in Valid
SubmitInvalid(i) ==
    /\ Sends(i) /\ i \notin Valid /\ \E p \in Procs : pc[p] = "idle"
    /\ answer' = [answer EXCEPT ![i] = "400"]
    /\ UNCHANGED <<stored, mailed, pc, mem, waits, bounds>>

(* serializer.save(): committed at once.  SaveUnique is the slip of        *)
(* refusing a text that is stored already.                                 *)
Insert(p) ==
    /\ Step(p, "save", "notify")
    /\ mem' = [mem EXCEPT ![p].id = nextId]
    /\ messages' = messages \cup {[mem[p] EXCEPT !.id = nextId]} /\ nextId' = nextId + 1
    /\ UNCHANGED <<removed, mailed, client, bounds>>
SaveUnique(p) ==
    \/ Insert(p) /\ \A m \in messages : m.intent # mem[p].intent
    \/ /\ pc[p] = "save" /\ Reply(p, "500") /\ \E m \in messages : m.intent = mem[p].intent
       /\ UNCHANGED <<stored, mailed, bounds>>
Save(p) == Insert(p)
SaveFails(p) ==
    /\ pc[p] = "save" /\ Reply(p, "500") /\ Fault("database")
    /\ UNCHANGED <<stored, mailed>>

(* send_admin_notification raises what it meets, if the mail went out or   *)
(* not.  NotifyFailsSilently is the slip of fail_silently=True.            *)
NotifyFailsSilently(p) ==
    /\ Step(p, "notify", "confirm") /\ Fault("mail")
    /\ UNCHANGED <<stored, mailed, client, mem>>
Notify(p) ==
    /\ Step(p, "notify", "confirm") /\ mem[p].intent \notin Unmailable
    /\ adminMails' = adminMails \cup {LetterOf(mem[p])}
    /\ UNCHANGED <<stored, confirmations, client, mem, bounds>>
NotifyFails(p) ==
    /\ pc[p] = "notify" /\ Reply(p, "500") /\ Fault("mail")
    /\ UNCHANGED <<stored, mailed>>
NotifyLost(p) ==
    /\ pc[p] = "notify" /\ Reply(p, "500") /\ Fault("mail") /\ mem[p].intent \notin Unmailable
    /\ adminMails' = adminMails \cup {LetterOf(mem[p])}
    /\ UNCHANGED <<stored, confirmations>>
NotifyBadHeader(p) ==
    /\ pc[p] = "notify" /\ Reply(p, "500") /\ mem[p].intent \in Unmailable
    /\ UNCHANGED <<stored, mailed, bounds>>

(* send_confirmation_email fails silently.                                 *)
Confirm(p) ==
    /\ pc[p] = "confirm" /\ Reply(p, "201")
    /\ confirmations' \in {confirmations, confirmations \cup {LetterOf(mem[p])}}
    /\ UNCHANGED <<stored, adminMails, bounds>>

-----------------------------------------------------------------------------
(* A visitor no longer waits, while the handler goes on.                   *)
GiveUp(i) ==
    /\ waits[i] # Nobody /\ waits' = [waits EXCEPT ![i] = Nobody] /\ Fault("timeout")
    /\ UNCHANGED <<stored, mailed, pc, mem, answer, tries>>

(* A worker is killed and restarted: all its requests stop where they are, *)
(* and the proxy answers those who wait for them.                          *)
Crash(w) ==
    LET dead == {p \in Procs : WorkerOf[p] = w}
    IN  /\ Fault("crash")
        /\ pc' = [p \in Procs |-> IF p \in dead THEN "idle" ELSE pc[p]]
        /\ mem' = [p \in Procs |-> IF p \in dead THEN Nothing ELSE mem[p]]
        /\ answer' = [i \in Intents |-> IF waits[i] \in dead THEN "500" ELSE answer[i]]
        /\ waits' = [i \in Intents |-> IF waits[i] \in dead THEN Nobody ELSE waits[i]]
        /\ UNCHANGED <<stored, mailed, tries>>

-----------------------------------------------------------------------------
(* The admin: status and admin_notes can be edited, the rest is read-only. *)

EditBegin(p) ==
    /\ Step(p, "idle", "edit")
    /\ \E m \in messages, s \in Statuses : mem' = [mem EXCEPT ![p] = [m EXCEPT !.status = s]]
    /\ Edit /\ UNCHANGED <<stored, mailed, client>>

(* All columns are written; a row deleted meanwhile is inserted again.     *)
EditSave(p) ==
    /\ pc[p] = "edit" /\ Reply(p, "302")
    /\ messages' = {m \in messages : m.id # mem[p].id} \cup {mem[p]}
    /\ UNCHANGED <<nextId, removed, mailed, bounds>>

AdminDelete ==
    /\ \E m \in messages : messages' = messages \ {m} /\ removed' = removed \cup {LetterOf(m)}
    /\ Edit /\ UNCHANGED <<nextId, mailed, pc, mem, client>>

-----------------------------------------------------------------------------
(* What a thread does once it has accepted a request.                      *)
Handle(p) ==
    \/ Save(p) \/ SaveFails(p)
    \/ Notify(p) \/ NotifyFails(p) \/ NotifyLost(p) \/ NotifyBadHeader(p)
    \/ Confirm(p) \/ EditSave(p)

Next ==
    \/ \E p \in Procs : Handle(p) \/ EditBegin(p) \/ \E i \in Intents : Submit(p, i)
    \/ \E i \in Intents : SubmitInvalid(i) \/ GiveUp(i)
    \/ AdminDelete \/ \E w \in Workers : Crash(w)

Spec == Init /\ [][Next]_vars

(* A thread goes on with its request, and a visitor who can send the form  *)
(* time and again is served: requests wait in a queue.                     *)
FairSpec ==
    /\ Spec
    /\ \A p \in Procs : WF_vars(Handle(p))
    /\ \A i \in Intents : SF_vars(SubmitInvalid(i) \/ \E p \in Procs : Submit(p, i))

-----------------------------------------------------------------------------
(* Properties.                                                             *)

(* Whatever fails: a visitor is answered 201 only if the message has been  *)
(* stored and mailed to the admins, no mail is about a message that never  *)
(* was, and what the admins edit stays the visitor's letter.               *)
Promise == INSTANCE Postbox WITH
    letters <- {LetterOf(m) : m \in messages},
    unsent <- {LetterOf(mem[p]) : p \in {q \in Procs : pc[q] = "notify"}},
    told <- adminMails, confirmed <- confirmations,
    thanked <- {i \in Intents : answer[i] = "201"}
KeepsPromise == Promise!Spec

(* A visitor who keeps trying is answered 201, whatever failed before: the *)
(* copies the failed attempts have left do not stand in the way.           *)
EventuallyAccepted == \A i \in Valid \ Unmailable : <>(answer[i] = "201")

(* "Bei einem SMTP-Fehler wird die Nachricht trotzdem mit 201 Created      *)
(* gespeichert": no visitor whose message is stored is answered 500.       *)
StoredIsCreated ==
    \A i \in Intents : answer[i] = "500" => \A m \in messages : m.intent # i
=============================================================================
