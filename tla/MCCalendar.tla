----------------------------- MODULE MCCalendar -----------------------------
(***************************************************************************)
(* Instances of CalendarAdmin for TLC.  A month is four instants; Jan is   *)
(* 0..3, Feb 4..7, Mar 8..11.                                              *)
(***************************************************************************)
EXTENDS CalendarAdmin, TLC

CONSTANTS u1, u2, u3, p1, p2, w1, dachraum, T1, T2, T3

Timed(from, to, where, count, what) ==
    [start |-> from, end |-> to, room |-> where, rrule |-> count, exdate |-> {}, title |-> what]

OneProc == {p1}
TwoProcs == {p1, p2}
TwoUids == {u1, u2}
ThreeUids == {u1, u2, u3}
OneWorker == [p \in Procs |-> w1]
EachAWorker == [p \in Procs |-> p]             \* a worker is named after its thread

NoneExisting == [u \in Uids |-> NoEvent]
Starting(u, ev) == [NoneExisting EXCEPT ![u] = ev]

(* Events. *)
Talk == Timed(1, 2, NoRoom, 0, T1)              \* January
TalkMoved == Timed(5, 6, NoRoom, 0, T2)         \* the same, moved to February
Weekly == Timed(1, 2, NoRoom, 4, T1)            \* January to April: 1, 5, 9, 13
Party == Timed(1, 3, dachraum, 0, T1)
LongParty == Timed(0, 4, dachraum, 0, T2)
LateParty == Timed(3, 4, dachraum, 0, T1)
Choir == Timed(1, 2, dachraum, 2, T1)           \* in the room at 1 and at 5
AfterChoir == Timed(5, 6, dachraum, 0, T2)
ChoirMoved == Timed(3, 4, dachraum, 2, T1)
Garbled == Timed(5, 6, NoRoom, 2, T2)           \* its rule, where BadRules has it, cannot be parsed
NoDtend == Timed(1, 2, NoRoom, 0, T3)            \* has a DURATION instead

TalkOnServer == Starting(u1, Talk)
WeeklyOnServer == Starting(u1, Weekly)
PartyOnServer == Starting(u1, Party)
ChoirOnServer == Starting(u1, Choir)
TwoMonthsOnServer == [Starting(u1, Talk) EXCEPT ![u2] = TalkMoved]
TwiceOnServer == [Starting(u1, Timed(1, 2, NoRoom, 2, T1)) EXCEPT ![u2] = Timed(2, 3, NoRoom, 0, T2)]
ChoirAndPartyOnServer == [Starting(u1, Choir) EXCEPT ![u2] = LateParty]
LateOnServer == Starting(u1, Timed(9, 10, NoRoom, 0, T1))

TalkPayloads == {Talk, TalkMoved}
MixedPayloads == {TalkMoved, Weekly}
PartyPayloads == {Party, LongParty, LateParty}
ChoirPayloads == {AfterChoir}
ChoirMovedPayloads == {ChoirMoved}
WeeklyPayloads == {Weekly}
OnePayload == {TalkMoved}
SomeGarbled == {TalkMoved, Garbled}
Unreadable == {NoDtend}

(* Ranges. *)
Between(from, to) == [start |-> from, end |-> to]
WholeYear == {Between(0, 11)}
January == {Between(0, 3)}
PartOfMonth == {Between(0, 2), Between(0, 3)}
EachMonth == {Between(0, 3), Between(4, 7), Between(8, 11)}
TwoMonths == {Between(0, 3), Between(4, 7)}
Unbounded == {Between(NoDate, NoDate)}

JustU1 == {u1}
JustU1AndU2 == {u1, u2}
NoFaultKinds == {}
AllFaultKinds == {"connect", "search", "commit", "save", "lost", "crash"}
FaultsButSearch == AllFaultKinds \ {"search"}

AllOps == {"get", "create", "update", "delete", "exception", "occurrence", "admin"}

(* One request is served at a time, by any of the threads.  *)
Alone == Cardinality({p \in Procs : pc[p] # "idle"}) <= 1
SerialSpec == Init /\ [][Next /\ Alone']_vars

(* Three things happen at most, writes, outside edits and failures, of     *)
(* those the bounds allow; the rest is GETs, as fair as in AdminFairSpec.  *)
AtMostThree == writes + edits + faults <= 3
ThreeFairSpec ==
    /\ Init /\ [][(Next \/ AdminNext) /\ AtMostThree']_vars
    /\ \A p \in Procs : WF_vars(Handle(p) \/ AdminSave(p) \/ AdminConflict(p)) /\ WF_vars(GetBegin(p))

(* Threads are alike, in one worker or with a worker each. *)
Alike == Permutations(TwoProcs)
=============================================================================
