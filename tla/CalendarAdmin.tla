---------------------------- MODULE CalendarAdmin ---------------------------
(***************************************************************************)
(* The Django admin of calendar_app, which edits rows of the cache and     *)
(* never reaches the CalDAV server: until the next sync the cache shows    *)
(* what the server never had.  recurrence_id is left empty, as everywhere. *)
(***************************************************************************)
EXTENDS CalendarApp

(* A uid typed into a form: one in use, or a new one.                      *)
Typed(u) == (u \in issued \/ SpareUid) /\ issued' = issued \cup {u}

AdminEdit == "admin" \in Ops /\ edits < MaxEdits /\ edits' = edits + 1

(* A valid form to change an event: the row is loaded, and overwritten in  *)
(* memory by all the fields of the form.  last_synced_at is read-only.     *)
AdminForm(p) ==
    /\ AdminEdit /\ Step(p, "idle", "adminSave")
    /\ \E u, v \in Uids, ev \in ExternalEvents :
          /\ rows[u] # NoRow /\ (v = u \/ rows[v] = NoRow) /\ Typed(v)
          /\ mem' = [mem EXCEPT ![p] = [Blank EXCEPT !.uid = u, !.new = v, !.ev = ev,
                                                     !.seen[u] = rows[u]]]
    /\ UNCHANGED <<stores, now, observers, faults, writes>>

(* UPDATE by primary key, or INSERT if there is no such row any more; the  *)
(* uid must not be another row's.                                          *)
Edited(p) ==
    LET m == mem[p]
    IN  [id |-> m.seen[m.uid].id, ev |-> m.ev, synced |-> m.seen[m.uid].synced]
OtherHolds(p) == rows[mem[p].new] # NoRow /\ rows[mem[p].new].id # Edited(p).id
AdminSave(p) ==
    /\ pc[p] = "adminSave" /\ ~ OtherHolds(p) /\ Finish(p, "adminSave")
    /\ rows' = [u \in Uids |-> IF u = mem[p].new THEN Edited(p)
                               ELSE IF rows[u] # NoRow /\ rows[u].id = Edited(p).id THEN NoRow
                               ELSE rows[u]]
    /\ UNCHANGED <<server, marks, now, issued, observers, counters>>

(* IntegrityError: another row has the uid by now.                         *)
AdminConflict(p) ==
    /\ pc[p] = "adminSave" /\ OtherHolds(p) /\ Finish(p, "adminSave")
    /\ UNCHANGED <<stores, now, issued, observers, counters>>

AdminAdd ==
    /\ AdminEdit
    /\ \E u \in Uids, ev \in ExternalEvents, id \in Ids :
          /\ rows[u] = NoRow /\ Typed(u) /\ NextId(id)
          /\ rows' = [rows EXCEPT ![u] = [id |-> id, ev |-> ev, synced |-> NoDate]]
    /\ UNCHANGED <<server, marks, now, control, observers, faults, writes>>

AdminDelete ==
    /\ AdminEdit
    /\ \E u \in Uids : rows[u] # NoRow /\ rows' = [rows EXCEPT ![u] = NoRow]
    /\ UNCHANGED <<server, marks, now, control, issued, observers, faults, writes>>

-----------------------------------------------------------------------------
AdminNext == AdminAdd \/ AdminDelete \/ \E p \in Procs : AdminForm(p) \/ AdminSave(p) \/ AdminConflict(p)

AdminSpec == Init /\ [][Next \/ AdminNext]_vars

(* The fairness of FairSpec, with the admin's requests among the others.   *)
AdminFairSpec ==
    /\ AdminSpec
    /\ \A p \in Procs : WF_vars(Handle(p) \/ AdminSave(p) \/ AdminConflict(p)) /\ WF_vars(GetBegin(p))
=============================================================================
