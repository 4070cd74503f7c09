--------------------------- MODULE CalendarWrites ---------------------------
(***************************************************************************)
(* The handlers create_event, update_event and delete_event: validate      *)
(* against the cache, write to the CalDAV server, then write the row.      *)
(*                                                                         *)
(* A request that is refused (400, 404) or fails before it has written     *)
(* changes nothing: it is the request the model does not receive.          *)
(***************************************************************************)
EXTENDS CalendarState

(* A write to the server goes wrong: it is refused, or it is applied and   *)
(* its answer is lost.  Either way the handler raises: 500, and no row is  *)
(* written.                                                                *)
SaveFails(p, from) ==
    /\ Fault("save") /\ Finish(p, from)
    /\ UNCHANGED <<stores, now, issued, observers, writes, edits>>

-----------------------------------------------------------------------------
CreateBegin(p) ==
    /\ Receive(p, "create") /\ SpareUid
    /\ \E ev \in Payloads :
          /\ Valid(rows, ev, {})
          /\ mem' = [mem EXCEPT ![p] = [Blank EXCEPT !.ev = ev]]
    /\ pc' = [pc EXCEPT ![p] = "createSave"]
    /\ UNCHANGED <<stores, now, issued, observers, faults, edits>>

(* service.create_event: a fresh uid, and the event is saved.              *)
CreateSave(p) ==
    /\ NoFault /\ Step(p, "createSave", "createDb")
    /\ \E u \in Uids \ issued :
          /\ PutOnServer(u, ServerForm(mem[p].ev))
          /\ issued' = issued \cup {u}
          /\ mem' = [mem EXCEPT ![p].new = u]
    /\ UNCHANGED <<rows, marks, now, absent, writes, edits>>

CreateLost(p) ==
    /\ Fault("lost") /\ Finish(p, "createSave")
    /\ \E u \in Uids \ issued :
          /\ PutOnServer(u, ServerForm(mem[p].ev))
          /\ issued' = issued \cup {u}
    /\ UNCHANGED <<rows, marks, now, absent, writes, edits>>

CreateFails(p) == SaveFails(p, "createSave")

CreateDb(p) ==
    /\ Finish(p, "createDb")
    /\ \E id \in Ids : NextId(id) /\ rows' = UpsertRow(rows, mem[p].new, mem[p].ev, id, now)
    /\ UNCHANGED <<server, marks, now, issued, observers, counters>>

-----------------------------------------------------------------------------
(* update_event up to the serializer: the row, the exclude list and the    *)
(* overlap query are read together.                                        *)
UpdateBegin(p) ==
    /\ Receive(p, "update")
    /\ \E u \in issued, ev \in Payloads :
          /\ Valid(rows, ev, ExcludedByUpdate(rows, u, ev))
          /\ mem' = [mem EXCEPT ![p] = [Blank EXCEPT !.uid = u, !.ev = ev]]
    /\ pc' = [pc EXCEPT ![p] = "updateLookup"]
    /\ UNCHANGED <<stores, now, issued, observers, faults, edits>>

UpdateFound(p) ==
    /\ Step(p, "updateLookup", "updateSave")
    /\ server[mem[p].uid] # NoEvent
    /\ UNCHANGED <<stores, now, mem, issued, observers, counters>>

UpdateNotFound(p) ==
    /\ Finish(p, "updateLookup")
    /\ server[mem[p].uid] = NoEvent
    /\ UNCHANGED <<stores, now, issued, observers, counters>>

(* The PUT is unconditional: it stores the event even if it has changed or *)
(* gone since the lookup.                                                  *)
UpdateSave(p) ==
    /\ NoFault /\ Step(p, "updateSave", "updateDb")
    /\ PutOnServer(mem[p].uid, ServerForm(mem[p].ev))
    /\ UNCHANGED <<rows, marks, now, mem, issued, absent, writes, edits>>

UpdateLost(p) ==
    /\ Fault("lost") /\ Finish(p, "updateSave")
    /\ PutOnServer(mem[p].uid, ServerForm(mem[p].ev))
    /\ UNCHANGED <<rows, marks, now, issued, absent, writes, edits>>

(* UpdateUnsaved is the slip of writing the row after a failed save.       *)
UpdateUnsaved(p) ==
    /\ Fault("save") /\ Step(p, "updateSave", "updateDb")
    /\ UNCHANGED <<stores, now, mem, issued, observers, writes, edits>>
UpdateFails(p) == SaveFails(p, "updateSave")

UpdateDb(p) ==
    /\ Finish(p, "updateDb")
    /\ rows' = UpdateRow(rows, mem[p].uid, mem[p].ev, now)
    /\ UNCHANGED <<server, marks, now, issued, observers, counters>>

-----------------------------------------------------------------------------
(* delete_event: the lookup finds the event; otherwise the answer is 404.  *)
DeleteBegin(p) ==
    /\ Receive(p, "delete")
    /\ \E u \in issued :
          /\ server[u] # NoEvent
          /\ mem' = [mem EXCEPT ![p] = [Blank EXCEPT !.uid = u]]
    /\ pc' = [pc EXCEPT ![p] = "deleteSave"]
    /\ UNCHANGED <<stores, now, issued, observers, faults, edits>>

(* event.delete(): an event that is already gone counts as deleted.        *)
DeleteSave(p) ==
    /\ NoFault /\ Step(p, "deleteSave", "deleteDb")
    /\ server' = [server EXCEPT ![mem[p].uid] = NoEvent]
    /\ UNCHANGED <<rows, marks, now, mem, issued, observers, writes, edits>>

DeleteLost(p) ==
    /\ Fault("lost") /\ Finish(p, "deleteSave")
    /\ server' = [server EXCEPT ![mem[p].uid] = NoEvent]
    /\ UNCHANGED <<rows, marks, now, issued, observers, writes, edits>>

DeleteFails(p) == SaveFails(p, "deleteSave")

DeleteDb(p) ==
    /\ Finish(p, "deleteDb")
    /\ rows' = [rows EXCEPT ![mem[p].uid] = NoRow]
    /\ UNCHANGED <<server, marks, now, issued, observers, counters>>

-----------------------------------------------------------------------------
WriteNext(p) ==
    \/ CreateBegin(p) \/ CreateSave(p) \/ CreateLost(p) \/ CreateFails(p) \/ CreateDb(p)
    \/ UpdateBegin(p) \/ UpdateFound(p) \/ UpdateNotFound(p)
    \/ UpdateSave(p) \/ UpdateLost(p) \/ UpdateFails(p) \/ UpdateDb(p)
    \/ DeleteBegin(p) \/ DeleteSave(p) \/ DeleteLost(p) \/ DeleteFails(p) \/ DeleteDb(p)
=============================================================================
