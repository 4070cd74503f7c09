------------------------ MODULE CalendarOccurrences -------------------------
(***************************************************************************)
(* The handlers create_exception and delete_occurrence.  Both add an       *)
(* EXDATE to a recurring master by reading it, changing the copy and       *)
(* writing it back; create_exception then stores a standalone event.       *)
(***************************************************************************)
EXTENDS CalendarWrites

(* create_exception up to the serializer: only an event the cache knows as *)
(* recurring, and a replacement that is valid.                             *)
ExceptionBegin(p) ==
    /\ Receive(p, "exception") /\ SpareUid
    /\ \E u \in issued, occ \in Occs, ev \in Payloads :
          /\ rows[u] # NoRow /\ rows[u].ev.rrule # 0
          /\ Valid(rows, ev, ExcludedByException(rows, u, occ, ev))
          /\ mem' = [mem EXCEPT ![p] = [Blank EXCEPT !.uid = u, !.occ = occ, !.ev = ev]]
    /\ pc' = [pc EXCEPT ![p] = "addLookup"]
    /\ UNCHANGED <<stores, now, issued, observers, faults, edits>>

(* delete_occurrence checks nothing but that an occurrence is named.       *)
OccurrenceBegin(p) ==
    /\ Receive(p, "occurrence")
    /\ \E u \in issued, occ \in Occs :
          mem' = [mem EXCEPT ![p] = [Blank EXCEPT !.uid = u, !.occ = occ]]
    /\ pc' = [pc EXCEPT ![p] = "addLookup"]
    /\ UNCHANGED <<stores, now, issued, observers, faults, edits>>

-----------------------------------------------------------------------------
(* _add_exdate_to_master.                                                  *)

Readable(u) == server[u] # NoEvent /\ Parses(server[u])

MasterFound(p) ==
    /\ Step(p, "addLookup", "addSave") /\ Readable(mem[p].uid)
    /\ mem' = [mem EXCEPT ![p].master = server[mem[p].uid]]
    /\ UNCHANGED <<stores, now, issued, observers, counters>>

MasterNotFound(p) ==
    /\ Finish(p, "addLookup") /\ ~ Readable(mem[p].uid)
    /\ UNCHANGED <<stores, now, issued, observers, counters>>

(* The copy read before, with the occurrence added, replaces whatever the  *)
(* server holds by now.                                                    *)
MasterSave(p) ==
    /\ NoFault /\ Step(p, "addSave", IF mem[p].ev = NoEvent THEN "exdDb" ELSE "excSave")
    /\ LET master == WithExdate(mem[p].master, mem[p].occ)
       IN  /\ PutOnServer(mem[p].uid, ServerForm(master))
           /\ mem' = [mem EXCEPT ![p].master = master]
    /\ UNCHANGED <<rows, marks, now, issued, absent, writes, edits>>

MasterLost(p) ==
    /\ Fault("lost") /\ Finish(p, "addSave")
    /\ PutOnServer(mem[p].uid, ServerForm(WithExdate(mem[p].master, mem[p].occ)))
    /\ UNCHANGED <<rows, marks, now, issued, absent, writes, edits>>

(* MasterUnsaved is the slip of going on when the EXDATE was not saved.    *)
MasterUnsaved(p) ==
    /\ Fault("save") /\ Step(p, "addSave", "excSave") /\ mem[p].ev # NoEvent
    /\ UNCHANGED <<stores, now, mem, issued, observers, writes, edits>>
MasterFails(p) == SaveFails(p, "addSave")

-----------------------------------------------------------------------------
(* The rest of service.create_exception: the standalone event is saved     *)
(* under a uid of its own.                                                 *)
ExceptionSave(p) ==
    /\ NoFault /\ Step(p, "excSave", "exdDb")
    /\ \E u \in Uids \ issued :
          /\ PutOnServer(u, Standalone(mem[p].ev))
          /\ issued' = issued \cup {u}
          /\ mem' = [mem EXCEPT ![p].new = u]
    /\ UNCHANGED <<rows, marks, now, absent, writes, edits>>

ExceptionLost(p) ==
    /\ Fault("lost") /\ Finish(p, "excSave")
    /\ \E u \in Uids \ issued :
          PutOnServer(u, Standalone(mem[p].ev)) /\ issued' = issued \cup {u}
    /\ UNCHANGED <<rows, marks, now, absent, writes, edits>>

ExceptionFails(p) == SaveFails(p, "excSave")

(* The master's row takes the new exdate, and nothing else.                *)
ExdateDb(p) ==
    /\ IF mem[p].ev = NoEvent THEN Finish(p, "exdDb")
       ELSE Step(p, "exdDb", "excDb") /\ UNCHANGED mem
    /\ rows' = UpdateExdate(rows, mem[p].uid, mem[p].master.exdate, now)
    /\ UNCHANGED <<server, marks, now, issued, observers, counters>>

ExceptionDb(p) ==
    /\ Finish(p, "excDb")
    /\ \E id \in Ids :
          NextId(id) /\ rows' = UpsertRow(rows, mem[p].new, Standalone(mem[p].ev), id, now)
    /\ UNCHANGED <<server, marks, now, issued, observers, counters>>

OccurrenceNext(p) ==
    \/ ExceptionBegin(p) \/ OccurrenceBegin(p)
    \/ MasterFound(p) \/ MasterNotFound(p)
    \/ MasterSave(p) \/ MasterLost(p) \/ MasterFails(p)
    \/ ExceptionSave(p) \/ ExceptionLost(p) \/ ExceptionFails(p)
    \/ ExdateDb(p) \/ ExceptionDb(p)
=============================================================================
