---------------------------- MODULE CalendarSync ----------------------------
(***************************************************************************)
(* The handler get_events: read the cache, decide whether to sync, search  *)
(* the CalDAV server, apply the result in one transaction, mark the months *)
(* as synced, answer.  Whatever fails after the decision, the answer comes *)
(* from the rows read at the start.                                        *)
(***************************************************************************)
EXTENDS CalendarState

(* parse_date_params and get_cached_events.                                *)
GetBegin(p) ==
    /\ Receive(p, "get")
    /\ \E r \in Ranges, f \in Forces :
          mem' = [mem EXCEPT ![p] = [Blank EXCEPT !.range = r, !.force = f,
                                                  !.seen = CachedEvents(rows, r)]]
    /\ pc' = [pc EXCEPT ![p] = "decide"]
    /\ UNCHANGED <<stores, now, issued, observers, faults, edits>>

(* should_sync_with_caldav reads the cache keys of this worker.            *)
GetDecide(p) ==
    LET m == mem[p]
        sync == ShouldSync(m.force, m.seen, m.range, marks[WorkerOf[p]], now)
    IN  /\ Step(p, "decide", IF sync THEN "search" ELSE "reply")
        /\ mem' = [mem EXCEPT ![p] = [m EXCEPT !.sync = sync,
                                               !.source = IF sync THEN "none" ELSE "cache"]]
        /\ UNCHANGED <<stores, now, issued, observers, counters>>

(* CalDAVService() raises, or later the transaction does: response_events  *)
(* is cached_events.                                                       *)
ServeCached(p, from) ==
    /\ Step(p, from, "reply")
    /\ mem' = [mem EXCEPT ![p].source = "cache"]
    /\ UNCHANGED <<stores, now, issued, observers, writes, edits>>

GetConnectFails(p) == Fault("connect") /\ ServeCached(p, "search")
GetCommitFails(p) == Fault("commit") /\ ServeCached(p, "commit")

(* The answer to the search has come and process_caldav_sync has merged it *)
(* into the rows in memory.                                                *)
Searched(p, found) ==
    /\ Step(p, "search", "commit")
    /\ mem' = [mem EXCEPT ![p] = [@ EXCEPT !.found = found, !.stamp = now,
                                           !.seen = MergeFound(mem[p].seen, found, now)]]
    /\ absent' = [absent EXCEPT ![p] = {u \in issued : server[u] = NoEvent}]
    /\ UNCHANGED <<stores, now, issued, held, writes, edits>>

GetSearch(p) == NoFault /\ Searched(p, SearchHits(server, mem[p].range))

(* service.get_events catches every exception and returns no events.       *)
GetSearchFails(p) == Fault("search") /\ Searched(p, NoEvents)

(* The transaction: perform_bulk_operations, cleanup_zombie_events.        *)
GetCommit(p) ==
    /\ Step(p, "commit", "mark")
    /\ LET m == mem[p]
       IN  \E ids \in NextIds(NewRows(rows, m.seen, m.found)) :
              LET created == BulkCreate(rows, m.seen, m.found, ids, m.stamp)
                  updated == BulkUpdate(created, m.seen, m.found)
              IN  rows' = CleanupZombies(updated, m.seen, m.found)
    /\ UNCHANGED <<server, marks, now, mem, issued, observers, counters>>

(* mark_range_synced sets the cache keys of this worker.                   *)
GetMark(p) ==
    /\ Step(p, "mark", "reply")
    /\ marks' = [marks EXCEPT ![WorkerOf[p]] =
                    [k \in Months |-> IF k \in SyncedMonths(mem[p].range) THEN now + TTL ELSE @[k]]]
    /\ mem' = [mem EXCEPT ![p].source = "server"]
    /\ UNCHANGED <<server, rows, now, issued, observers, counters>>

GetReply(p) ==
    /\ Finish(p, "reply")
    /\ absent' = [absent EXCEPT ![p] = {}]
    /\ UNCHANGED <<stores, now, issued, held, counters>>

(* response_events, by uid, when the answer is being built.                *)
Response(p) ==
    IF mem[p].source = "server" THEN mem[p].found
    ELSE [u \in Uids |-> IF mem[p].seen[u] = NoRow THEN NoEvent ELSE mem[p].seen[u].ev]

GetNext(p) ==
    \/ GetBegin(p) \/ GetDecide(p)
    \/ GetConnectFails(p) \/ GetSearch(p) \/ GetSearchFails(p)
    \/ GetCommit(p) \/ GetCommitFails(p) \/ GetMark(p) \/ GetReply(p)
=============================================================================
