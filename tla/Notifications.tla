--------------------------- MODULE Notifications ----------------------------
(***************************************************************************)
(* NotificationService and the badge: rows of the inbox, the stream of     *)
(* summaries of a connected client, and the count its bell shows.  The     *)
(* backend runs as several replicas: a row made on the replica that serves *)
(* the stream is published to it, one made elsewhere is found by the       *)
(* periodic poll.  The count is a cache entry that the stream, a click and *)
(* the replies to HTTP reads of the count all write.                       *)
(***************************************************************************)
EXTENDS Workspaces, Lists
LOCAL Sets == INSTANCE FiniteSetsExt

CONSTANTS
    Watchers,    \* users who may have a badge stream open
    Comments,    \* ids of comments
    Threads,     \* ids of threads
    Pending,     \* a query that is not answered yet
    MaxReadings, \* bound: summaries read for one stream at a time
    MaxMishaps   \* bound: how often a stream is cut off, a query fails, or a query
                 \* is slower than the poll

ASSUME BoundsAssumption ==
    MaxReadings \in Nat /\ MaxMishaps \in Nat /\ (Watchers # {} => MaxReadings > 0)

\* null is no key: a key is a string made from the id of a comment or a thread.
ASSUME KeysAssumption ==
    None \notin {<<c>> : c \in Comments} \cup {<<t, "resolved">> : t \in Threads}

VARIABLE
    stream       \* user -> open, mishaps, readings, sent; count, fetch

notifyVars == <<dbVars, stream>>
OnlyNotes == UNCHANGED <<workspaces, members, invites, folders, documents, storage>>

-----------------------------------------------------------------------------
(* The stream, on the server                                               *)

Inbox(u) == {n \in DOMAIN notes : notes[n].recipient = u}
Unread(u) == Cardinality({n \in Inbox(u) : ~notes[n].read})
Latest(u) ==
    IF Inbox(u) = {} THEN None
    ELSE CHOOSE n \in Inbox(u) : \A m \in Inbox(u) : notes[m].seq <= notes[n].seq
Summary(u) == [unread |-> Unread(u), latest |-> Latest(u)]

\* summaryFor runs two queries at once; either may answer first.
Reading(source) == [source |-> source, unread |-> Pending, latest |-> Pending]
Complete(x) == x.unread # Pending /\ x.latest # Pending

\* The bell is mounted: it reads the count over HTTP and opens the stream.
InitStream ==
    stream = [u \in Watchers |-> [open |-> FALSE, mishaps |-> 0, readings |-> <<>>,
                                  sent |-> None, count |-> 0, fetch |-> Pending]]
MayGoWrong(u) == stream[u].mishaps < MaxMishaps

\* The controller subscribes to the hub and reads the first summary.
Connect(u) ==
    /\ ~stream[u].open
    /\ stream' = [stream EXCEPT ![u].open = TRUE, ![u].sent = None,
                                ![u].readings = <<Reading("initial")>>]
    /\ UNCHANGED dbVars

Drop(u) ==
    /\ stream[u].open /\ MayGoWrong(u)
    /\ stream' = [stream EXCEPT ![u].open = FALSE, ![u].mishaps = @ + 1,
                                ![u].readings = <<>>]
    /\ UNCHANGED dbVars

(* Mutant: nothing but the hub. *)
NoPoll(u) == FALSE
\* A tick of the poll; switchMap gives up a poll that is still being read.
Poll(u) ==
    LET all    == stream[u].readings
        others == Omitting(all, {x \in Elements(all) : x.source = "poll"})
    IN  /\ stream[u].open /\ Len(others) < MaxReadings
        /\ others # all => MayGoWrong(u)
        /\ stream' = [stream EXCEPT ![u].readings = Append(others, Reading("poll")),
                        ![u].mishaps = IF others = all THEN @ ELSE @ + 1]
        /\ UNCHANGED dbVars

ReadUnread(u, i) ==
    /\ i \in DOMAIN stream[u].readings /\ stream[u].readings[i].unread = Pending
    /\ stream' = [stream EXCEPT ![u].readings[i].unread = Unread(u)]
    /\ UNCHANGED dbVars

ReadLatest(u, i) ==
    /\ i \in DOMAIN stream[u].readings /\ stream[u].readings[i].latest = Pending
    /\ stream' = [stream EXCEPT ![u].readings[i].latest = Latest(u)]
    /\ UNCHANGED dbVars

\* A summary equal to the last one sent is not sent again (sameSummary); one
\* that is sent sets the count.
Deliver(u, i) ==
    LET s == stream[u]
        x == [unread |-> s.readings[i].unread, latest |-> s.readings[i].latest]
    IN  /\ i \in DOMAIN s.readings /\ Complete(x)
        /\ stream' = [stream EXCEPT ![u] =
              [s EXCEPT !.readings = Taking(s.readings, i), !.sent = x,
                        !.count = IF x = s.sent THEN s.count ELSE x.unread]]
        /\ UNCHANGED dbVars

\* A failed query is swallowed, and the next tick tries again.
LoseReading(u, i) ==
    LET s == stream[u]
    IN  /\ i \in DOMAIN s.readings /\ MayFail("database") /\ MayGoWrong(u)
        /\ stream' = [stream EXCEPT ![u] =
              [s EXCEPT !.readings = Taking(s.readings, i), !.mishaps = s.mishaps + 1]]
        /\ UNCHANGED dbVars

-----------------------------------------------------------------------------
(* The count, in the client (useUnreadCount, useMarkRead)                  *)

NoFetch == None

\* The refetch interval, or the window getting the focus.
Refetch(u) ==
    /\ stream[u].fetch = NoFetch
    /\ stream' = [stream EXCEPT ![u].fetch = Pending]
    /\ UNCHANGED dbVars

CountUnread(u) ==
    /\ stream[u].fetch = Pending
    /\ stream' = [stream EXCEPT ![u].fetch = Unread(u)]
    /\ UNCHANGED dbVars

\* The reply is written to the cache, whatever was written there meanwhile.
FetchReply(u) ==
    /\ stream[u].fetch \notin {NoFetch, Pending}
    /\ stream' = [stream EXCEPT ![u].fetch = NoFetch, ![u].count = stream[u].fetch]
    /\ UNCHANGED dbVars

LoseFetch(u) ==
    /\ stream[u].fetch # NoFetch /\ MayGoWrong(u)
    /\ stream' = [stream EXCEPT ![u].fetch = NoFetch, ![u].mishaps = @ + 1]
    /\ UNCHANGED dbVars

\* The reply to a click: nextUnreadCount, then the entry is invalidated, which
\* starts a new read in place of the one under way.
ReadReply(r, marked) ==
    LET u == req[r].user
    IN  /\ At(r, "markRead", "reply")
        /\ Go(r, "done")
        /\ stream' = [stream EXCEPT ![u].fetch = Pending,
                ![u].count = IF req[r].all \/ marked >= @ THEN 0 ELSE @ - marked]
        /\ UNCHANGED <<tables, storage>>

\* publishSummary: the users among S whose stream this replica serves.
Local(S) ==
    SUBSET {u \in S \cap Watchers :
              stream[u].open /\ Len(stream[u].readings) < MaxReadings}
Publish(L) ==
    stream' = [u \in Watchers |->
        IF u \in L THEN [stream[u] EXCEPT !.readings = Append(@, Reading("hub"))]
        ELSE stream[u]]

-----------------------------------------------------------------------------
(* The inbox                                                               *)

Events ==
    [type : {"comment_mention", "comment_reply"}, thread : Threads, comment : Comments]
      \cup [type : {"thread_resolved"}, thread : Threads, comment : {None}]
Joined == [type |-> "workspace_member_joined", thread |-> None, comment |-> None]

(* Mutant: every event is keyed by its thread. *)
KeyOfThread(e) == IF e.thread = None THEN None ELSE <<e.thread>>
\* dedupeKeyFor: a resolved thread keys on the thread, the others on the comment.
DedupeKey(e) ==
    CASE e.type = "thread_resolved" -> <<e.thread, "resolved">>
      [] e.type = "workspace_member_joined" -> None
      [] OTHER -> <<e.comment>>

\* The unique index (recipient, type, dedupeKey); null keys are all distinct.
Clashes(u, e) ==
    DedupeKey(e) # None /\ \E n \in Inbox(u) :
        notes[n].event.type = e.type /\ notes[n].key = DedupeKey(e)

NextSeq == 1 + Sets!Max({0} \cup {notes[n].seq : n \in DOMAIN notes})

\* insert: createMany with skipDuplicates, then a summary for every recipient
\* of the batch, unless every row was a duplicate.
Insert(r, S, e, w, d) ==
    LET new  == {u \in S : ~Clashes(u, e)}
        rows == [n \in {<<r, u>> : u \in new} |->
                   [recipient |-> n[2], event |-> e, key |-> DedupeKey(e),
                    workspace |-> w, document |-> d, seq |-> NextSeq, read |-> FALSE]]
    IN  /\ notes' = [n \in DOMAIN notes \cup DOMAIN rows |->
                       IF n \in DOMAIN notes THEN notes[n] ELSE rows[n]]
        /\ IF new = {} THEN UNCHANGED stream ELSE \E L \in Local(S) : Publish(L)

\* createMemberJoined, once the membership is made; its failure is swallowed.
ReadOwners(r) ==
    /\ At(r, "accept", "recipients")
    /\ req' = [req EXCEPT ![r] = [kind |-> "accept", step |-> "notify", user |-> @.user,
                 invite |-> @.invite, joined |-> TRUE, to |-> JoinRecipients(r)]]
    /\ UNCHANGED <<tables, storage, stream>>

NotifyJoin(r, ok) ==
    LET w == req[r].invite.workspace
    IN  /\ At(r, "accept", "notify")
        /\ ~ok => MayFail("database") \/ w \notin DOMAIN workspaces
        /\ ok => w \in DOMAIN workspaces
        /\ Go(r, "done")
        /\ IF ok THEN Insert(r, req[r].to, Joined, w, None)
           ELSE UNCHANGED <<notes, stream>>
        /\ OnlyNotes

\* createFromComment: the document, the members among those named, the rows.
AskReport(r, u, d, S, e) ==
    /\ Arrive(r, [kind |-> "report", step |-> "document", user |-> u, document |-> d,
                  to |-> S \ {u}, event |-> e, workspace |-> None])
    /\ UNCHANGED <<tables, storage, stream>>

ReadReported(r) ==
    LET d == req[r].document
    IN  /\ At(r, "report", "document")
        /\ req' = IF d \in DOMAIN documents
                  THEN [req EXCEPT ![r].workspace = documents[d].workspace,
                                   ![r].step = "members"]
                  ELSE [req EXCEPT ![r].step = "refused"]
        /\ UNCHANGED <<tables, storage, stream>>

KeepMembers(r) ==
    LET w == req[r].workspace
    IN  /\ At(r, "report", "members")
        /\ req' = IF IsMember(w, req[r].user)
                  THEN [req EXCEPT ![r].to = {u \in @ : IsMember(w, u)}, ![r].step = "notify"]
                  ELSE [req EXCEPT ![r].step = "refused"]
        /\ UNCHANGED <<tables, storage, stream>>

\* The rows need their document and workspace to be there still.
NotifyComment(r) ==
    LET ok == req[r].to = {} \/ (req[r].document \in DOMAIN documents
                                   /\ req[r].workspace \in DOMAIN workspaces)
    IN  /\ At(r, "report", "notify")
        /\ Go(r, IF ok THEN "done" ELSE "failed")
        /\ IF ok THEN Insert(r, req[r].to, req[r].event, req[r].workspace, req[r].document)
           ELSE UNCHANGED <<notes, stream>>
        /\ OnlyNotes

\* markRead: rows of the caller that are unread, all or those named, from this
\* client or from another one of the user.
MarkRead(r, u, ids, here) ==
    /\ Arrive(r, [kind |-> "markRead", step |-> IF here THEN "reply" ELSE "done",
                  user |-> u, all |-> ids = Inbox(u)])
    /\ notes' = [n \in DOMAIN notes |-> IF n \in Inbox(u) \cap ids
                                        THEN [notes[n] EXCEPT !.read = TRUE] ELSE notes[n]]
    /\ \E L \in Local({u}) : Publish(L)
    /\ OnlyNotes

-----------------------------------------------------------------------------
(* Properties                                                              *)

(* A comment, or a thread being resolved, is announced to a user once,     *)
(* however often the client reports it and whatever the order.             *)
SameEvent(e, f) ==
    e.type = f.type /\ IF e.type = "thread_resolved" THEN e.thread = f.thread
                       ELSE e.comment = f.comment
AnnouncedOnce ==
    \A m, n \in DOMAIN notes :
        /\ m # n /\ notes[m].recipient = notes[n].recipient
        /\ notes[m].event.type # "workspace_member_joined"
        => ~SameEvent(notes[m].event, notes[n].event)

(* A report that succeeded reached each member it named: no note of another*)
(* comment or thread takes the place of theirs.  A note goes with its      *)
(* document or with the workspace it was made in, which the document may   *)
(* have left; the report it was made for no longer stands.                 *)
Reported(r, u, e) ==
    At(r, "report", "done") /\ u \in req[r].to /\ SameEvent(req[r].event, e)
Stands(r) == req[r].document \in DOMAIN documents /\ req[r].workspace \in DOMAIN workspaces
ReportsReachMembers ==
    \A r \in Requests, u \in Users :
        Reported(r, u, req[r].event) =>
            \/ \E n \in Inbox(u) : SameEvent(notes[n].event, req[r].event)
            \/ \E x \in Requests : Reported(x, u, req[r].event) /\ ~Stands(x)

(* Both at once: every member named is told of an event once.              *)
ToldExactlyOnce == AnnouncedOnce /\ ReportsReachMembers

(* A membership is announced once: two requests that accept the same       *)
(* invite at once make one membership and one round of notifications, and  *)
(* only a removal in between makes a second.                               *)
Joins(w, u) == {r \in Requests : req[r].kind = "accept" /\ "joined" \in DOMAIN req[r]
                   /\ req[r].joined /\ req[r].user = u /\ req[r].invite.workspace = w}
Removals(w, u) == {r \in Requests : At(r, "removeMember", "done")
                      /\ req[r].workspace = w /\ req[r].target = u}
JoinsAreNew ==
    \A w \in DOMAIN workspaces, u \in Users :
        Cardinality(Joins(w, u)) <= 1 + Cardinality(Removals(w, u))

(* However notifications are made on other replicas, readings overtake one *)
(* another or fail and streams are cut off, an open stream ends up having  *)
(* sent the summary of the database.  (merge of initial, hub and poll)     *)
StreamCatchesUp ==
    \A u \in Watchers : <>[](stream[u].open => stream[u].sent = Summary(u))

(* The count of the bell ends up as the number of unread notifications,    *)
(* although replies that were read earlier overwrite it later.             *)
BadgeCatchesUp == \A u \in Watchers : <>[](stream[u].count = Unread(u))

(* What the server sends and what the browser shows settle on the database.*)
NotificationsCatchUp == StreamCatchesUp /\ BadgeCatchesUp

(* With a stream that is open and has sent the present summary, and nothing*)
(* under way, the count is right: the refetch interval "is only a backstop *)
(* for a stream that never connected at all" (use-notifications.ts:33-35). *)
BackstopIsForNoStream ==
    \A u \in Watchers :
        /\ stream[u].open /\ stream[u].readings = <<>> /\ stream[u].sent = Summary(u)
        /\ stream[u].fetch = NoFetch
        => stream[u].count = Unread(u)
=============================================================================
