----------------------------- MODULE Conversation -----------------------------
(***************************************************************************)
(* Sessions and their messages: POST /api/observe, POST /api/observe/batch *)
(* and the listing of a session's last messages.                           *)
(*                                                                         *)
(* A message carries the time its transaction began, the messages of a     *)
(* batch the same time; transactions commit in any order.  A listing looks *)
(* for the session, counts and selects, each in a statement of its own.    *)
(***************************************************************************)
EXTENDS Naturals, FiniteSets, Sequences

CONSTANTS
    Messages, Sessions,
    Writers,        \* concurrent requests that add messages
    BatchSize,      \* bound: messages of one request
    MaxTime,        \* bound: transactions that begin
    ListLimits,     \* limits of a listing
    Null

ASSUME ConversationAssumption ==
    /\ IsFiniteSet(Messages) /\ Null \notin Messages
    /\ MaxTime \in Nat /\ ListLimits \subseteq Nat \ {0}

VARIABLES
    sessions,   \* agent_session
    message,    \* committed rows of the message table
    writing,    \* writing[w]: the rows of an open transaction, or Null
    time,       \* the database's clock
    listing     \* a listing in flight or answered, or Null

conversationVars == <<sessions, message, writing, time, listing>>

MessageRow == [message_id: Messages, session_id: Sessions, created_at: 1 .. MaxTime,
               reply_to_message_id: Messages \cup {Null}]

ConversationTypeOK ==
    /\ sessions \subseteq Sessions
    /\ message \subseteq MessageRow
    /\ \A x, y \in message : x.message_id = y.message_id => x = y
    /\ \A w \in Writers : writing[w] # Null => writing[w] \subseteq MessageRow
    /\ time \in 1 .. MaxTime + 1
    /\ listing # Null =>
          /\ listing.at \in {"session", "count", "items", "listed"}
          /\ \A i \in DOMAIN listing.items : listing.items[i] \in message

ConversationInit ==
    /\ sessions = {}
    /\ message = {}
    /\ writing = [w \in Writers |-> Null]
    /\ time = 1
    /\ listing = Null

InSession(s) == {row \in message : row.session_id = s}

\* The primary key.
Used == {row.message_id : row \in message \cup UNION {writing[w] : w \in {v \in Writers : writing[v] # Null}}}

-------------------------------------------------------------------------------
CreateSession(s) ==
    /\ s \notin sessions
    /\ sessions' = sessions \cup {s}
    /\ UNCHANGED <<message, writing, time, listing>>

\* _insert_message, once per message of the request.  A client can only name a message that
\* it has read, so that a reply begins after what it answers was committed.
InsertMessages(w, s, ids) ==
    /\ writing[w] = Null /\ time <= MaxTime
    /\ s \in sessions
    /\ \E reply \in [ids -> {row.message_id : row \in InSession(s)} \cup {Null}] :
         writing' = [writing EXCEPT ![w] =
             {[message_id |-> m, session_id |-> s, created_at |-> time,
               reply_to_message_id |-> reply[m]] : m \in ids}]
    /\ time' = time + 1
    /\ UNCHANGED <<sessions, message, listing>>

CommitMessages(w) ==
    /\ writing[w] # Null
    /\ message' = message \cup writing[w]
    /\ writing' = [writing EXCEPT ![w] = Null]
    /\ UNCHANGED <<sessions, time, listing>>

\* A message of the batch is refused, or the connection fails.
AbortMessages(w) ==
    /\ writing[w] # Null
    /\ writing' = [writing EXCEPT ![w] = Null]
    /\ UNCHANGED <<sessions, message, time, listing>>

-------------------------------------------------------------------------------
BeginListing(s, limit) ==
    /\ listing = Null
    /\ listing' = [at |-> "session", session |-> s, limit |-> limit, total |-> 0,
                   items |-> <<>>, known |-> InSession(s)]
    /\ UNCHANGED <<sessions, message, writing, time>>

\* get_session, on a second connection.  A session that is not there is a 404.
ListingSession ==
    /\ listing # Null /\ listing.at = "session"
    /\ listing' = IF listing.session \in sessions THEN [listing EXCEPT !.at = "count"] ELSE Null
    /\ UNCHANGED <<sessions, message, writing, time>>

ListingCount ==
    /\ listing # Null /\ listing.at = "count"
    /\ listing' = [listing EXCEPT !.at = "items", !.total = Cardinality(InSession(listing.session))]
    /\ UNCHANGED <<sessions, message, writing, time>>

\* Fault: the first messages of the session rather than the last ones.
EarliestRows(rows, limit) ==
    LET size == IF Cardinality(rows) < limit THEN Cardinality(rows) ELSE limit IN
    {s \in [1 .. size -> rows] :
        /\ \A i, j \in 1 .. size : i < j => s[i] # s[j] /\ s[i].created_at <= s[j].created_at
        /\ \A row \in rows : \A i \in 1 .. size :
              row \notin {s[k] : k \in 1 .. size} => row.created_at >= s[i].created_at}

\* ORDER BY created_at DESC LIMIT, reversed; rows of one time come in any order.
LatestRows(rows, limit) ==
    LET size == IF Cardinality(rows) < limit THEN Cardinality(rows) ELSE limit IN
    {s \in [1 .. size -> rows] :
        /\ \A i, j \in 1 .. size : i < j => s[i] # s[j] /\ s[i].created_at <= s[j].created_at
        /\ \A row \in rows : \A i \in 1 .. size :
              row \notin {s[k] : k \in 1 .. size} => row.created_at <= s[i].created_at}

ListingItems ==
    /\ listing # Null /\ listing.at = "items"
    /\ \E items \in LatestRows(InSession(listing.session), listing.limit) :
         listing' = [listing EXCEPT !.at = "listed", !.items = items]
    /\ UNCHANGED <<sessions, message, writing, time>>

WriteNext ==
    \/ \E s \in Sessions : CreateSession(s)
    \/ \E w \in Writers, s \in Sessions, ids \in SUBSET (Messages \ Used) :
            ids # {} /\ Cardinality(ids) <= BatchSize /\ InsertMessages(w, s, ids)
    \/ \E w \in Writers : CommitMessages(w) \/ AbortMessages(w)

ListingStep == ListingSession \/ ListingCount \/ ListingItems

-------------------------------------------------------------------------------
(* Properties. *)

Listed == listing # Null /\ listing.at = "listed"

\* "order by created_at DESC in SQL for efficient limit, then reverse in service so Markdown
\* is chronological", "only recent messages" (19-repo-session-aware-context-design.md): no
\* reply is listed before the message it answers, whatever transactions overlap; a message
\* stored before the listing began is in it, unless the limit is used up by messages at least
\* as recent; and the items never fall short of the total, which was counted before them.
RecentInOrder ==
    Listed =>
        /\ \A i, j \in DOMAIN listing.items :
              listing.items[i].reply_to_message_id = listing.items[j].message_id => j < i
        /\ \A row \in listing.known :
              \/ \E i \in DOMAIN listing.items : listing.items[i] = row
              \/ /\ Len(listing.items) = listing.limit
                 /\ \A i \in DOMAIN listing.items : listing.items[i].created_at >= row.created_at
        /\ Len(listing.items) >= (IF listing.total < listing.limit THEN listing.total ELSE listing.limit)
===============================================================================
