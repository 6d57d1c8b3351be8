------------------------------- MODULE History -------------------------------
(***************************************************************************)
(* The history of a channel: GET /api/history (server/history.rs) reads    *)
(* pages of the table messages, while messages that were sent at different *)
(* times arrive in it in any order: persist_message (server/ws.rs) inserts *)
(* them one by one, or some consumer a batch later (db/mod.rs).            *)
(*                                                                         *)
(* A reader scrolls through a channel as the query invites it to: it asks  *)
(* for the newest page, then for what is before the oldest timestamp it    *)
(* was given, until a page is empty.  Timestamps are whole seconds, from   *)
(* the handler's clock to created_at and back, hence so are the places at  *)
(* which pages can be cut.                                                 *)
(***************************************************************************)
EXTENDS Integers, FiniteSets

CONSTANTS
    Channels,      \* the values of (tenant_id, channel_type, channel_id)
    Limits,        \* the limits readers ask for
    NoLimit,       \* the query has no limit
    DefaultLimit,  \* 50
    MaxLimit,      \* 100
    MaxMessages,   \* bound on the messages sent
    MaxClock       \* bound on the time, in seconds

ASSUME LimitAssumption ==
    /\ Limits \subseteq Int /\ NoLimit \notin Int
    /\ DefaultLimit \in Nat \ {0} /\ MaxLimit \in Nat \ {0}
ASSUME BoundAssumption == MaxMessages \in Nat /\ MaxClock \in Nat

VARIABLES
    clock,     \* seconds
    sent,      \* number of messages sent
    unsaved,   \* sent messages that are not in the table
    table,     \* messages
    reader,    \* where the scroll is
    channel, limit,  \* its parameters
    before,    \* and the timestamp of its next query
    page,      \* the page it got last
    shown,     \* what it was given on the pages before
    cuts,      \* history: the seconds in which a page ended
    opened     \* history: what the table held of the channel when it began

scroll == <<reader, channel, limit, before, page, shown, cuts, opened>>
vars == <<clock, sent, unsaved, table, scroll>>

Messages == [id : 1 .. MaxMessages, channel : Channels, at : 0 .. MaxClock]

\* No before: later than every message.
Now == MaxClock + 1

TypeOK ==
    /\ clock \in 0 .. MaxClock
    /\ sent \in 0 .. MaxMessages
    /\ unsaved \subseteq Messages /\ table \subseteq Messages
    /\ reader \in {"idle", "paging", "done", "failed"}
    /\ channel \in Channels
    /\ limit \in Limits \cup {NoLimit}
    /\ before \in 0 .. Now
    /\ page \subseteq Messages /\ shown \subseteq Messages
    /\ cuts \subseteq 0 .. MaxClock
    /\ opened \subseteq Messages

Init ==
    /\ clock = 0 /\ sent = 0
    /\ unsaved = {} /\ table = {}
    /\ reader = "idle"
    /\ channel \in Channels
    /\ limit \in Limits \cup {NoLimit}
    /\ before = Now
    /\ page = {} /\ shown = {} /\ cuts = {} /\ opened = {}

-----------------------------------------------------------------------------
(* Messages *)

Tick ==
    /\ clock < MaxClock
    /\ clock' = clock + 1
    /\ UNCHANGED <<sent, unsaved, table, scroll>>

\* The handler stamps the message and has it persisted.
Send(ch) ==
    /\ sent < MaxMessages
    /\ sent' = sent + 1
    /\ unsaved' = unsaved \cup {[id |-> sent + 1, channel |-> ch, at |-> clock]}
    /\ UNCHANGED <<clock, table, scroll>>

\* MessageBatcher::flush: one statement, in whatever order the handlers or the
\* consumers of several nodes get to it.  One that fails inserts nothing.
Insert(batch) ==
    /\ batch # {}
    /\ table' = table \cup batch
    /\ unsaved' = unsaved \ batch
    /\ UNCHANGED <<clock, sent, scroll>>

-----------------------------------------------------------------------------
(* get_channel_history *)

\* The limit of the query.
EffectiveLimit ==
    LET asked == IF limit = NoLimit THEN DefaultLimit ELSE limit
    IN  IF asked <= MaxLimit THEN asked ELSE MaxLimit

\* Mutant: the rows of the second of the oldest row once more.
MatchingUpTo == {m \in table : m.channel = channel /\ m.at <= before}

\* The rows of the channel before the timestamp.
Matching == {m \in table : m.channel = channel /\ m.at < before}

\* Mutant: ORDER BY created_at.
IsOldestPage(p, rows, n) ==
    /\ p \subseteq rows
    /\ p # rows => Cardinality(p) = n
    /\ Cardinality(p) <= n
    /\ \A m \in p, r \in rows \ p : m.at <= r.at

\* ORDER BY created_at DESC LIMIT n, which may cut a second anywhere.
IsPage(p, rows, n) ==
    /\ p \subseteq rows
    /\ p # rows => Cardinality(p) = n
    /\ Cardinality(p) <= n
    /\ \A m \in p, r \in rows \ p : r.at <= m.at

\* The last row of a page.
IsLast(m, p) == m \in p /\ \A r \in p : m.at <= r.at

\* A reader starts.
Open ==
    /\ reader = "idle"
    /\ reader' = "paging"
    /\ opened' = {m \in table : m.channel = channel}
    /\ UNCHANGED <<clock, sent, unsaved, table, channel, limit, before, page, shown, cuts>>

\* A query is answered.
Page(p) ==
    /\ reader = "paging"
    /\ EffectiveLimit >= 0
    /\ IsPage(p, Matching, EffectiveLimit)
    /\ page' = p
    /\ shown' = shown \cup page
    /\ IF p = {}
       THEN reader' = "done" /\ UNCHANGED <<before, cuts>>
       ELSE \E m \in p :
            /\ IsLast(m, p)
            /\ before' = m.at
            /\ cuts' = cuts \cup {m.at}
            /\ UNCHANGED reader
    /\ UNCHANGED <<clock, sent, unsaved, table, channel, limit, opened>>

\* LIMIT must not be negative, says Postgres, and the answer is a 500, as it is
\* when the database fails, after which the reader may ask again.
PageRefused ==
    /\ reader = "paging"
    /\ EffectiveLimit < 0
    /\ reader' = "failed"
    /\ UNCHANGED <<clock, sent, unsaved, table, channel, limit, before, page, shown, cuts, opened>>

NextPage == PageRefused \/ \E p \in SUBSET Matching : Page(p)

Next ==
    \/ Tick
    \/ \E ch \in Channels : Send(ch)
    \/ \E batch \in SUBSET unsaved : Insert(batch)
    \/ Open \/ NextPage

Spec == Init /\ [][Next]_vars

\* The database answers.  Nothing makes a message be sent or persisted, or a
\* reader start.
FairSpec == Spec /\ WF_vars(NextPage)

-----------------------------------------------------------------------------
(* Properties *)

\* A page is older throughout than the pages before it, whatever was inserted in
\* between, with whichever timestamps: no message is shown twice or out of order
\* (history.rs:43 and :55).
PagesGoBack == \A m \in page, r \in shown : m.at < r.at

\* Apart from messages of a second in which a page ended, which are on that page
\* or on none, a scroll that comes to its end has shown all that the table held
\* of the channel when it began, although older and newer messages came in all
\* the while.
OnlyCutsSkip ==
    (reader = "done" /\ EffectiveLimit > 0) =>
        \A m \in opened : m \in shown \/ m.at \in cuts

\* A scroll comes to its end, however many messages arrive meanwhile.
ScrollEnds == reader = "paging" ~> reader \in {"done", "failed"}
=============================================================================
