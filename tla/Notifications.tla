---------------------------- MODULE Notifications ----------------------------
(***************************************************************************)
(* How a WeCom message reaches the message index: the companion's bounded  *)
(* event journal, the driver's two readers of it (ListConversations and    *)
(* ReadMessages in internal/driver/wecom/driver.go), the ingest loop       *)
(* (Manager.ingestOnce) and the account's index (internal/index).          *)
(*                                                                         *)
(* The companion numbers its observations; only notifications enter the    *)
(* journal, UI changes take a number as well.  While the companion is down *)
(* notifications are lost.  The daemon crashes between any two steps and   *)
(* starts again with cursor 0.  A client of the daemon pages through the   *)
(* index at the same time.                                                 *)
(*                                                                         *)
(* The companion is android/companion; that Android starts its process     *)
(* again, and when, is external.                                           *)
(***************************************************************************)
EXTENDS Naturals, Sequences, FiniteSets

CONSTANTS
    Conv,           \* conversation keys
    UiChange,       \* a number that no notification took
    Capacity,       \* of the journal
    PageLimit,      \* events in a page (100)
    ListLimit,      \* conversations in a listing (500)
    ReadLimit,      \* rows in a page of ListMessages
    MaxSequence,    \* bound: observations of the companion
    MaxCrashes      \* bound: crashes of the companion and of the daemon

ASSUME LimitsArePositive ==
    {Capacity, PageLimit, ListLimit, ReadLimit} \subseteq Nat \ {0}

ASSUME BoundsAreNatural == {MaxSequence, MaxCrashes} \subseteq Nat

ASSUME UiChangeIsNoNotification == UiChange \notin [conv : Conv, titled : BOOLEAN]

VARIABLES
    observed,       \* what each number was given to, lost notifications too
    journal,        \* numbers of the retained notifications
    marks,          \* the ones with gapBefore
    up,             \* the companion answers
    file,           \* the index file, see FileState
    convs,          \* conversations it lists
    rows,           \* its messages: row number -> sequence of the notification
    gaps,           \* sequences of the messages with gap_before
    pc,             \* the step of ingestOnce; "down" without a daemon
    cursor,         \* runtime.cursor
    listing,        \* the conversations ListConversations returned
    page,           \* the events ReadMessages received
    pageGaps,       \* the ones that will be stored with gap_before
    after,          \* the last row the client has read
    seen,           \* the messages it has read
    crashes

companion == <<observed, journal, marks, up>>
index     == <<file, convs, rows, gaps>>
ingest    == <<pc, cursor, listing, page, pageGaps>>
client    == <<after, seen>>
vars      == <<companion, index, ingest, client, crashes>>

Notification == [conv : Conv, titled : BOOLEAN]

\* No file, a file without a schema, an unbound legacy index with and without
\* rows, and an index bound to this or to another account.
FileState == {"missing", "empty", "legacy", "legacyEmpty", "bound", "foreign"}

Last     == Len(observed)
ConvOf(n) == observed[n].conv
IsNote(n) == observed[n] # UiChange

Init ==
    /\ observed = <<>> /\ journal = {} /\ marks = {} /\ up = TRUE
    /\ file \in FileState \ {"empty", "bound"}
    /\ convs = {} /\ rows = <<>> /\ gaps = {}
    /\ pc = "idle" /\ cursor = 0 /\ listing = {} /\ page = {} /\ pageGaps = {}
    /\ after = 0 /\ seen = {} /\ crashes = 0

-----------------------------------------------------------------------------
(* The companion.                                                          *)

\* The oldest retained records beyond the capacity.
Overflow(j) == {n \in j : Cardinality({m \in j : m > n}) >= Capacity}

\* The first retained record of every conversation that lost a record.
Oldest(j, lost) ==
    {n \in j : /\ \E m \in lost : ConvOf(m)' = ConvOf(n)'
               /\ \A m \in j : ConvOf(m)' = ConvOf(n)' => n <= m}

\* Mutant: eviction drops the marker with the record.
KeptMarks(j, lost) == {}

MovedMarks(j, lost) == Oldest(j, lost)

\* BoundedEventJournal.add.
Journal(n, c) ==
    LET all  == journal \cup {n}
        kept == all \ Overflow(all)
        new  == IF \E m \in journal : ConvOf(m) = c THEN {} ELSE {n}
    IN  /\ journal' = kept
        /\ marks' = ((marks \cup new) \cap kept) \cup MovedMarks(kept, Overflow(all))

\* A notification is posted.  Nobody hears it while the companion is down.
Post(e) ==
    /\ Last < MaxSequence
    /\ observed' = Append(observed, e)
    /\ IF up THEN Journal(Last + 1, e.conv) ELSE UNCHANGED <<journal, marks>>
    /\ UNCHANGED <<up, index, ingest, client, crashes>>

UiChanges ==
    /\ up /\ Last < MaxSequence
    /\ observed' = Append(observed, UiChange)
    /\ UNCHANGED <<journal, marks, up, index, ingest, client, crashes>>

\* The journal lives in memory; the numbers of the next process are larger.
CompanionCrash ==
    /\ up /\ crashes < MaxCrashes
    /\ up' = FALSE /\ journal' = {} /\ marks' = {} /\ crashes' = crashes + 1
    /\ UNCHANGED <<observed, index, ingest, client>>

CompanionStart ==
    /\ ~up /\ up' = TRUE
    /\ UNCHANGED <<observed, journal, marks, index, ingest, client, crashes>>

-----------------------------------------------------------------------------
(* The two reads of the journal.                                           *)

\* Driver.ListConversations over allEvents, which pages through the journal:
\* conversations with a title, the ones with the latest notification first, up
\* to the limit.
AllEvents == journal
Titled   == {n \in AllEvents : observed[n].titled}
Later(c) == {d \in Conv \ {c} : \E m \in Titled : /\ ConvOf(m) = d
                                 /\ \A n \in Titled : ConvOf(n) = c => n < m}
Listed   == {c \in {ConvOf(n) : n \in Titled} : Cardinality(Later(c)) < ListLimit}

\* The events after the cursor, oldest first, up to the limit.
Page == {n \in journal : /\ n > cursor
                         /\ Cardinality({m \in journal : cursor < m /\ m < n}) < PageLimit}

\* complete of /v1/events: nothing after the cursor has been evicted.
Complete == \A n \in journal : cursor + 1 >= n \/ \E m \in journal : m < n /\ cursor + 1 >= m

\* An incomplete page gives its first event of every conversation a gap.
PageBoundary == {n \in page : \A m \in page : ConvOf(m) = ConvOf(n) => n <= m}

-----------------------------------------------------------------------------
(* index.Store: pin, open and initialize.                                  *)

\* validateMetadata: the owner in the index is this account.
Owned == file = "bound"

\* A database is bound in the transaction that creates its schema.  One that
\* holds rows of nobody known, or another account's, is refused.
Opens == file \in {"empty", "legacyEmpty"} \/ Owned

\* pinIndexPath creates the file of an ordinary open.
Pin ==
    /\ pc = "listed" /\ file = "missing" /\ file' = "empty"
    /\ UNCHANGED <<companion, convs, rows, gaps, ingest, client, crashes>>

Open ==
    /\ pc = "listed" /\ file # "missing"
    /\ IF Opens THEN file' = "bound" /\ pc' = "opened" ELSE file' = file /\ pc' = "idle"
    /\ UNCHANGED <<companion, convs, rows, gaps, cursor, listing, page,
                   pageGaps, client, crashes>>

\* The operator's offline command, under the state lock: an existing index
\* with rows and without an owner, and no other.
AdoptLegacyIndex ==
    /\ pc = "down" /\ file = "legacy"
    /\ file' = "bound"
    /\ UNCHANGED <<companion, convs, rows, gaps, ingest, client, crashes>>

-----------------------------------------------------------------------------
(* Manager.ingestOnce.  A call that fails ends the round.                  *)

ListConversations ==
    /\ pc = "idle" /\ up
    /\ listing' = Listed /\ pc' = "listed"
    /\ UNCHANGED <<companion, index, cursor, page, pageGaps, client, crashes>>

\* Mutant: the transaction is not committed.
RolledBack == convs

Upserted == convs \cup listing

UpsertConversations ==
    /\ pc = "opened"
    /\ convs' = Upserted /\ listing' = {} /\ pc' = "upserted"
    /\ UNCHANGED <<companion, file, rows, gaps, cursor, page, pageGaps,
                   client, crashes>>

\* The companion lists the page first ...
ReadMessages ==
    /\ pc = "upserted" /\ up
    /\ page' = Page /\ pageGaps' = Page \cap marks /\ pc' = "read"
    /\ UNCHANGED <<companion, index, cursor, listing, client, crashes>>

\* ... and then looks at the oldest record it retains.
ReadOldest ==
    /\ pc = "read" /\ up
    /\ pageGaps' = pageGaps \cup (IF Complete THEN {} ELSE PageBoundary)
    /\ pc' = "store"
    /\ UNCHANGED <<companion, index, cursor, listing, page, client, crashes>>

\* The companion is gone: the call returns an error.
CallFails ==
    /\ pc \in {"upserted", "read"} /\ ~up
    /\ pc' = "idle" /\ page' = {} /\ pageGaps' = {}
    /\ UNCHANGED <<companion, index, cursor, listing, client, crashes>>

Indexed == {rows[r] : r \in DOMAIN rows}

\* AddMessages: INSERT OR IGNORE in the order of the page, in a transaction.
NewRows == page \ Indexed
RowOf(n) == Len(rows) + Cardinality({m \in NewRows : m <= n})
Inserted == [r \in 1 .. (Len(rows) + Cardinality(NewRows)) |->
                IF r <= Len(rows) THEN rows[r] ELSE CHOOSE n \in NewRows : RowOf(n) = r]

\* A message of a conversation without a row breaks the foreign key.
Accepted == \A n \in NewRows : ConvOf(n) \in convs

CursorMoves == Accepted

AddMessages ==
    /\ pc = "store"
    /\ IF Accepted THEN rows' = Inserted /\ gaps' = gaps \cup pageGaps
                   ELSE UNCHANGED <<rows, gaps>>
    /\ cursor' = IF CursorMoves /\ page # {} THEN CHOOSE n \in page : \A m \in page : m <= n
                                           ELSE cursor
    /\ page' = {} /\ pageGaps' = {} /\ pc' = "idle"
    /\ UNCHANGED <<companion, file, convs, listing, client, crashes>>

DaemonCrash ==
    /\ pc # "down" /\ crashes < MaxCrashes
    /\ pc' = "down" /\ crashes' = crashes + 1
    /\ cursor' = 0 /\ listing' = {} /\ page' = {} /\ pageGaps' = {}
    /\ UNCHANGED <<companion, index, client>>

DaemonStart ==
    /\ pc = "down" /\ pc' = "idle"
    /\ UNCHANGED <<companion, index, cursor, listing, page, pageGaps, client, crashes>>

-----------------------------------------------------------------------------
(* Store.ListMessages, by a client that passes the last sequence it got.   *)

NextRows == {r \in DOMAIN rows : r > after /\ r <= after + ReadLimit}

ListMessages ==
    /\ pc # "down" /\ Owned /\ NextRows # {}
    /\ seen' = seen \cup {rows[r] : r \in NextRows}
    /\ after' = CHOOSE r \in NextRows : \A q \in NextRows : q <= r
    /\ UNCHANGED <<companion, index, ingest, crashes>>

-----------------------------------------------------------------------------
Ingest == \/ ListConversations \/ Pin \/ Open \/ UpsertConversations
          \/ ReadMessages \/ ReadOldest \/ CallFails \/ AddMessages

Next ==
    \/ \E e \in Notification : Post(e)
    \/ UiChanges \/ CompanionCrash \/ CompanionStart
    \/ Ingest \/ AdoptLegacyIndex \/ DaemonCrash \/ DaemonStart \/ ListMessages

Spec == Init /\ [][Next]_vars

\* The ingest loop runs every second for as long as the daemon does; systemd
\* restarts the daemon and Android the companion.
Fairness == WF_vars(Ingest) /\ WF_vars(DaemonStart) /\ WF_vars(CompanionStart)

FairSpec == Spec /\ Fairness

-----------------------------------------------------------------------------
(* Properties.                                                             *)

\* Types of the state: the journal and the index refer to notifications.
TypeOK ==
    /\ observed \in Seq(Notification \cup {UiChange})
    /\ marks \subseteq journal /\ up \in BOOLEAN
    /\ \A n \in journal \cup Indexed \cup page : n \in 1 .. Last /\ IsNote(n)
    /\ file \in FileState
    /\ convs \subseteq Conv /\ listing \subseteq Conv /\ pageGaps \subseteq page
    /\ pc \in {"down", "idle", "listed", "opened", "upserted", "read", "store"}
    /\ cursor \in 0 .. Last /\ after \in 0 .. Len(rows) /\ crashes \in 0 .. MaxCrashes

\* The notification of the same conversation that came right before n.
IsPrevious(m, n) ==
    /\ m < n /\ IsNote(m) /\ ConvOf(m) = ConvOf(n)
    /\ \A k \in m + 1 .. n - 1 : ~(IsNote(k) /\ ConvOf(k) = ConvOf(n))

\* A message is stored without gap_before only when the notification of its
\* conversation that came right before it is stored in an earlier row, and a
\* client that pages through the rows by the sequence it last saw has read that
\* one before: whatever the journal evicted, a crash lost or repeated, or a page
\* cut off leaves a visible gap.
NoSilentGap ==
    /\ \A r \in DOMAIN rows :
          rows[r] \in gaps \/ \E q \in 1 .. r - 1 : IsPrevious(rows[q], rows[r])
    /\ \A n \in seen \ gaps : \E m \in seen : IsPrevious(m, n)

\* ingestOnce stops at the next page: it has an event of a conversation that no
\* listing contains (it has no title, or too many are newer).
Stuck == \E n \in Page : n \notin Indexed /\ ConvOf(n) \notin convs \cup Listed
Refused == file \in {"legacy", "foreign"}

\* A retained notification is indexed or evicted in the end, unless the index is
\* refused for ever or a page stays unacceptable.
Collected ==
    []<>~(Stuck \/ Refused) =>
        \A n \in 1 .. MaxSequence : n \in journal ~> n \notin journal \/ n \in Indexed
=============================================================================
