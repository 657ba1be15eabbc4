----------------------- MODULE NotificationProofs -----------------------
(***************************************************************************)
(* NoSilentGap, for any number of conversations and notifications, any     *)
(* capacity, page sizes and crashes.                                       *)
(*                                                                         *)
(* A notification that follows another one of its conversation is told     *)
(* apart from one that does not on its whole way: in the journal by marks, *)
(* in a page by pageGaps, in the index by gaps.  IndexInv says for each    *)
(* place where the predecessor of an unmarked notification is.             *)
(***************************************************************************)
EXTENDS Notifications, FiniteSetTheorems, TLAPS

Reading == pc \in {"read", "store"}

Types ==
    /\ TypeOK
    /\ rows \in Seq(Nat) /\ IsFiniteSet(journal) /\ IsFiniteSet(page)
    /\ crashes \in Nat

\* The journal is the end of what was posted, less the UI changes; a record
\* without a mark follows another one in it.
Suffix ==
    /\ ~up => journal = {}
    /\ \A m \in journal, k \in 1 .. Last : m < k /\ IsNote(k) => k \in journal
    /\ \A n \in journal \ marks : \E m \in journal : IsPrevious(m, n)

\* What the cursor has passed is indexed.
Passed == \A n \in journal : n <= cursor => n \in Indexed

\* A page has no holes, and an event of it without a gap follows another one that
\* is there or indexed.
Paged ==
    /\ ~Reading => page = {}
    /\ \A m \in journal : cursor < m /\ (\E n \in page : m <= n) => m \in page
    /\ \A n \in page \ pageGaps : \E m \in page \cup Indexed : IsPrevious(m, n)

\* The same for the rows, in their order.
Followed ==
    \A r \in DOMAIN rows :
        rows[r] \in gaps \/ \E q \in 1 .. r - 1 : IsPrevious(rows[q], rows[r])

\* A client has read the rows up to the last one it knows.
Read == seen = {rows[r] : r \in 1 .. after}

IndexInv == Types /\ Suffix /\ Passed /\ Paged /\ Followed /\ Read

-----------------------------------------------------------------------------
(* Ranks in finite sets of numbers.                                        *)

\* The elements of a finite set of numbers have the ranks from 1 to its cardinality,
\* in their order.
LEMMA Ranks ==
    ASSUME NEW S \in SUBSET Nat, IsFiniteSet(S)
    PROVE  LET Rank(n) == Cardinality({m \in S : m <= n})
           IN  /\ Cardinality(S) \in Nat
               /\ \A n \in S : Rank(n) \in 1 .. Cardinality(S)
               /\ \A m, n \in S : m < n => Rank(m) < Rank(n)
               /\ \A r \in 1 .. Cardinality(S) : \E n \in S : Rank(n) = r
<1> DEFINE Below(n) == {m \in S : m <= n}
           Rank(n) == Cardinality(Below(n))
           R == [n \in S |-> Rank(n)]
<1>1. Cardinality(S) \in Nat
  BY FS_CardinalityType
<1>2. \A n \in S : IsFiniteSet(Below(n)) /\ Rank(n) \in Nat /\ Rank(n) <= Cardinality(S)
  <2>1. \A n \in S : Below(n) \in SUBSET S
    OBVIOUS
  <2> QED
    BY <2>1, FS_Subset, FS_CardinalityType
<1>3. \A n \in S : Rank(n) # 0
  <2> SUFFICES ASSUME NEW n \in S PROVE Rank(n) # 0
    OBVIOUS
  <2>1. n \in Below(n)
    OBVIOUS
  <2> QED
    BY <1>2, <2>1, FS_EmptySet
<1>4. \A n \in S : Rank(n) \in 1 .. Cardinality(S)
  BY <1>1, <1>2, <1>3
<1>5. ASSUME NEW m \in S, NEW n \in S, m < n PROVE Rank(m) < Rank(n)
  <2>1. Below(m) \in SUBSET Below(n) /\ n \in Below(n) /\ n \notin Below(m)
    <3>1. m \in Nat /\ n \in Nat /\ \A k \in S : k \in Nat
      OBVIOUS
    <3>2. \A k \in S : k <= m => k <= n
      BY <1>5, <3>1
    <3>3. ~(n <= m) /\ n <= n
      BY <1>5, <3>1
    <3> QED
      BY <3>2, <3>3
  <2>2. Rank(m) <= Rank(n) /\ (Rank(n) = Rank(m) => Below(n) = Below(m))
    BY <1>2, <2>1, FS_Subset
  <2>3. Rank(n) # Rank(m)
    BY <2>1, <2>2
  <2>4. Rank(m) \in Nat /\ Rank(n) \in Nat
    BY <1>2
  <2> HIDE DEF Rank
  <2> QED
    BY <2>2, <2>3, <2>4
<1>6. R \in Injection(S, 1 .. Cardinality(S))
  <2> HIDE DEF Rank
  <2>1. R \in [S -> 1 .. Cardinality(S)]
    BY <1>4
  <2>2. ASSUME NEW m \in S, NEW n \in S, R[m] = R[n] PROVE m = n
    <3>1. Rank(m) = Rank(n)
      BY <2>2
    <3>2. ~(m < n) /\ ~(n < m)
      BY <1>4, <1>5, <3>1
    <3> QED
      BY <3>2
  <2> QED
    BY <2>1, <2>2 DEF Injection, IsInjective
<1>7. IsFiniteSet(1 .. Cardinality(S)) /\ Cardinality(1 .. Cardinality(S)) = Cardinality(S)
  BY <1>1, FS_Interval
<1>8. R \in Surjection(S, 1 .. Cardinality(S))
  BY <1>6, <1>7, FS_Injection
<1>9. \A r \in 1 .. Cardinality(S) : \E n \in S : Rank(n) = r
  <2> HIDE DEF Rank
  <2> QED
    BY <1>8 DEF Surjection
<1> QED
  BY <1>1, <1>4, <1>5, <1>9

\* A finite set of numbers that is not empty has a greatest element.
LEMMA Greatest ==
    ASSUME NEW S \in SUBSET Nat, IsFiniteSet(S), S # {}
    PROVE  \E n \in S : \A m \in S : m <= n
<1> DEFINE Below(n) == {m \in S : m <= n}
<1>1. Cardinality(S) \in Nat /\ Cardinality(S) # 0
  BY FS_CardinalityType, FS_EmptySet
<1>2. PICK n \in S : Cardinality(Below(n)) = Cardinality(S)
  BY <1>1, Ranks
<1>3. Below(n) \in SUBSET S
  OBVIOUS
<1>4. S = Below(n)
  BY <1>2, <1>3, FS_Subset
<1> QED
  BY <1>4

-----------------------------------------------------------------------------
(* Which steps write what.                                                 *)

\* All other steps leave the variable alone.
Writers ==
    /\ observed' = observed \/ UiChanges \/ \E e \in Notification : Post(e)
    /\ journal' = journal \/ CompanionCrash \/ \E e \in Notification : Post(e)
    /\ marks' = marks \/ CompanionCrash \/ \E e \in Notification : Post(e)
    /\ up' = up \/ CompanionCrash \/ CompanionStart
    /\ file' = file \/ Pin \/ Open \/ AdoptLegacyIndex
    /\ convs' = convs \/ UpsertConversations
    /\ rows' = rows \/ AddMessages
    /\ gaps' = gaps \/ AddMessages
    /\ cursor' = cursor \/ AddMessages \/ DaemonCrash
    /\ listing' = listing \/ ListConversations \/ UpsertConversations \/ DaemonCrash
    /\ page' = page \/ ReadMessages \/ CallFails \/ AddMessages \/ DaemonCrash
    /\ pageGaps' = pageGaps \/ ReadMessages \/ ReadOldest \/ CallFails \/ AddMessages \/ DaemonCrash
    /\ after' = after \/ ListMessages
    /\ seen' = seen \/ ListMessages
    /\ crashes' = crashes \/ CompanionCrash \/ DaemonCrash

\* How the ingest loop comes to its steps.
PcMove ==
    /\ pc' \in {"down", "idle", "listed", "opened", "upserted", "read", "store"} \/ pc' = pc
    /\ pc' = pc \/ pc' \notin {"read", "store"} \/ ReadMessages \/ ReadOldest
    /\ pc' = pc \/ pc \notin {"read", "store"}
         \/ ReadOldest \/ CallFails \/ AddMessages \/ DaemonCrash

\* Every step writes only what Writers grants it, and moves the loop so.
LEMMA WhoWrites == [Next]_vars => Writers /\ PcMove
<1> USE DEF companion, index, ingest, client, Writers, PcMove
<1>1. ASSUME \E e \in Notification : Post(e) PROVE Writers /\ PcMove
  BY <1>1, Zenon DEF Post
<1>2. ASSUME UiChanges \/ CompanionCrash \/ CompanionStart PROVE Writers /\ PcMove
  BY <1>2, Zenon DEF UiChanges, CompanionCrash, CompanionStart
<1>3. ASSUME ListConversations \/ Pin \/ Open \/ UpsertConversations PROVE Writers /\ PcMove
  BY <1>3 DEF ListConversations, Pin, Open, UpsertConversations
<1>4. ASSUME ReadMessages \/ ReadOldest \/ CallFails \/ AddMessages PROVE Writers /\ PcMove
  BY <1>4 DEF ReadMessages, ReadOldest, CallFails, AddMessages
<1>5. ASSUME AdoptLegacyIndex \/ DaemonCrash \/ DaemonStart \/ ListMessages PROVE Writers /\ PcMove
  BY <1>5 DEF AdoptLegacyIndex, DaemonCrash, DaemonStart, ListMessages
<1>6. ASSUME UNCHANGED vars PROVE Writers /\ PcMove
  BY <1>6, Zenon DEF vars
<1> QED
  BY <1>1, <1>2, <1>3, <1>4, <1>5, <1>6, Zenon DEF Next, Ingest

-----------------------------------------------------------------------------
(* Observations.                                                           *)

\* Numbers are given once: what was observed stays.
LEMMA ObservedGrows ==
    ASSUME Types, [Next]_vars
    PROVE  /\ observed' \in Seq(Notification \cup {UiChange})
           /\ Last \in Nat /\ Last' \in Nat /\ Last <= Last'
           /\ \A k \in 1 .. Last : observed'[k] = observed[k]
           /\ \A e \in Notification : Post(e) =>
                Last' = Last + 1 /\ observed'[Last + 1] = e /\ IsNote(Last)'
<1>1. observed \in Seq(Notification \cup {UiChange})
  BY DEF Types, TypeOK
<1>2. CASE observed' = observed \/ UiChanges
  <2>1. observed' = observed \/ observed' = Append(observed, UiChange)
    BY <1>2 DEF UiChanges
  <2>2. \A e \in Notification : Post(e) => e = UiChange
    <3> SUFFICES ASSUME NEW e \in Notification, Post(e) PROVE e = UiChange
      OBVIOUS
    <3>1. observed' = Append(observed, e)
      BY DEF Post
    <3> QED
      BY <1>1, <2>1, <3>1
  <2>3. UiChange \notin Notification
    BY UiChangeIsNoNotification DEF Notification
  <2> QED
    BY <1>1, <2>1, <2>2, <2>3 DEF Last
<1>3. CASE \E e \in Notification : Post(e)
  <2>1. PICK e \in Notification : observed' = Append(observed, e)
    BY <1>3 DEF Post
  <2>2. observed'[Last + 1] = e /\ Last \in Nat /\ Last' = Last + 1
    BY <1>1, <2>1 DEF Last
  <2>3. \A k \in 1 .. Last : observed'[k] = observed[k]
    BY <1>1, <2>1 DEF Last
  <2>4. ASSUME NEW d \in Notification, Post(d) PROVE d = e
    <3>1. observed' = Append(observed, d)
      BY <2>4 DEF Post
    <3>2. observed'[Last + 1] = d
      BY <1>1, <3>1 DEF Last
    <3> QED
      BY <2>2, <3>2
  <2>5. IsNote(Last)'
    <3>1. e # UiChange
      BY UiChangeIsNoNotification DEF Notification
    <3> QED
      BY <2>2, <3>1 DEF IsNote
  <2>6. observed' \in Seq(Notification \cup {UiChange})
    BY <1>1, <2>1
  <2> QED
    BY <2>2, <2>3, <2>4, <2>5, <2>6
<1> QED
  BY <1>2, <1>3, WhoWrites DEF Writers

\* So the predecessor of a notification stays its predecessor.
LEMMA PreviousStays ==
    ASSUME Types, [Next]_vars, NEW m \in 1 .. Last, NEW n \in 1 .. Last, IsPrevious(m, n)
    PROVE  IsPrevious(m, n)'
<1>1. \A k \in 1 .. Last : observed'[k] = observed[k]
  BY ObservedGrows
<1>2. \A k \in m + 1 .. n - 1 : k \in 1 .. Last
  BY ObservedGrows
<1> QED
  BY <1>1, <1>2 DEF IsPrevious, IsNote, ConvOf

-----------------------------------------------------------------------------
(* The journal.                                                            *)

\* Eviction takes the oldest records, and never the newest.
LEMMA Evictions ==
    ASSUME NEW j \in SUBSET Nat, IsFiniteSet(j)
    PROVE  /\ \A m, n \in j : m <= n /\ n \in Overflow(j) => m \in Overflow(j)
           /\ \A n \in j : (\A m \in j : m <= n) => n \notin Overflow(j)
<1> DEFINE Above(n) == {m \in j : m > n}
<1>1. ASSUME NEW m \in j, NEW n \in j, m <= n, Cardinality(Above(n)) >= Capacity
      PROVE  Cardinality(Above(m)) >= Capacity
  <2>1. Above(n) \in SUBSET Above(m) /\ Above(m) \in SUBSET j
    <3>1. m \in Nat /\ n \in Nat /\ \A k \in j : k \in Nat
      OBVIOUS
    <3>2. \A k \in j : k > n => k > m
      BY <1>1, <3>1
    <3> QED
      BY <3>2
  <2>2. IsFiniteSet(Above(m))
    BY <2>1, FS_Subset
  <2>3. /\ Cardinality(Above(n)) <= Cardinality(Above(m)) /\ IsFiniteSet(Above(n))
        /\ Cardinality(Above(m)) \in Nat
    BY <2>1, <2>2, FS_Subset, FS_CardinalityType
  <2>4. Cardinality(Above(n)) \in Nat /\ Capacity \in Nat
    BY <2>3, FS_CardinalityType, LimitsArePositive
  <2> HIDE DEF Above
  <2> QED
    BY <1>1, <2>3, <2>4
<1>2. ASSUME NEW n \in j, \A m \in j : m <= n PROVE ~(Cardinality(Above(n)) >= Capacity)
  <2>1. Above(n) = {}
    <3>1. n \in Nat /\ \A k \in j : k \in Nat
      OBVIOUS
    <3>2. \A k \in j : ~(k > n)
      BY <1>2, <3>1
    <3> QED
      BY <3>2
  <2> QED
    BY <2>1, FS_EmptySet, LimitsArePositive
<1> QED
  BY <1>1, <1>2 DEF Overflow

\* A conversation of a new record without a mark has its latest record before it in
\* the journal.
LEMMA SuffixPost ==
    ASSUME Types, Suffix, NEW e \in Notification, Post(e)
    PROVE  Suffix' /\ journal' \in SUBSET (journal \cup {Last + 1})
<1> DEFINE all  == journal \cup {Last + 1}
           kept == all \ Overflow(all)
           lost == Overflow(all)
<1>0. /\ Last \in Nat /\ Last' = Last + 1 /\ observed'[Last + 1] = e /\ observed'[Last + 1] # UiChange
      /\ \A k \in 1 .. Last : observed'[k] = observed[k]
      /\ journal \in SUBSET (1 .. Last) /\ \A k \in journal : IsNote(k)
  BY ObservedGrows DEF Types, TypeOK, Next, IsNote
<1>1. CASE ~up
  <2>1. journal = {} /\ journal' = journal /\ marks' = marks /\ up' = up
    BY <1>1 DEF Suffix, Post
  <2> QED
    BY <2>1 DEF Suffix
<1>2. CASE up
  <2>1. /\ up' = up /\ journal' = kept
        /\ marks' = ((marks \cup (IF \E m \in journal : ConvOf(m) = e.conv THEN {} ELSE {Last + 1}))
                       \cap kept) \cup Oldest(kept, lost)
    BY <1>2, Zenon DEF Post, Journal, MovedMarks
  <2>2. all \in SUBSET Nat /\ IsFiniteSet(all) /\ \A k \in all : k <= Last + 1
    BY <1>0, FS_AddElement DEF Types
  <2>3. /\ \A m, n \in all : m <= n /\ n \in lost => m \in lost
        /\ Last + 1 \in kept
    BY <1>0, <2>2, Evictions
  <2>4. ASSUME NEW m \in journal', NEW k \in 1 .. Last', m < k, IsNote(k)'
        PROVE  k \in journal'
    <3>1. m \in all /\ m \notin lost
      BY <2>1
    <3>2. k \in all
      <4>1. CASE k = Last + 1
        BY <4>1
      <4>2. CASE k # Last + 1
        <5>1. k \in 1 .. Last /\ IsNote(k) /\ m \in journal
          BY <1>0, <2>4, <3>1, <4>2 DEF IsNote
        <5> QED
          BY <2>4, <5>1 DEF Suffix
      <4> QED
        BY <4>1, <4>2
    <3>3. k \notin lost
      BY <2>2, <2>3, <2>4, <3>1, <3>2
    <3> QED
      BY <2>1, <3>2, <3>3
  <2>5. ASSUME NEW n \in journal' \ marks'
        PROVE  \E m \in journal' : IsPrevious(m, n)'
    <3>1. n \in all /\ n \notin lost /\ n \notin Oldest(kept, lost)
      BY <2>1
    <3>2. PICK m \in journal : IsPrevious(m, n)'
      <4>1. CASE n = Last + 1
        <5> DEFINE S == {k \in journal : ConvOf(k) = e.conv}
        <5>1. S # {}
          BY <2>1, <3>1, <4>1
        <5>2. S \in SUBSET journal /\ S \in SUBSET Nat /\ IsFiniteSet(S)
          <6>1. S \in SUBSET journal /\ journal \in SUBSET Nat
            BY <1>0
          <6> QED
            BY <6>1, FS_Subset DEF Types
        <5>3. PICK m \in S : \A k \in S : k <= m
          BY <5>1, <5>2, Greatest
        <5>4. m \in 1 .. Last /\ m < n /\ IsNote(m)' /\ ConvOf(m)' = ConvOf(n)'
          <6>1. m \in journal /\ ConvOf(m) = e.conv
            BY <5>3
          <6>2. m \in 1 .. Last /\ observed'[m] = observed[m] /\ IsNote(m)
            BY <1>0, <6>1
          <6>3. observed'[n] = e
            BY <1>0, <4>1
          <6> QED
            BY <1>0, <4>1, <6>1, <6>2, <6>3 DEF ConvOf, IsNote
        <5>5. ASSUME NEW k \in m + 1 .. n - 1, IsNote(k)', ConvOf(k)' = ConvOf(n)'
              PROVE  FALSE
          <6>1. k \in 1 .. Last /\ IsNote(k) /\ ConvOf(k) = e.conv /\ m < k
            BY <1>0, <4>1, <5>4, <5>5 DEF IsNote, ConvOf
          <6>2. k \in S
            BY <6>1 DEF Suffix
          <6> QED
            BY <5>3, <5>4, <6>1, <6>2
        <5> QED
          BY <5>4, <5>5 DEF IsPrevious
      <4>2. CASE n # Last + 1
        <5>1. n \in journal \ marks
          BY <2>1, <3>1, <4>2
        <5>2. PICK m \in journal : IsPrevious(m, n)
          BY <5>1 DEF Suffix
        <5> QED
          BY <1>0, <5>1, <5>2, PreviousStays DEF Next
      <4> QED
        BY <4>1, <4>2
    <3>3. m \notin lost
      <4>1. SUFFICES ASSUME m \in lost PROVE n \in Oldest(kept, lost)
        BY <3>1
      <4>2. ConvOf(m)' = ConvOf(n)' /\ m < n
        BY <3>2 DEF IsPrevious
      <4>3. ASSUME NEW k \in kept, ConvOf(k)' = ConvOf(n)' PROVE n <= k
        <5>1. k \in Nat /\ m \in Nat /\ n \in Nat /\ k \in 1 .. Last' /\ IsNote(k)'
          BY <1>0 , <2>2, <3>1, <4>3 DEF IsNote
        <5>2. ~(k <= m)
          BY <2>3, <4>1, <4>3
        <5>3. ~(k \in m + 1 .. n - 1)
          BY <3>2, <4>3, <5>1 DEF IsPrevious
        <5> QED
          BY <5>1, <5>2, <5>3
      <4> QED
        BY <3>1, <4>1, <4>2, <4>3 DEF Oldest
    <3> QED
      BY <2>1, <3>2, <3>3
  <2> HIDE DEF all, kept, lost
  <2>6. up'
    BY <1>2, <2>1
  <2> QED
    BY <2>1, <2>4, <2>5, <2>6 DEF Suffix, all, kept
<1> QED
  BY <1>1, <1>2

\* Every step keeps the journal the end of what was posted.
LEMMA SuffixStep ==
    ASSUME Types, Suffix, [Next]_vars
    PROVE  Suffix'
<1>1. CASE \E e \in Notification : Post(e)
  BY <1>1, SuffixPost
<1>2. CASE CompanionCrash
  BY <1>2 DEF CompanionCrash, Suffix
<1>3. CASE ~CompanionCrash /\ ~\E e \in Notification : Post(e)
  <2>1. journal' = journal /\ marks' = marks /\ (up' = up \/ up')
    BY <1>3, WhoWrites DEF Writers, CompanionStart
  <2>2. /\ journal \in SUBSET (1 .. Last) /\ Last \in Nat
        /\ \A k \in 1 .. Last : observed'[k] = observed[k]
    BY ObservedGrows DEF Types, TypeOK
  <2>3. \A k \in 1 .. Last' : IsNote(k)' => k \in 1 .. Last /\ IsNote(k)
    <3>1. observed' = observed \/ observed' = Append(observed, UiChange)
      BY <1>3, WhoWrites DEF Writers, UiChanges
    <3>2. observed \in Seq(Notification \cup {UiChange})
      BY DEF Types, TypeOK
    <3> QED
      BY <2>2, <3>1, <3>2 DEF IsNote, Last
  <2>4. \A n \in journal' \ marks' : \E m \in journal' : IsPrevious(m, n)'
    BY <2>1, <2>2, PreviousStays DEF Suffix
  <2>5. \A m \in journal', k \in 1 .. Last' : m < k /\ IsNote(k)' => k \in journal'
    BY <2>1, <2>3 DEF Suffix
  <2> QED
    BY <2>1, <2>4, <2>5 DEF Suffix
<1> QED
  BY <1>1, <1>2, <1>3

-----------------------------------------------------------------------------
(* The index.                                                              *)

\* A stored page goes after the rows that are there, its new events in their order.
LEMMA RowsGrow ==
    ASSUME Types, AddMessages, Accepted
    PROVE  /\ rows' \in Seq(Nat) /\ Len(rows') = Len(rows) + Cardinality(NewRows)
           /\ Cardinality(NewRows) \in Nat
           /\ \A r \in 1 .. Len(rows) : rows'[r] = rows[r]
           /\ \A r \in 1 .. Len(rows') : r > Len(rows) => rows'[r] \in NewRows /\ RowOf(rows'[r]) = r
           /\ \A n \in NewRows : RowOf(n) \in 1 .. Len(rows') /\ rows'[RowOf(n)] = n
           /\ \A m, n \in NewRows : m < n => RowOf(m) < RowOf(n)
<1> DEFINE Rank(n) == Cardinality({m \in NewRows : m <= n})
           N == Cardinality(NewRows)
<1>1. rows' = Inserted /\ rows \in Seq(Nat) /\ Len(rows) \in Nat
  BY DEF AddMessages, Types
<1>2. NewRows \in SUBSET Nat /\ IsFiniteSet(NewRows)
  <2>1. NewRows \in SUBSET page /\ page \in SUBSET Nat
    BY DEF NewRows, Types, TypeOK, Last
  <2> QED
    BY <2>1, FS_Subset DEF Types
<1>3. /\ N \in Nat
      /\ \A n \in NewRows : Rank(n) \in 1 .. N
      /\ \A m, n \in NewRows : m < n => Rank(m) < Rank(n)
      /\ \A r \in 1 .. N : \E n \in NewRows : Rank(n) = r
  BY <1>2, Ranks
<1>4. \A n \in NewRows : RowOf(n) = Len(rows) + Rank(n)
  BY DEF RowOf
<1> HIDE DEF Rank, N
<1>5. \A m, n \in NewRows : RowOf(m) = RowOf(n) => m = n
  BY <1>1, <1>2, <1>3, <1>4
<1>6. \A r \in Len(rows) + 1 .. Len(rows) + N : \E n \in NewRows : RowOf(n) = r
  <2> SUFFICES ASSUME NEW r \in Len(rows) + 1 .. Len(rows) + N
               PROVE  \E n \in NewRows : RowOf(n) = r
    OBVIOUS
  <2>1. r - Len(rows) \in 1 .. N
    BY <1>1, <1>3
  <2>2. PICK n \in NewRows : Rank(n) = r - Len(rows)
    BY <1>3, <2>1
  <2> QED
    BY <1>1, <1>4, <2>2
<1>7. Inserted = [r \in 1 .. (Len(rows) + N) |->
                    IF r <= Len(rows) THEN rows[r] ELSE CHOOSE n \in NewRows : RowOf(n) = r]
  BY DEF Inserted, N
<1>8. \A r \in Len(rows) + 1 .. Len(rows) + N : rows'[r] \in NewRows /\ RowOf(rows'[r]) = r
  <2> SUFFICES ASSUME NEW r \in Len(rows) + 1 .. Len(rows) + N
               PROVE  rows'[r] \in NewRows /\ RowOf(rows'[r]) = r
    OBVIOUS
  <2>1. rows'[r] = CHOOSE n \in NewRows : RowOf(n) = r
    BY <1>1, <1>3, <1>7
  <2>2. \E n \in NewRows : RowOf(n) = r
    BY <1>6
  <2> QED
    BY <2>1, <2>2
<1>9. \A r \in 1 .. Len(rows) : rows'[r] = rows[r]
  BY <1>1, <1>3, <1>7
<1>10. rows' \in Seq(Nat) /\ Len(rows') = Len(rows) + N
  <2>1. \A r \in 1 .. Len(rows) + N : rows'[r] \in Nat
    <3> SUFFICES ASSUME NEW r \in 1 .. Len(rows) + N PROVE rows'[r] \in Nat
      OBVIOUS
    <3>1. CASE r <= Len(rows)
      BY <1>1, <1>9, <3>1
    <3>2. CASE r > Len(rows)
      <4>1. r \in Len(rows) + 1 .. Len(rows) + N
        BY <1>1, <1>3, <3>2
      <4> QED
        BY <1>2, <1>8, <4>1
    <3> QED
      BY <1>1, <3>1, <3>2
  <2>2. rows' = [r \in 1 .. Len(rows) + N |-> rows'[r]] /\ Len(rows) + N \in Nat
    BY <1>1, <1>3, <1>7
  <2> QED
    BY <2>1, <2>2
<1>11. \A n \in NewRows : RowOf(n) \in 1 .. Len(rows) + N /\ rows'[RowOf(n)] = n
  <2> SUFFICES ASSUME NEW n \in NewRows
               PROVE  RowOf(n) \in 1 .. Len(rows) + N /\ rows'[RowOf(n)] = n
    OBVIOUS
  <2>1. RowOf(n) \in Len(rows) + 1 .. Len(rows) + N
    BY <1>1, <1>3, <1>4
  <2> QED
    BY <1>1, <1>3, <1>5, <1>8, <2>1
<1>12. \A m, n \in NewRows : m < n => RowOf(m) < RowOf(n)
  BY <1>1, <1>3, <1>4
<1>13. \A r \in 1 .. Len(rows') : r > Len(rows) => r \in Len(rows) + 1 .. Len(rows) + N
  BY <1>1, <1>3, <1>10
<1> QED
  BY <1>3, <1>8, <1>9, <1>10, <1>11, <1>12, <1>13 DEF N

\* What is indexed stays, and a stored page is indexed.
LEMMA IndexGrows ==
    ASSUME Types, [Next]_vars
    PROVE  /\ Indexed \subseteq Indexed' /\ Indexed' \subseteq Indexed \cup page
           /\ AddMessages /\ Accepted => page \subseteq Indexed'
<1>0. rows \in Seq(Nat) /\ Indexed = {rows[r] : r \in 1 .. Len(rows)}
  BY DEF Types, Indexed
<1>1. CASE AddMessages /\ Accepted
  <2>0. /\ rows' \in Seq(Nat) /\ Len(rows') = Len(rows) + Cardinality(NewRows)
        /\ Cardinality(NewRows) \in Nat
        /\ \A r \in 1 .. Len(rows) : rows'[r] = rows[r]
        /\ \A r \in 1 .. Len(rows') : r > Len(rows) => rows'[r] \in NewRows
        /\ \A n \in NewRows : RowOf(n) \in 1 .. Len(rows') /\ rows'[RowOf(n)] = n
    BY <1>1, RowsGrow
  <2> HIDE DEF Indexed, NewRows
  <2>1. /\ Indexed' = {rows'[r] : r \in 1 .. Len(rows')}
        /\ \A r \in 1 .. Len(rows) : r \in 1 .. Len(rows') /\ rows'[r] = rows[r]
    <3>1. Len(rows) <= Len(rows') /\ Len(rows) \in Nat /\ Len(rows') \in Nat
      BY <1>0, <2>0
    <3>2. DOMAIN rows' = 1 .. Len(rows')
      BY <2>0
    <3> QED
      BY <2>0, <3>1, <3>2 DEF Indexed
  <2>2. \A n \in NewRows : n \in Indexed'
    BY <2>0, <2>1
  <2>3. ASSUME NEW r \in 1 .. Len(rows') PROVE rows'[r] \in Indexed \cup NewRows
    <3>1. CASE r <= Len(rows)
      <4>1. r \in 1 .. Len(rows)
        BY <1>0, <3>1
      <4> QED
        BY <1>0, <2>0, <4>1
    <3>2. CASE r > Len(rows)
      BY <2>0, <3>2
    <3>3. Len(rows) \in Nat /\ r \in Nat
      BY <1>0
    <3> QED
      BY <3>1, <3>2, <3>3
  <2>4. NewRows = page \ Indexed
    BY DEF NewRows
  <2> QED
    BY <1>0, <2>1, <2>2, <2>3, <2>4
<1>2. CASE ~(AddMessages /\ Accepted)
  <2>1. rows' = rows
    BY <1>2, WhoWrites DEF Writers, AddMessages
  <2> QED
    BY <1>2, <2>1 DEF Indexed
<1> QED
  BY <1>1, <1>2

\* The last row of a reply: there is none, or the client has asked for more and got
\* all of the next rows up to it.
LEMMA Furthest ==
    ASSUME Types, ListMessages
    PROVE  /\ after' \in 1 .. Len(rows) /\ after < after'
           /\ NextRows = after + 1 .. after'
<1>1. Len(rows) \in Nat /\ DOMAIN rows = 1 .. Len(rows) /\ after \in Nat /\ ReadLimit \in Nat
  BY LimitsArePositive DEF Types, TypeOK
<1>2. NextRows \in SUBSET Nat /\ NextRows # {}
  BY <1>1 DEF NextRows, ListMessages
<1>3. IsFiniteSet(NextRows)
  <2>1. NextRows \in SUBSET (1 .. Len(rows)) /\ IsFiniteSet(1 .. Len(rows))
    BY <1>1, FS_Interval DEF NextRows
  <2> QED
    BY <2>1, FS_Subset
<1>4. \E r \in NextRows : \A q \in NextRows : q <= r
  BY <1>2, <1>3, Greatest
<1>5. after' \in NextRows /\ \A q \in NextRows : q <= after'
  BY <1>4 DEF ListMessages
<1>6. \A q \in after + 1 .. after' : q \in NextRows
  BY <1>1, <1>5 DEF NextRows
<1>7. \A q \in NextRows : q \in after + 1 .. after'
  BY <1>1, <1>5 DEF NextRows
<1> QED
  BY <1>1, <1>5, <1>6, <1>7 DEF NextRows

\* Every step keeps the types.
LEMMA TypesStep ==
    ASSUME Types, [Next]_vars
    PROVE  Types'
<1>0. /\ Writers /\ PcMove
      /\ observed' \in Seq(Notification \cup {UiChange})
      /\ Last \in Nat /\ Last' \in Nat /\ Last <= Last'
      /\ \A k \in 1 .. Last : observed'[k] = observed[k]
  BY WhoWrites, ObservedGrows
<1>1. \A n \in 1 .. Last : IsNote(n) => n \in 1 .. Last' /\ IsNote(n)'
  BY <1>0 DEF IsNote
<1>2. /\ \A n \in journal' : n \in 1 .. Last' /\ IsNote(n)'
      /\ marks' \subseteq journal' /\ IsFiniteSet(journal')
  <2>1. ASSUME NEW e \in Notification, Post(e)
        PROVE  /\ \A n \in journal' : n \in 1 .. Last' /\ IsNote(n)'
               /\ marks' \subseteq journal' /\ IsFiniteSet(journal')
    <3>1. CASE ~up
      <4>1. journal' = journal /\ marks' = marks
        BY <2>1, <3>1 DEF Post
      <4> QED
        BY <1>1, <4>1 DEF Types, TypeOK
    <3>2. CASE up
      <4> DEFINE all  == journal \cup {Last + 1}
                 kept == all \ Overflow(all)
      <4>1. /\ journal' = kept
            /\ \E new : marks' = ((marks \cup new) \cap kept) \cup Oldest(kept, Overflow(all))
        BY <2>1, <3>2, Zenon DEF Post, Journal, MovedMarks
      <4>2. IsFiniteSet(all)
        BY FS_AddElement DEF Types
      <4>3. IsFiniteSet(kept)
        BY <4>2, FS_Subset
      <4>4. marks' \subseteq kept
        BY <4>1 DEF Oldest
      <4>5. Last' = Last + 1 /\ IsNote(Last)'
        BY <2>1, ObservedGrows DEF Next
      <4>6. \A n \in all : n \in 1 .. Last' /\ IsNote(n)'
        <5>1. \A n \in journal : n \in 1 .. Last' /\ IsNote(n)'
          BY <1>1 DEF Types, TypeOK
        <5>2. Last + 1 \in 1 .. Last' /\ observed'[Last + 1] # UiChange
          BY <1>0, <4>5 DEF IsNote
        <5> QED
          BY <5>1, <5>2 DEF IsNote
      <4> QED
        BY <4>1, <4>3, <4>4, <4>6
    <3> QED
      BY <3>1, <3>2
  <2>2. CASE CompanionCrash
    BY <2>2, FS_EmptySet DEF CompanionCrash
  <2>3. CASE journal' = journal /\ marks' = marks
    BY <1>1, <2>3 DEF Types, TypeOK
  <2> QED
    BY <1>0, <2>1, <2>2, <2>3 DEF Writers, CompanionCrash
<1>3. /\ \A n \in page' : n \in 1 .. Last' /\ IsNote(n)'
      /\ pageGaps' \subseteq page' /\ IsFiniteSet(page')
  <2>1. CASE ReadMessages
    <3>1. page' \in SUBSET journal /\ pageGaps' \subseteq page'
      BY <2>1 DEF ReadMessages, Page
    <3>2. IsFiniteSet(page')
      BY <3>1, FS_Subset DEF Types
    <3> QED
      BY <1>1, <3>1, <3>2 DEF Types, TypeOK
  <2>2. CASE ReadOldest
    BY <1>1, <2>2 DEF ReadOldest, PageBoundary, Types, TypeOK
  <2>3. CASE CallFails \/ AddMessages \/ DaemonCrash
    BY <2>3, FS_EmptySet DEF CallFails, AddMessages, DaemonCrash
  <2>4. CASE page' = page /\ pageGaps' = pageGaps
    BY <1>1, <2>4 DEF Types, TypeOK
  <2> QED
    BY <1>0, <2>1, <2>2, <2>3, <2>4 DEF Writers
<1>4. /\ \A n \in Indexed' : n \in 1 .. Last' /\ IsNote(n)'
      /\ rows' \in Seq(Nat) /\ Len(rows) <= Len(rows')
  <2>1. Indexed' \subseteq Indexed \cup page
    BY IndexGrows
  <2>2. rows' \in Seq(Nat) /\ Len(rows) <= Len(rows')
    <3>1. CASE AddMessages /\ Accepted
      <4>1. Len(rows) \in Nat
        BY DEF Types
      <4> QED
        BY <3>1, <4>1, RowsGrow
    <3>2. CASE ~(AddMessages /\ Accepted)
      <4>1. rows' = rows
        BY <1>0, <3>2 DEF Writers, AddMessages
      <4> QED
        BY <4>1 DEF Types
    <3> QED
      BY <3>1, <3>2
  <2> QED
    BY <1>1, <2>1, <2>2 DEF Types, TypeOK
<1>5. cursor' \in 0 .. Last'
  <2>1. CASE AddMessages
    <3>1. page # {} => \E n \in page : \A m \in page : m <= n
      <4>1. page \in SUBSET Nat /\ IsFiniteSet(page)
        BY DEF Types, TypeOK, Last
      <4> QED
        BY <4>1, Greatest
    <3>2. cursor' = cursor \/ cursor' \in page
      BY <2>1, <3>1 DEF AddMessages
    <3> QED
      BY <1>0, <3>2 DEF Types, TypeOK
  <2>2. CASE DaemonCrash \/ cursor' = cursor
    BY <1>0, <2>2 DEF DaemonCrash, Types, TypeOK
  <2> QED
    BY <1>0, <2>1, <2>2 DEF Writers
<1>6. after' \in 0 .. Len(rows')
  <2>1. Len(rows) \in Nat /\ Len(rows') \in Nat /\ rows \in Seq(Nat)
    BY <1>4 DEF Types
  <2>2. CASE ListMessages
    BY <1>4, <2>1, <2>2, Furthest
  <2>3. CASE after' = after
    BY <1>4, <2>1, <2>3 DEF Types, TypeOK
  <2> QED
    BY <1>0, <2>2, <2>3 DEF Writers
<1>7. up' \in BOOLEAN /\ file' \in FileState
  BY <1>0 DEF Writers, CompanionCrash, CompanionStart, Pin, Open, AdoptLegacyIndex, FileState, Types, TypeOK
<1>8. listing' \subseteq Conv
  <2>1. Listed \subseteq Conv
    <3>1. \A n \in journal : observed[n] \in Notification
      BY DEF Types, TypeOK, IsNote, Last
    <3> QED
      BY <3>1 DEF Listed, Titled, AllEvents, ConvOf, Notification
  <2> QED
    BY <1>0, <2>1 DEF Writers, ListConversations, UpsertConversations, DaemonCrash, Types, TypeOK
<1>9. convs' \subseteq Conv
  BY <1>0 DEF Writers, UpsertConversations, Upserted, Types, TypeOK
<1>10. crashes' \in 0 .. MaxCrashes /\ crashes' \in Nat
  BY <1>0, BoundsAreNatural DEF Writers, CompanionCrash, DaemonCrash, Types, TypeOK
<1>11. pc' \in {"down", "idle", "listed", "opened", "upserted", "read", "store"}
  BY <1>0 DEF PcMove, Types, TypeOK
<1> QED
  BY <1>0, <1>2, <1>3, <1>4, <1>5, <1>6, <1>7, <1>8, <1>9, <1>10, <1>11 DEF Types, TypeOK

\* The cursor passes what is indexed: it moves to the end of a stored page, below
\* which the journal has nothing else.
LEMMA PassedStep ==
    ASSUME Types, Suffix, Passed, Paged, [Next]_vars
    PROVE  Passed'
<1>0. /\ Writers /\ Indexed \subseteq Indexed' /\ (AddMessages /\ Accepted => page \subseteq Indexed')
      /\ cursor \in Nat /\ cursor <= Last /\ Last \in Nat /\ journal \in SUBSET (1 .. Last)
  BY WhoWrites, IndexGrows, ObservedGrows DEF Types, TypeOK
<1> SUFFICES ASSUME NEW n \in journal', n <= cursor' PROVE n \in Indexed'
  BY DEF Passed
<1>1. CASE \E e \in Notification : Post(e)
  <2>1. cursor' = cursor /\ journal' \in SUBSET (journal \cup {Last + 1})
    BY <1>1, SuffixPost DEF Post, ingest
  <2> QED
    BY <1>0, <2>1 DEF Passed
<1>2. CASE journal' = journal
  <2>1. CASE cursor' = cursor
    BY <1>0, <1>2, <2>1 DEF Passed
  <2>2. CASE DaemonCrash
    BY <1>0, <1>2, <2>2 DEF DaemonCrash
  <2>3. CASE AddMessages /\ cursor' # cursor
    <3>1. Accepted /\ page # {} /\ cursor' = CHOOSE k \in page : \A m \in page : m <= k
      BY <2>3 DEF AddMessages, CursorMoves
    <3>2. \E k \in page : \A m \in page : m <= k
      <4>1. page \in SUBSET Nat /\ IsFiniteSet(page)
        BY DEF Types, TypeOK, Last
      <4> QED
        BY <3>1, <4>1, Greatest
    <3>3. cursor' \in page
      BY <3>1, <3>2
    <3>4. CASE n <= cursor
      BY <1>0, <1>2, <3>4 DEF Passed
    <3>5. CASE cursor < n
      BY <1>0, <1>2, <2>3, <3>1, <3>3, <3>5 DEF Paged
    <3> QED
      BY <1>0, <1>2, <3>4, <3>5
  <2> QED
    BY <1>0, <2>1, <2>2, <2>3 DEF Writers
<1>3. CASE CompanionCrash
  BY <1>3 DEF CompanionCrash
<1> QED
  BY <1>0, <1>1, <1>2, <1>3 DEF Writers

\* A page is a cut of the journal when it is read, and stays one while the journal
\* gets newer records and loses old ones.
LEMMA PagedStep ==
    ASSUME Types, Suffix, Passed, Paged, [Next]_vars
    PROVE  Paged'
<1>0. /\ Writers /\ PcMove /\ Indexed \subseteq Indexed' /\ Last \in Nat
      /\ journal \in SUBSET (1 .. Last) /\ page \in SUBSET (1 .. Last)
      /\ Indexed \in SUBSET (1 .. Last) /\ cursor \in Nat
  BY WhoWrites, IndexGrows, ObservedGrows DEF Types, TypeOK
<1>1. CASE ReadMessages
  <2>1. page' = Page /\ pageGaps' = Page \cap marks /\ journal' = journal /\ cursor' = cursor
        /\ pc' = "read"
    BY <1>1 DEF ReadMessages, companion
  <2>2. ASSUME NEW m \in journal, NEW n \in Page, cursor < m, m <= n
        PROVE  m \in Page
    <3> DEFINE Below(k) == {l \in journal : cursor < l /\ l < k}
    <3>1. n \in journal /\ Cardinality(Below(n)) < PageLimit
      BY DEF Page
    <3>2. Below(m) \in SUBSET Below(n) /\ Below(n) \in SUBSET journal
      <4>1. m \in Nat /\ n \in Nat /\ \A l \in journal : l \in Nat
        BY <1>0, <3>1
      <4>2. \A l \in journal : l < m => l < n
        BY <2>2, <4>1
      <4> QED
        BY <4>2
    <3>3. IsFiniteSet(Below(n)) /\ IsFiniteSet(Below(m))
          /\ Cardinality(Below(m)) <= Cardinality(Below(n))
      BY <3>2, FS_Subset DEF Types
    <3>4. Cardinality(Below(m)) \in Nat /\ Cardinality(Below(n)) \in Nat /\ PageLimit \in Nat
      BY <3>3, FS_CardinalityType, LimitsArePositive
    <3>5. Cardinality(Below(m)) < PageLimit
      <4> HIDE DEF Below
      <4> QED
        BY <3>1, <3>3, <3>4
    <3> QED
      BY <2>2, <3>5 DEF Page
  <2>3. ASSUME NEW n \in Page \ marks
        PROVE  \E m \in Page \cup Indexed : IsPrevious(m, n)
    <3>1. n \in journal \ marks /\ cursor < n
      BY DEF Page
    <3>2. PICK m \in journal : IsPrevious(m, n)
      BY <3>1 DEF Suffix
    <3>3. m < n
      BY <3>2 DEF IsPrevious
    <3>4. CASE m <= cursor
      BY <3>2, <3>4 DEF Passed
    <3>5. CASE cursor < m
      <4>1. m <= n
        BY <1>0, <3>1, <3>3
      <4> QED
        BY <2>2, <3>2, <3>5, <4>1
    <3> QED
      BY <1>0, <3>4, <3>5
  <2>4. \A n \in page' \ pageGaps' : \E m \in page' \cup Indexed' : IsPrevious(m, n)'
    <3>1. Page \subseteq journal
      BY DEF Page
    <3> QED
      BY <1>0, <2>1, <2>3, <3>1, PreviousStays
  <2> QED
    BY <2>1, <2>2, <2>4 DEF Paged, Reading
<1>2. CASE CallFails \/ AddMessages \/ DaemonCrash
  <2>1. page' = {}
    BY <1>2 DEF CallFails, AddMessages, DaemonCrash
  <2> QED
    BY <2>1 DEF Paged
<1>3. CASE ~ReadMessages /\ ~CallFails /\ ~AddMessages /\ ~DaemonCrash
  <2>1. page' = page /\ pageGaps \subseteq pageGaps' /\ cursor' = cursor
    BY <1>0, <1>3 DEF Writers, ReadOldest
  <2>2. ~Reading' => page' = {}
    BY <1>0, <1>3, <2>1 DEF PcMove, ReadOldest, Paged, Reading
  <2>3. \A n \in page' \ pageGaps' : \E m \in page' \cup Indexed' : IsPrevious(m, n)'
    BY <1>0, <2>1, PreviousStays DEF Paged
  <2>4. \A m \in journal' : m \in journal \/ m = Last + 1
    BY <1>0, SuffixPost DEF Writers, CompanionCrash
  <2>5. \A m \in journal' : cursor' < m /\ (\E n \in page' : m <= n) => m \in page'
    <3> SUFFICES ASSUME NEW m \in journal', cursor < m, NEW n \in page, m <= n PROVE m \in page
      BY <2>1
    <3>1. m # Last + 1 /\ m \in journal
      BY <1>0, <2>4
    <3> QED
      BY <3>1 DEF Paged
  <2> QED
    BY <2>2, <2>3, <2>5 DEF Paged
<1> QED
  BY <1>1, <1>2, <1>3

\* A stored event follows its predecessor, which is indexed or before it in its page.
LEMMA FollowedStep ==
    ASSUME Types, Paged, Followed, [Next]_vars
    PROVE  Followed'
<1>0. /\ Writers /\ Last \in Nat /\ rows \in Seq(Nat) /\ Len(rows) \in Nat
      /\ page \in SUBSET (1 .. Last) /\ Indexed \in SUBSET (1 .. Last)
      /\ \A r \in 1 .. Len(rows) : rows[r] \in Indexed
  BY WhoWrites, ObservedGrows DEF Types, TypeOK, Indexed
<1>1. CASE AddMessages /\ Accepted
  <2>0. /\ rows' \in Seq(Nat) /\ Len(rows') = Len(rows) + Cardinality(NewRows)
        /\ Cardinality(NewRows) \in Nat
        /\ \A r \in 1 .. Len(rows) : rows'[r] = rows[r]
        /\ \A r \in 1 .. Len(rows') : r > Len(rows) => rows'[r] \in NewRows /\ RowOf(rows'[r]) = r
        /\ \A n \in NewRows : RowOf(n) \in 1 .. Len(rows') /\ rows'[RowOf(n)] = n
        /\ \A m, n \in NewRows : m < n => RowOf(m) < RowOf(n)
    BY <1>1, RowsGrow
  <2>1. gaps' = gaps \cup pageGaps /\ NewRows = page \ Indexed
    BY <1>1 DEF AddMessages, NewRows
  <2> HIDE DEF NewRows, RowOf, Indexed
  <2>2. ASSUME NEW r \in 1 .. Len(rows'), NEW n, n = rows'[r], n \notin gaps'
        PROVE  \E q \in 1 .. r - 1 : IsPrevious(rows[q], rows[r])'
    <3>1. PICK q \in 1 .. r - 1, m \in 1 .. Last : rows'[q] = m /\ n \in 1 .. Last /\ IsPrevious(m, n)
      <4>1. CASE r <= Len(rows)
        <5>1. r \in 1 .. Len(rows) /\ n = rows[r] /\ rows[r] \notin gaps
          <6>1. r \in 1 .. Len(rows)
            BY <1>0, <2>0, <4>1
          <6> QED
            BY <2>0, <2>1, <2>2, <6>1
        <5>2. PICK q \in 1 .. r - 1 : IsPrevious(rows[q], rows[r])
          BY <1>0, <5>1 DEF Followed
        <5>3. q \in 1 .. Len(rows) /\ rows'[q] = rows[q]
          BY <1>0, <2>0, <5>1
        <5> QED
          BY <1>0, <5>1, <5>2, <5>3
      <4>2. CASE r > Len(rows)
        <5>1. n \in NewRows /\ RowOf(n) = r /\ n \in page \ pageGaps
          BY <2>0, <2>1, <2>2, <4>2
        <5>2. PICK m \in page \cup Indexed : IsPrevious(m, n)
          BY <5>1 DEF Paged
        <5>3. PICK q \in 1 .. r - 1 : rows'[q] = m
          <6>1. CASE m \in Indexed
            <7>1. PICK q \in 1 .. Len(rows) : rows[q] = m
              BY <1>0, <6>1 DEF Indexed
            <7> QED
              BY <1>0, <2>0, <4>2, <7>1
          <6>2. CASE m \notin Indexed
            <7>1. m \in NewRows /\ m < n
              BY <2>1, <5>2, <6>2 DEF IsPrevious
            <7>2. RowOf(m) \in 1 .. Len(rows') /\ RowOf(m) < r /\ rows'[RowOf(m)] = m
              BY <2>0, <5>1, <7>1
            <7> QED
              BY <1>0, <2>0, <7>2
          <6> QED
            BY <6>1, <6>2
        <5> QED
          BY <1>0, <5>1, <5>2, <5>3
      <4> QED
        BY <1>0, <4>1, <4>2
    <3>2. IsPrevious(m, n)'
      BY <3>1, PreviousStays
    <3> QED
      BY <2>2, <3>1, <3>2 DEF IsPrevious, ConvOf, IsNote
  <2>3. DOMAIN rows' = 1 .. Len(rows')
    BY <2>0
  <2> QED
    BY <2>2, <2>3 DEF Followed
<1>2. CASE ~(AddMessages /\ Accepted)
  <2>1. rows' = rows /\ gaps' = gaps
    BY <1>0, <1>2 DEF Writers, AddMessages
  <2>2. ASSUME NEW r \in DOMAIN rows, rows[r] \notin gaps
        PROVE  \E q \in 1 .. r - 1 : IsPrevious(rows[q], rows[r])'
    <3>1. PICK q \in 1 .. r - 1 : IsPrevious(rows[q], rows[r])
      BY <2>2 DEF Followed
    <3>2. PICK m \in 1 .. Last, n \in 1 .. Last : m = rows[q] /\ n = rows[r]
      BY <1>0
    <3>3. IsPrevious(m, n)'
      BY <3>1, <3>2, PreviousStays
    <3> QED
      BY <2>1, <3>2, <3>3 DEF IsPrevious, ConvOf, IsNote
  <2> QED
    BY <2>1, <2>2 DEF Followed
<1> QED
  BY <1>1, <1>2

\* A client has read what it was given, in order and without holes.
LEMMA ReadStep ==
    ASSUME Types, Read, [Next]_vars
    PROVE  Read'
<1>0. Writers /\ rows \in Seq(Nat) /\ Len(rows) \in Nat /\ after \in 0 .. Len(rows)
  BY WhoWrites DEF Types, TypeOK
<1>1. CASE ListMessages
  <2>1. rows' = rows /\ seen' = seen \cup {rows[r] : r \in NextRows}
    BY <1>1 DEF ListMessages, index
  <2>2. after' \in 1 .. Len(rows) /\ after < after' /\ NextRows = after + 1 .. after'
    BY <1>1, Furthest
  <2>3. 1 .. after' = (1 .. after) \cup NextRows
    BY <1>0, <2>2
  <2> HIDE DEF NextRows
  <2> QED
    BY <2>1, <2>3 DEF Read
<1>2. CASE ~ListMessages
  <2>1. after' = after /\ seen' = seen
    BY <1>0, <1>2 DEF Writers
  <2>2. \A r \in 1 .. after : rows'[r] = rows[r]
    <3>1. CASE AddMessages /\ Accepted
      BY <1>0, <3>1, RowsGrow
    <3>2. CASE ~(AddMessages /\ Accepted)
      BY <1>0, <3>2 DEF Writers, AddMessages
    <3> QED
      BY <3>1, <3>2
  <2> QED
    BY <2>1, <2>2 DEF Read
<1> QED
  BY <1>1, <1>2

-----------------------------------------------------------------------------
(* Theorems.                                                               *)

\* IndexInv is inductive.
LEMMA IndexInvariant == Spec => []IndexInv
<1>1. Init => IndexInv
  <2> SUFFICES ASSUME Init PROVE IndexInv
    OBVIOUS
  <2>1. Types
    BY FS_EmptySet, BoundsAreNatural DEF Init, Types, TypeOK, Indexed, FileState, Last
  <2>2. Suffix /\ Passed /\ Paged /\ Followed /\ Read
    BY DEF Init, Suffix, Passed, Paged, Followed, Read, Reading
  <2> QED
    BY <2>1, <2>2 DEF IndexInv
<1>2. IndexInv /\ [Next]_vars => IndexInv'
  BY TypesStep, SuffixStep, PassedStep, PagedStep, FollowedStep, ReadStep DEF IndexInv
<1> QED
  BY <1>1, <1>2, PTL DEF Spec

\* TypeOK: the journal, the page and the index refer to notifications that were
\* posted, and the cursor and the client to rows and numbers that exist.
THEOREM NotificationTypeCorrect == Spec => []TypeOK
<1>1. IndexInv => TypeOK
  BY DEF IndexInv, Types
<1> QED
  BY <1>1, IndexInvariant, PTL

\* NoSilentGap: what the companion's journal evicted, a crash lost or repeated, or a
\* page cut off is marked on the message that follows, in the index and for a client
\* that pages through it.
THEOREM GapsCorrect == Spec => []NoSilentGap
<1>1. IndexInv => NoSilentGap
  <2> SUFFICES ASSUME IndexInv PROVE NoSilentGap
    OBVIOUS
  <2>1. Followed /\ seen = {rows[r] : r \in 1 .. after} /\ 1 .. after \subseteq DOMAIN rows /\ after \in Nat
    BY DEF IndexInv, Read, Types, TypeOK
  <2>2. ASSUME NEW n \in seen \ gaps PROVE \E m \in seen : IsPrevious(m, n)
    <3>1. PICK r \in 1 .. after : rows[r] = n
      BY <2>1
    <3>2. PICK q \in 1 .. r - 1 : IsPrevious(rows[q], n)
      BY <2>1, <3>1 DEF Followed
    <3>3. q \in 1 .. after
      BY <2>1
    <3> QED
      BY <2>1, <3>2, <3>3
  <2> QED
    BY <2>1, <2>2 DEF NoSilentGap, Followed
<1> QED
  BY <1>1, IndexInvariant, PTL
=============================================================================
