---------------------------- MODULE HistoryProofs ----------------------------
(***************************************************************************)
(* Theorems about History for every limit and any number of messages,      *)
(* channels and seconds.                                                   *)
(***************************************************************************)
EXTENDS History, TLAPS, FiniteSetTheorems

-----------------------------------------------------------------------------
(* What a query matches and grants *)

LEMMA MatchingRows ==
  ASSUME TypeOK, NEW p, p \subseteq Matching
  PROVE  /\ p \subseteq table /\ p \subseteq Messages
         /\ \A m \in p : m.at \in Nat /\ m.at <= MaxClock /\ m.at < before
BY BoundAssumption DEF TypeOK, Matching, Messages

\* Only a query that matches nothing, or is granted nothing, gets an empty page.
LEMMA EmptyPage ==
  ASSUME NEW rows, NEW n, IsPage({}, rows, n), n # 0
  PROVE  rows = {}
BY FS_EmptySet DEF IsPage

-----------------------------------------------------------------------------
(* Types *)

\* Each variable keeps its type; in particular the next query is about a time
\* at which there may be messages.
THEOREM TypeCorrect == Spec => []TypeOK
<1>1. Init => TypeOK
  BY BoundAssumption DEF Init, TypeOK, Now
<1>2. TypeOK /\ [Next]_vars => TypeOK'
  <2> SUFFICES ASSUME TypeOK, [Next]_vars PROVE TypeOK'
    OBVIOUS
  <2>1. CASE Tick
    BY <2>1, BoundAssumption DEF Tick, TypeOK, scroll, Now
  <2>2. ASSUME NEW ch \in Channels, Send(ch) PROVE TypeOK'
    <3>1. sent' \in 1 .. MaxMessages /\ clock \in 0 .. MaxClock
      BY <2>2, BoundAssumption DEF Send, TypeOK
    <3>2. [id |-> sent + 1, channel |-> ch, at |-> clock] \in Messages
      BY <2>2, <3>1 DEF Send, Messages
    <3> QED BY <2>2, <3>1, <3>2 DEF Send, TypeOK, scroll
  <2>3. ASSUME NEW batch \in SUBSET unsaved, Insert(batch) PROVE TypeOK'
    BY <2>3 DEF Insert, TypeOK, scroll
  <2>4. CASE Open
    BY <2>4 DEF Open, TypeOK
  <2>5. CASE PageRefused
    BY <2>5 DEF PageRefused, TypeOK
  <2>6. ASSUME NEW p \in SUBSET Matching, Page(p) PROVE TypeOK'
    <3>1. /\ p \subseteq Messages
          /\ \A m \in p : m.at \in 0 .. MaxClock /\ m.at \in 0 .. Now
      BY MatchingRows, BoundAssumption DEF Now
    <3>2. before' \in 0 .. Now /\ cuts' \subseteq 0 .. MaxClock
      BY <2>6, <3>1 DEF Page, TypeOK
    <3>3. reader' \in {"idle", "paging", "done", "failed"}
      BY <2>6 DEF Page, TypeOK
    <3> QED BY <2>6, <3>1, <3>2, <3>3 DEF Page, TypeOK
  <2>7. CASE UNCHANGED vars
    BY <2>7 DEF vars, scroll, TypeOK
  <2> QED BY <2>1, <2>2, <2>3, <2>4, <2>5, <2>6, <2>7 DEF Next, NextPage
<1> QED BY <1>1, <1>2, PTL DEF Spec

-----------------------------------------------------------------------------
(* Nothing twice: all that was shown is at or after the timestamp of the next *)
(* query, which matches only what is before it.                               *)

BackInv ==
    /\ \A m \in page \cup shown : before <= m.at
    /\ PagesGoBack

LEMMA BackStep ==
  ASSUME TypeOK, BackInv, NEW p \in SUBSET Matching, Page(p)
  PROVE  BackInv'
<1>1. \A m \in p : m.at \in Nat /\ m.at < before
  BY MatchingRows
<1>2. before \in Nat /\ \A m \in page \cup shown : m.at \in Nat
  BY BoundAssumption DEF TypeOK, Messages, Now
<1>3. page' = p /\ shown' = shown \cup page
  BY DEF Page
<1>4. PagesGoBack'
  BY <1>1, <1>2, <1>3 DEF BackInv, PagesGoBack
<1>5. \A m \in page' \cup shown' : before' <= m.at
  <2>1. CASE p = {}
    BY <2>1, <1>3 DEF Page, BackInv
  <2>2. CASE p # {}
    <3>1. PICK l \in p : IsLast(l, p) /\ before' = l.at
      BY <2>2 DEF Page
    <3>2. \A m \in p : before' <= m.at
      BY <3>1 DEF IsLast
    <3>3. \A m \in page \cup shown : before' <= m.at
      BY <3>1, <1>1, <1>2 DEF BackInv
    <3> QED BY <3>2, <3>3, <1>3
  <2> QED BY <2>1, <2>2
<1> QED BY <1>4, <1>5 DEF BackInv

\* A page is older throughout than the pages before it.
THEOREM PagesGoBackHolds == Spec => []PagesGoBack
<1>1. Init => BackInv
  BY DEF Init, BackInv, PagesGoBack
<1>2. TypeOK /\ BackInv /\ [Next]_vars => BackInv'
  <2> SUFFICES ASSUME TypeOK, BackInv, [Next]_vars PROVE BackInv'
    OBVIOUS
  <2>1. ASSUME NEW p \in SUBSET Matching, Page(p) PROVE BackInv'
    BY <2>1, BackStep
  <2>2. CASE UNCHANGED <<page, shown, before>>
    BY <2>2 DEF BackInv, PagesGoBack
  <2> QED
    BY <2>1, <2>2 DEF Next, NextPage, Tick, Send, Insert, Open, PageRefused, vars, scroll
<1>3. BackInv => PagesGoBack
  BY DEF BackInv
<1> QED BY <1>1, <1>2, <1>3, TypeCorrect, PTL DEF Spec

-----------------------------------------------------------------------------
(* Nothing skipped: what the table held at the beginning was shown, is of a   *)
(* second in which a page ended, or is still to come.                         *)

ToCome(m) == m \in table /\ m.channel = channel /\ m.at < before

SkipInv ==
    /\ reader = "idle" => before = Now
    /\ reader # "idle" =>
        \A m \in opened : m \in shown \cup page \/ m.at \in cuts \/ ToCome(m)
    /\ OnlyCutsSkip

LEMMA SkipOpen ==
  ASSUME TypeOK, SkipInv, Open
  PROVE  SkipInv'
<1>1. before = Now
  BY DEF Open, SkipInv
<1>2. \A m \in table : m.at < Now
  BY BoundAssumption DEF TypeOK, Messages, Now
<1>3. \A m \in opened' : ToCome(m)'
  BY <1>1, <1>2 DEF Open, ToCome
<1> QED BY <1>3 DEF Open, SkipInv, OnlyCutsSkip

LEMMA SkipPage ==
  ASSUME TypeOK, SkipInv, NEW p \in SUBSET Matching, Page(p)
  PROVE  SkipInv'
<1>1. EffectiveLimit' = EffectiveLimit
  BY DEF Page, EffectiveLimit
<1>2. \A m \in opened' : m \in shown \cup page \/ m.at \in cuts \/ m \in Matching
  BY DEF Page, SkipInv, ToCome, Matching
<1>3. CASE p = {}
  <2>1. EffectiveLimit > 0 => Matching = {}
    <3> SUFFICES ASSUME EffectiveLimit > 0 PROVE Matching = {}
      OBVIOUS
    <3>1. EffectiveLimit # 0
      <4>1. EffectiveLimit \in Int
        BY LimitAssumption DEF TypeOK, EffectiveLimit
      <4> QED BY <4>1
    <3> QED BY <1>3, <3>1, EmptyPage DEF Page
  <2>2. OnlyCutsSkip'
    BY <1>1, <1>2, <1>3, <2>1 DEF Page, OnlyCutsSkip
  <2>3. \A m \in opened' : m \in shown' \cup page' \/ m.at \in cuts' \/ ToCome(m)'
    BY <1>2, <1>3 DEF Page, ToCome, Matching
  <2> QED BY <1>3, <2>2, <2>3 DEF Page, SkipInv
<1>4. CASE p # {}
  <2>1. PICK l \in p : IsLast(l, p) /\ before' = l.at /\ cuts' = cuts \cup {l.at}
    BY <1>4 DEF Page
  <2>2. reader' = "paging" /\ shown' = shown \cup page /\ page' = p /\ opened' = opened
    BY <1>4 DEF Page
  <2>3. \A m \in Matching : m \in p \/ m.at \in cuts' \/ ToCome(m)'
    <3> SUFFICES ASSUME NEW m \in Matching, m \notin p, m.at \notin cuts'
                 PROVE  ToCome(m)'
      OBVIOUS
    <3>1. m.at <= l.at
      BY <2>1 DEF Page, IsPage
    <3>2. m.at \in Nat /\ l.at \in Nat /\ m.at # l.at
      BY <2>1, MatchingRows
    <3>3. m.at < before'
      BY <2>1, <3>1, <3>2
    <3> QED BY <3>3 DEF ToCome, Matching, Page
  <2> QED BY <1>2, <2>1, <2>2, <2>3 DEF SkipInv, OnlyCutsSkip
<1> QED BY <1>3, <1>4

\* A scroll that comes to its end has shown all that the table held when it
\* began, apart from messages of a second in which a page ended.
THEOREM OnlyCutsSkipHolds == Spec => []OnlyCutsSkip
<1>1. Init => SkipInv
  BY DEF Init, SkipInv, OnlyCutsSkip
<1>2. TypeOK /\ SkipInv /\ [Next]_vars => SkipInv'
  <2> SUFFICES ASSUME TypeOK, SkipInv, [Next]_vars PROVE SkipInv'
    OBVIOUS
  <2>1. ASSUME NEW p \in SUBSET Matching, Page(p) PROVE SkipInv'
    BY <2>1, SkipPage
  <2>2. CASE Open
    BY <2>2, SkipOpen
  <2>3. CASE PageRefused
    BY <2>3 DEF PageRefused, SkipInv, OnlyCutsSkip, ToCome, EffectiveLimit
  <2>4. ASSUME table \subseteq table', UNCHANGED scroll PROVE SkipInv'
    BY <2>4 DEF scroll, SkipInv, OnlyCutsSkip, ToCome, EffectiveLimit
  <2> QED
    BY <2>1, <2>2, <2>3, <2>4 DEF Next, NextPage, Tick, Send, Insert, vars
<1>3. SkipInv => OnlyCutsSkip
  BY DEF SkipInv
<1> QED BY <1>1, <1>2, <1>3, TypeCorrect, PTL DEF Spec
=============================================================================
