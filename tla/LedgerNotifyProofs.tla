-------------------------- MODULE LedgerNotifyProofs --------------------------
(***************************************************************************)
(* Theorems about LedgerNotify, for any sessions, commits, followers,      *)
(* readers and rewrites.  First the types; then who holds which lock and   *)
(* what a transaction has done; on these rest the cache of heads, the      *)
(* wake-ups, the receipts and the shared prefix, one after the other.      *)
(***************************************************************************)
EXTENDS LedgerNotify, FiniteSetTheorems, SequenceTheorems, TLAPS

-----------------------------------------------------------------------------
(* Records and sequences.                                                  *)

LEMMA Rounds == Cardinality(Commits) \in Nat /\ MaxRewrites \in Nat
  BY NotifyAssumption, FS_CardinalityType

LEMMA Followed == Wakes \in [Followers -> SUBSET Kinds] /\ Kinds \cap {Directory, Private} = {}
  BY NotifyAssumption

LEMMA TransactionMoved ==
  ASSUME NEW t \in Transaction, NEW at \in Stages
  PROVE  /\ [t EXCEPT !.at = at] \in Transaction /\ [t EXCEPT !.at = at].at = at
         /\ [t EXCEPT !.at = at].kind = t.kind /\ [t EXCEPT !.at = at].session = t.session
         /\ [t EXCEPT !.at = at].async = t.async /\ [t EXCEPT !.at = at].wrote = t.wrote
         /\ [t EXCEPT !.at = at].seq = t.seq /\ [t EXCEPT !.at = at].told = t.told
  BY DEF Transaction

LEMMA TransactionFields ==
  ASSUME NEW t \in Transaction
  PROVE  /\ t.at \in Stages /\ t.kind \in Kinds \cup {Directory, Private} /\ t.session \in Sessions
         /\ t.async \in BOOLEAN /\ t.wrote \in BOOLEAN /\ t.seq \in Nat /\ t.told \in BOOLEAN
  BY DEF Transaction

LEMMA SubscriptionFields ==
  ASSUME NEW f \in Subscription
  PROVE  /\ f.at \in {"out", "clear", "yield", "wait"} \cup Reading
         /\ f.event \in BOOLEAN /\ f.posted \in BOOLEAN /\ f.setting \in BOOLEAN
         /\ f.polled \in BOOLEAN /\ f.epoch \in Nat
         /\ f.loaded \in [Sessions -> Nat] \cup {NoHeads}
         /\ f.previous \in [Sessions -> Nat] \cup {NoHeads}
  BY DEF Subscription

LEMMA ReaderFields ==
  ASSUME NEW r \in Reader
  PROVE  /\ r.at \in {"idle", "locked", "begun", "holds"} /\ r.session \in Sessions
         /\ r.revision \in Nat /\ r.rows \in Seq(Row) /\ r.upper \in Nat /\ r.result \in Seq(Row)
  BY DEF Reader

LEMMA ViewFields ==
  ASSUME NEW v \in View
  PROVE  v.revision \in Nat /\ v.rows \in Seq(Row) /\ v = [revision |-> v.revision, rows |-> v.rows]
  BY DEF View

LEMMA MadeRow ==
  ASSUME NEW c \in Commits, NEW n \in Nat
  PROVE  [by |-> c, text |-> n] \in Row
  BY DEF Row

LEMMA RowRewritten ==
  ASSUME NEW row \in Row, NEW n \in Nat
  PROVE  [row EXCEPT !.text = n] \in Row /\ [row EXCEPT !.text = n].by = row.by
  BY DEF Row

\* The rows of a session after a rewrite: nothing but the text of one changes.
LEMMA Rewritten ==
  ASSUME NEW seq \in Seq(Row), NEW i \in 1..Len(seq), NEW n \in Nat
  PROVE  LET new == [seq EXCEPT ![i].text = n] IN
         /\ new \in Seq(Row) /\ Len(new) = Len(seq)
         /\ \A j \in 1..Len(seq) : new[j].by = seq[j].by /\ (j # i => new[j] = seq[j])
  <1> DEFINE e == [seq[i] EXCEPT !.text = n]
  <1>1. seq[i] \in Row
    BY ElementOfSeq
  <1>2. e \in Row /\ e.by = seq[i].by
    BY <1>1, RowRewritten
  <1>3. [seq EXCEPT ![i].text = n] = [seq EXCEPT ![i] = e]
    OBVIOUS
  <1> HIDE DEF e
  <1>4. /\ [seq EXCEPT ![i] = e] \in Seq(Row) /\ Len([seq EXCEPT ![i] = e]) = Len(seq)
        /\ \A j \in 1..Len(seq) : [seq EXCEPT ![i] = e][j] = IF j = i THEN e ELSE seq[j]
    BY <1>2, ExceptSeq
  <1> QED BY <1>2, <1>3, <1>4

LEMMA PrefixOf ==
  ASSUME NEW seq \in Seq(Row), NEW n \in Nat
  PROVE  /\ Prefix(seq, n) \in Seq(Row) /\ Len(Prefix(seq, n)) = Minor(n, Len(seq))
         /\ \A i \in 1..Minor(n, Len(seq)) : Prefix(seq, n)[i] = seq[i]
  <1> DEFINE m == Minor(n, Len(seq))
  <1>1. Len(seq) \in Nat
    BY LenProperties
  <1>2. m \in Nat /\ m <= Len(seq)
    BY <1>1 DEF Minor
  <1> HIDE DEF m
  <1>3. \A i \in 1..m : seq[i] \in Row
    BY <1>1, <1>2, ElementOfSeq
  <1>4. /\ SubSeq(seq, 1, m) \in Seq(Row)
        /\ Len(SubSeq(seq, 1, m)) = IF 1 <= m THEN m - 1 + 1 ELSE 0
        /\ \A i \in 1..m - 1 + 1 : SubSeq(seq, 1, m)[i] = seq[1 + i - 1]
    BY <1>2, <1>3, SubSeqProperties
  <1>5. Prefix(seq, n) = SubSeq(seq, 1, m)
    BY DEF Prefix, m
  <1>6. m = Minor(n, Len(seq))
    BY DEF m
  <1>7. Len(SubSeq(seq, 1, m)) = m /\ \A i \in 1..m : SubSeq(seq, 1, m)[i] = seq[i]
    BY <1>2, <1>4
  <1> QED BY <1>4, <1>5, <1>6, <1>7

\* What a reader adds to the prefix it found: the rows from there to its bound.
LEMMA Continued ==
  ASSUME NEW old \in Seq(Row), NEW seq \in Seq(Row), NEW upper \in Nat, upper <= Len(seq)
  PROVE  LET new == old \o SubSeq(seq, Len(old) + 1, upper) IN
         /\ new \in Seq(Row)
         /\ Len(new) = IF upper > Len(old) THEN upper ELSE Len(old)
         /\ \A i \in 1..Len(new) : new[i] = IF i <= Len(old) THEN old[i] ELSE seq[i]
  <1> DEFINE k == Len(old)
             tail == SubSeq(seq, k + 1, upper)
  <1>1. k \in Nat /\ Len(seq) \in Nat
    BY LenProperties
  <1>2. \A i \in k + 1..upper : seq[i] \in Row
    BY <1>1, ElementOfSeq
  <1>3. /\ tail \in Seq(Row)
        /\ Len(tail) = IF k + 1 <= upper THEN upper - (k + 1) + 1 ELSE 0
        /\ \A i \in 1..upper - (k + 1) + 1 : tail[i] = seq[(k + 1) + i - 1]
    BY <1>1, <1>2, SubSeqProperties
  <1>4. /\ old \o tail \in Seq(Row)
        /\ Len(old \o tail) = k + Len(tail)
        /\ \A i \in 1..k + Len(tail) : (old \o tail)[i] = IF i <= k THEN old[i] ELSE tail[i - k]
    BY <1>3, ConcatProperties
  <1> HIDE DEF k, tail
  <1>5. Len(old \o tail) = IF upper > k THEN upper ELSE k
    BY <1>1, <1>3, <1>4
  <1>6. ASSUME NEW i \in 1..Len(old \o tail)
        PROVE  (old \o tail)[i] = IF i <= k THEN old[i] ELSE seq[i]
    <2>1. CASE i <= k
      BY <1>1, <1>3, <1>4, <1>5, <2>1
    <2>2. CASE ~(i <= k)
      <3>1. i - k \in 1..upper - (k + 1) + 1 /\ (k + 1) + (i - k) - 1 = i
        BY <1>1, <1>5, <2>2
      <3>2. tail[i - k] = seq[i]
        BY <1>3, <3>1
      <3>3. i \in 1..k + Len(tail)
        BY <1>4
      <3> QED BY <1>4, <2>2, <3>2, <3>3
    <2> QED BY <2>1, <2>2
  <1> QED BY <1>4, <1>5, <1>6 DEF k, tail

-----------------------------------------------------------------------------
(* Types.                                                                  *)

\* A reader asks for no more than it can see.
UpperOK(r) == snapshot[r].at = "begun" => snapshot[r].upper <= Len(snapshot[r].rows)

TypeInv == TypeOK /\ \A r \in Readers : UpperOK(r)

LEMMA ChangedTypes ==
  ASSUME TypeOK, NEW c \in Commits
  PROVE  Changed(c) \subseteq Kinds \cup {Directory}
  BY TransactionFields DEF TypeOK, Changed

LEMMA NotifiedTypes ==
  ASSUME TypeOK, NEW changed
  PROVE  Notified(changed) \in [Followers -> Subscription]
  <1> SUFFICES ASSUME NEW f \in Followers
               PROVE  [follower[f] EXCEPT !.posted = TRUE] \in Subscription
    BY DEF Notified, TypeOK
  <1> QED BY DEF TypeOK, Subscription

LEMMA ComparedTypes ==
  ASSUME TypeOK, NEW f \in Followers, NEW new \in [Sessions -> Nat] \cup {NoHeads}
  PROVE  Compared(f, new) \in Subscription
  <1> DEFINE at == IF new # follower[f].previous THEN "yield" ELSE "wait"
  <1>1. follower[f] \in Subscription
    BY DEF TypeOK
  <1>2. at \in {"out", "clear", "yield", "wait"} \cup Reading
    OBVIOUS
  <1>3. Compared(f, new) =
          [follower[f] EXCEPT !.at = at, !.previous = new, !.loaded = NoHeads, !.epoch = 0,
                              !.polled = FALSE]
    BY DEF Compared
  <1> DEFINE old == follower[f]
  <1>4. Compared(f, new) =
          [at |-> at, event |-> old.event, posted |-> old.posted, setting |-> old.setting,
           polled |-> FALSE, epoch |-> 0, loaded |-> NoHeads, previous |-> new]
    <2> HIDE DEF at
    <2> QED BY <1>1, <1>3 DEF Subscription
  <1>5. old.event \in BOOLEAN /\ old.posted \in BOOLEAN /\ old.setting \in BOOLEAN
    BY <1>1, SubscriptionFields
  <1> HIDE DEF at, old
  <1> QED BY <1>2, <1>4, <1>5 DEF Subscription

LEMMA HeadTypes ==
  ASSUME TypeOK
  PROVE  Heads \in [Sessions -> Nat]
  <1> SUFFICES ASSUME NEW s \in Sessions PROVE Len(rows[s]) \in Nat
    BY DEF Heads
  <1> QED BY LenProperties DEF TypeOK

LEMMA TypeInit == Init => TypeInv
  <1> SUFFICES ASSUME Init PROVE TypeInv
    OBVIOUS
  <1>1. <<>> \in Seq(Row)
    BY EmptySeq
  <1>2. Out \in Subscription
    BY DEF Out, Subscription
  <1>3. commit \in [Commits -> Transaction]
    BY DEF Init, Transaction, Stages
  <1>4. snapshot \in [Readers -> Reader] /\ \A r \in Readers : snapshot[r].at = "idle"
    BY <1>1 DEF Init, Reader
  <1> QED BY <1>1, <1>2, <1>3, <1>4 DEF Init, TypeInv, TypeOK, UpperOK

LEMMA TypeWriter ==
  ASSUME TypeInv, NEW c \in Commits, WriterStep(c)
  PROVE  TypeInv'
  <1> USE DEF TypeInv
  <1>1. commit[c] \in Transaction
    BY DEF TypeOK
  <1>2. UNCHANGED snapshot /\ (\A r \in Readers : UpperOK(r)')
    BY DEF WriterStep, Begin, Start, Cancel, Write, WriteFails, MergeHeads, MergeView, Announce,
           FlushNotify, Raise, UpperOK
  <1> SUFFICES TypeOK'
    BY <1>2
  <1>3. ASSUME NEW k \in Kinds \cup {Directory, Private}, NEW s \in Sessions, NEW async \in BOOLEAN,
               Begin(c, k, s, async)
        PROVE  TypeOK'
    <2>1. [commit[c] EXCEPT !.at = IF async THEN "queued" ELSE "started",
                            !.kind = k, !.session = s, !.async = async] \in Transaction
      BY <1>1 DEF Transaction, Stages
    <2> QED BY <1>3, <2>1 DEF Begin, TypeOK
  <1>4. \A at \in Stages : To(c, at) => commit' \in [Commits -> Transaction]
    BY <1>1, TransactionMoved DEF To, TypeOK
  <1>5. CASE Start(c)
    BY <1>4, <1>5 DEF Start, TypeOK, Stages
  <1>6. CASE Cancel(c)
    BY <1>4, <1>6 DEF Cancel, TypeOK, Stages
  <1>7. CASE WriteFails(c)
    BY <1>4, <1>7 DEF WriteFails, TypeOK, Stages
  <1>8. CASE Raise(c)
    BY <1>4, <1>8 DEF Raise, TypeOK, Stages
  <1>9. CASE Write(c)
    <2> DEFINE s == commit[c].session
    <2>1. s \in Sessions /\ rows[s] \in Seq(Row) /\ Len(rows[s]) \in Nat
      BY <1>1, TransactionFields, LenProperties DEF TypeOK
    <2>2. Append(rows[s], [by |-> c, text |-> 0]) \in Seq(Row)
      BY <2>1, MadeRow, AppendProperties
    <2>3. rows' \in [Sessions -> Seq(Row)]
      BY <1>9, <2>1, <2>2 DEF Write, TypeOK
    <2>4. commit' \in [Commits -> Transaction]
      <3> DEFINE seq == IF Message(c) THEN Len(rows[s]) + 1 ELSE 0
                 new == [commit[c] EXCEPT !.at = "merge", !.wrote = TRUE, !.seq = seq]
      <3>1. seq \in Nat
        BY <2>1
      <3>2. commit' = [commit EXCEPT ![c] = new]
        BY <1>9 DEF Write
      <3> HIDE DEF seq
      <3>3. new \in Transaction
        BY <1>1, <3>1 DEF Transaction, Stages, Committed
      <3> QED BY <3>2, <3>3 DEF TypeOK
    <2> QED BY <1>9, <2>3, <2>4 DEF Write, TypeOK
  <1>10. CASE MergeHeads(c)
    <2>1. Merged(c) \in [Sessions -> Nat] \cup {NoHeads}
      BY <1>1, TransactionFields DEF Merged, TypeOK
    <2>2. commit' \in [Commits -> Transaction]
      BY <1>4, <1>10 DEF MergeHeads, Stages, Committed
    <2> QED BY <1>10, <2>1, <2>2 DEF MergeHeads, TypeOK
  <1>11. CASE MergeView(c)
    <2> DEFINE s == commit[c].session
    <2>1. Extended(c) \in [Sessions -> View \cup {NoView}]
      <3>1. CASE view[s] # NoView /\ s \in Sessions
        <4>1. view[s] \in View
          BY <3>1 DEF TypeOK
        <4>2. Append(view[s].rows, [by |-> c, text |-> 0]) \in Seq(Row)
          BY <4>1, ViewFields, MadeRow, AppendProperties
        <4>3. [view[s] EXCEPT !.rows = Append(view[s].rows, [by |-> c, text |-> 0])] \in View
          BY <4>1, <4>2 DEF View
        <4> QED BY <4>3 DEF Extended, TypeOK
      <3> QED BY <1>1, <3>1, TransactionFields DEF Extended, TypeOK
    <2>2. commit' \in [Commits -> Transaction]
      BY <1>4, <1>11 DEF MergeView, Stages, Committed
    <2> QED BY <1>11, <2>1, <2>2 DEF MergeView, TypeOK
  <1>12. CASE Announce(c)
    <2>1. commit' \in [Commits -> Transaction]
      BY <1>4, <1>12 DEF Announce, Stages
    <2>2. owed' \subseteq Kinds \cup {Directory} /\ follower' \in [Followers -> Subscription]
      BY <1>12, ChangedTypes, NotifiedTypes DEF Announce, TypeOK
    <2> QED BY <1>12, <2>1, <2>2 DEF Announce, TypeOK
  <1>13. CASE FlushNotify(c)
    <2>1. [commit[c] EXCEPT !.at = "ended", !.told = TRUE] \in Transaction
      BY <1>1 DEF Transaction, Stages
    <2> QED BY <1>13, <2>1, NotifiedTypes DEF FlushNotify, TypeOK
  <1> QED BY <1>3, <1>5, <1>6, <1>7, <1>8, <1>9, <1>10, <1>11, <1>12, <1>13 DEF WriterStep

LEMMA TypeFollower ==
  ASSUME TypeInv, NEW f \in Followers, FollowerStep(f)
  PROVE  TypeInv'
  <1> USE DEF TypeInv
  <1>1. follower[f] \in Subscription
    BY DEF TypeOK
  <1>2. Heads \in [Sessions -> Nat]
    BY HeadTypes
  <1>3. ASSUME NEW next \in Subscription, Change(f, next), OnlyFollower
        PROVE  TypeInv'
    BY <1>3 DEF Change, OnlyFollower, TypeOK, UpperOK
  <1>4. CASE Subscribe(f)
    <2>1. [Out EXCEPT !.at = "clear"] \in Subscription
      BY DEF Out, Subscription
    <2> QED BY <1>3, <1>4, <2>1 DEF Subscribe
  <1>5. CASE Clear(f)
    <2> DEFINE at == IF f \in Direct \/ follower[f].polled THEN "load" ELSE "read"
    <2>1. [follower[f] EXCEPT !.event = FALSE, !.at = at] \in Subscription
      BY <1>1 DEF Subscription, Reading
    <2> QED BY <1>3, <1>5, <2>1 DEF Clear
  <1>6. CASE ReadCache(f)
    <2>1. [follower[f] EXCEPT !.at = "ask"] \in Subscription
      BY <1>1 DEF Subscription, Reading
    <2> QED BY <1>3, <1>6, <2>1, ComparedTypes DEF ReadCache, TypeOK
  <1>7. CASE Ask(f)
    <2>1. /\ [follower[f] EXCEPT !.at = "loaded", !.loaded = heads] \in Subscription
          /\ [follower[f] EXCEPT !.at = "load", !.epoch = epoch] \in Subscription
      BY <1>1 DEF Subscription, Reading, TypeOK
    <2> QED BY <1>3, <1>7, <2>1 DEF Ask
  <1>8. CASE Load(f)
    <2> DEFINE at == IF f \in Direct \/ follower[f].polled THEN "loaded" ELSE "adopt"
    <2>1. [follower[f] EXCEPT !.loaded = Heads, !.at = at] \in Subscription
      BY <1>1, <1>2 DEF Subscription, Reading
    <2> QED BY <1>3, <1>8, <2>1 DEF Load
  <1>9. CASE Adopt(f)
    <2>1. [follower[f] EXCEPT !.at = "loaded"] \in Subscription
      BY <1>1 DEF Subscription, Reading
    <2> QED BY <1>1, <1>9, <2>1, SubscriptionFields DEF Adopt, Change, TypeOK, UpperOK
  <1>10. CASE Compare(f)
    BY <1>1, <1>3, <1>10, ComparedTypes, SubscriptionFields DEF Compare
  <1>11. CASE Consumed(f)
    <2>1. [follower[f] EXCEPT !.at = "wait"] \in Subscription
      BY <1>1 DEF Subscription
    <2> QED BY <1>3, <1>11, <2>1 DEF Consumed
  <1>12. CASE Wake(f)
    <2>1. [follower[f] EXCEPT !.at = "clear"] \in Subscription
      BY <1>1 DEF Subscription
    <2> QED BY <1>3, <1>12, <2>1 DEF Wake
  <1>13. CASE PollAgain(f)
    <2>1. [follower[f] EXCEPT !.at = "clear", !.polled = TRUE] \in Subscription
      BY <1>1 DEF Subscription
    <2> QED BY <1>3, <1>13, <2>1 DEF PollAgain
  <1>14. CASE Leave(f)
    <2>1. Out \in Subscription
      BY DEF Out, Subscription
    <2> QED BY <1>3, <1>14, <2>1 DEF Leave
  <1>15. CASE DeliverTake(f)
    <2>1. [follower[f] EXCEPT !.posted = FALSE, !.setting = TRUE] \in Subscription
      BY <1>1 DEF Subscription
    <2> QED BY <1>3, <1>15, <2>1 DEF DeliverTake
  <1>16. CASE DeliverSet(f)
    <2>1. [follower[f] EXCEPT !.event = TRUE, !.setting = FALSE] \in Subscription
      BY <1>1 DEF Subscription
    <2> QED BY <1>3, <1>16, <2>1 DEF DeliverSet
  <1> QED BY <1>4, <1>5, <1>6, <1>7, <1>8, <1>9, <1>10, <1>11, <1>12, <1>13, <1>14, <1>15, <1>16
          DEF FollowerStep, LoopStep

\* What a reader can reuse, what it makes of it, and what it hands on.
LEMMA FilledIs ==
  ASSUME TypeInv, NEW r \in Readers, snapshot[r].at = "begun"
  PROVE  LET old == Reusable(r)
             new == Filled(r) IN
         /\ old \in Seq(Row) /\ new \in Seq(Row)
         /\ Len(new) = IF snapshot[r].upper > Len(old) THEN snapshot[r].upper ELSE Len(old)
         /\ \A i \in 1..Len(new) : new[i] = IF i <= Len(old) THEN old[i] ELSE snapshot[r].rows[i]
  <1>1. /\ snapshot[r].session \in Sessions /\ snapshot[r].rows \in Seq(Row)
        /\ snapshot[r].upper \in Nat /\ snapshot[r].upper <= Len(snapshot[r].rows)
    BY ReaderFields DEF TypeInv, TypeOK, UpperOK
  <1>2. Reusable(r) \in Seq(Row)
    <2>1. view[snapshot[r].session] \in View \cup {NoView}
      BY <1>1 DEF TypeInv, TypeOK
    <2> QED BY <2>1, ViewFields, EmptySeq DEF Reusable
  <1> DEFINE old == Reusable(r)
             seq == snapshot[r].rows
             upper == snapshot[r].upper
  <1>3. Filled(r) = old \o SubSeq(seq, Len(old) + 1, upper)
    BY DEF Filled
  <1>4. old \in Seq(Row) /\ seq \in Seq(Row) /\ upper \in Nat /\ upper <= Len(seq)
    BY <1>1, <1>2
  <1> HIDE DEF old, seq, upper
  <1>5. /\ Filled(r) \in Seq(Row)
        /\ Len(Filled(r)) = IF upper > Len(old) THEN upper ELSE Len(old)
        /\ \A i \in 1..Len(Filled(r)) : Filled(r)[i] = IF i <= Len(old) THEN old[i] ELSE seq[i]
    BY <1>3, <1>4, Continued
  <1> QED BY <1>4, <1>5 DEF old, seq, upper

LEMMA TypeReader ==
  ASSUME TypeInv, NEW r \in Readers, ReaderStep(r)
  PROVE  TypeInv'
  <1>1. snapshot[r] \in Reader /\ TypeOK
    BY DEF TypeInv, TypeOK
  <1>2. ASSUME NEW next \in Reader, snapshot' = [snapshot EXCEPT ![r] = next], OnlyReader,
               next.at = "begun" => next.upper <= Len(next.rows),
               viewing' \in Readers \cup {Nobody}, view' \in [Sessions -> View \cup {NoView}]
        PROVE  TypeInv'
    <2>1. snapshot' \in [Readers -> Reader] /\ snapshot'[r] = next
          /\ \A q \in Readers : q # r => snapshot'[q] = snapshot[q]
      BY <1>1, <1>2 DEF TypeOK
    <2>2. \A q \in Readers : UpperOK(q)'
      BY <1>2, <2>1 DEF UpperOK, TypeInv
    <2>3. TypeOK'
      BY <1>1, <1>2, <2>1 DEF TypeOK, OnlyReader
    <2> QED BY <2>2, <2>3 DEF TypeInv
  <1>3. ASSUME NEW s \in Sessions, SnapLock(r, s)
        PROVE  TypeInv'
    <2> DEFINE next == [snapshot[r] EXCEPT !.at = "locked", !.session = s]
    <2>1. next \in Reader /\ next.at = "locked"
      BY <1>1 DEF Reader
    <2>2. snapshot' = [snapshot EXCEPT ![r] = next]
      BY <1>3 DEF SnapLock
    <2> HIDE DEF next
    <2> QED BY <1>1, <1>2, <1>3, <2>1, <2>2 DEF SnapLock, TypeOK
  <1>4. ASSUME NEW n \in 0..Cardinality(Commits), SnapBegin(r, n)
        PROVE  TypeInv'
    <2> DEFINE s == snapshot[r].session
               upper == Minor(n, Len(rows[s]))
               next == [snapshot[r] EXCEPT !.at = "begun", !.revision = revision,
                                           !.rows = rows[s], !.upper = upper]
    <2>1. rows[s] \in Seq(Row) /\ Len(rows[s]) \in Nat
      BY <1>1, ReaderFields, LenProperties DEF TypeOK
    <2>2. upper \in Nat /\ upper <= Len(rows[s])
      BY <2>1, Rounds DEF Minor
    <2>3. snapshot' = [snapshot EXCEPT ![r] = next]
      BY <1>4 DEF SnapBegin
    <2> HIDE DEF s, upper
    <2>4. next \in Reader /\ next.upper = upper /\ next.rows = rows[s]
      BY <1>1, <2>1, <2>2 DEF Reader, TypeOK
    <2> HIDE DEF next
    <2> QED BY <1>1, <1>2, <1>4, <2>2, <2>3, <2>4 DEF SnapBegin, TypeOK
  <1>5. CASE SnapFill(r)
    <2> DEFINE result == Prefix(Filled(r), snapshot[r].upper)
               next == [snapshot[r] EXCEPT !.at = "holds", !.result = result]
               v == [revision |-> snapshot[r].revision, rows |-> Filled(r)]
    <2>1. Filled(r) \in Seq(Row)
      BY <1>5, FilledIs DEF SnapFill
    <2>2. result \in Seq(Row)
      BY <1>1, <2>1, PrefixOf, ReaderFields
    <2>3. snapshot' = [snapshot EXCEPT ![r] = next]
      BY <1>5 DEF SnapFill
    <2>4. v \in View
      BY <1>1, <2>1, ReaderFields DEF View
    <2>5. view' = [view EXCEPT ![snapshot[r].session] = v]
      BY <1>5 DEF SnapFill
    <2> HIDE DEF result, v
    <2>6. next \in Reader /\ next.at = "holds"
      BY <1>1, <2>2 DEF Reader
    <2> HIDE DEF next
    <2>7. view' \in [Sessions -> View \cup {NoView}]
      BY <1>1, <2>4, <2>5 DEF TypeOK
    <2> QED BY <1>1, <1>2, <1>5, <2>3, <2>6, <2>7 DEF SnapFill
  <1>6. CASE SnapDrop(r)
    <2> DEFINE next == [snapshot[r] EXCEPT !.at = "idle", !.rows = <<>>, !.result = <<>>,
                                           !.upper = 0, !.revision = 0]
    <2>1. next \in Reader /\ next.at = "idle"
      BY <1>1, EmptySeq DEF Reader
    <2>2. snapshot' = [snapshot EXCEPT ![r] = next]
      BY <1>6 DEF SnapDrop
    <2> HIDE DEF next
    <2> QED BY <1>1, <1>2, <1>6, <2>1, <2>2 DEF SnapDrop, TypeOK
  <1> QED BY <1>3, <1>4, <1>5, <1>6 DEF ReaderStep

LEMMA TypeOthers ==
  ASSUME TypeInv, NEW s \in Sessions
  PROVE  /\ ViewGone(s) => TypeInv'
         /\ \A i \in 1..Cardinality(Commits) : Rewrite(s, i) => TypeInv'
         /\ UNCHANGED vars => TypeInv'
  <1>1. TypeOK
    BY DEF TypeInv
  <1>2. CASE ViewGone(s)
    BY <1>2 DEF ViewGone, OnlyReader, TypeInv, TypeOK, UpperOK
  <1>3. ASSUME NEW i \in 1..Cardinality(Commits), Rewrite(s, i)
        PROVE  TypeInv'
    <2>1. rows[s] \in Seq(Row) /\ i \in 1..Len(rows[s])
      BY <1>1, <1>3 DEF TypeOK, Rewrite
    <2>2. revision + 1 \in Nat
      BY <1>1 DEF TypeOK
    <2>3. [rows[s] EXCEPT ![i].text = revision + 1] \in Seq(Row)
      BY <2>1, <2>2, Rewritten
    <2>4. rows' \in [Sessions -> Seq(Row)]
      BY <1>1, <1>3, <2>3 DEF Rewrite, TypeOK
    <2> QED BY <1>3, <2>2, <2>4 DEF Rewrite, TypeInv, TypeOK, UpperOK
  <1>4. CASE UNCHANGED vars
    BY <1>4 DEF vars, TypeInv, TypeOK, UpperOK
  <1> QED BY <1>2, <1>3, <1>4

LEMMA TypeStep == TypeInv /\ [Next]_vars => TypeInv'
  <1> SUFFICES ASSUME TypeInv, [Next]_vars PROVE TypeInv'
    OBVIOUS
  <1>1. CASE UNCHANGED vars
    BY <1>1 DEF vars, TypeInv, TypeOK, UpperOK
  <1> QED BY <1>1, TypeWriter, TypeFollower, TypeReader, TypeOthers DEF Next

LEMMA TypesHold == Spec => []TypeInv
  BY TypeInit, TypeStep, PTL DEF Spec

\* Every variable keeps its type: heads are heads of known sessions, a snapshot asks
\* for no row that its transaction does not see (plugins/ledger/log.py, MessageLog).
THEOREM TypeCorrect == Spec => []TypeOK
  BY TypesHold, PTL DEF TypeInv

-----------------------------------------------------------------------------
(* Transactions: the lock of the writer, what became of each, and the      *)
(* messages that are in the log because of it.                             *)

StageOK(c) ==
  /\ commit[c].at \in Committed <=> writing = c
  /\ commit[c].at \in {"new", "queued", "started"} => ~commit[c].wrote /\ ~commit[c].told
  /\ commit[c].at \in Committed => commit[c].wrote /\ ~commit[c].told
  /\ commit[c].at \in {"queued", "done"} => commit[c].async
  /\ commit[c].at = "done" => ~commit[c].told
  /\ commit[c].at = "ended" /\ commit[c].async => (commit[c].told <=> commit[c].wrote)

\* The message of a transaction, while it is being made known and for good.
RowOK(c) ==
  LET s == commit[c].session
      n == commit[c].seq IN
  /\ commit[c].wrote /\ Message(c) => n \in 1..Len(rows[s]) /\ rows[s][n].by = c
  /\ commit[c].at \in Committed /\ Message(c) =>
       n = Len(rows[s]) /\ rows[s][n] = [by |-> c, text |-> 0]

AuthorOK(s, i) ==
  LET c == rows[s][i].by IN commit[c].wrote /\ Message(c) /\ commit[c].session = s

DebtOK == owed # {} => \E c \in Commits : WillFlush(c)

WriteInv ==
  /\ \A c \in Commits : StageOK(c)
  /\ \A c \in Commits : RowOK(c)
  /\ \A s \in Sessions : \A i \in 1..Len(rows[s]) : AuthorOK(s, i)
  /\ DebtOK

LEMMA WriteInit == Init => WriteInv
  <1> SUFFICES ASSUME Init PROVE WriteInv
    OBVIOUS
  <1>1. \A c \in Commits : /\ commit[c].at = "new" /\ ~commit[c].wrote /\ ~commit[c].told
                           /\ writing # c
    BY NotifyAssumption DEF Init
  <1>2. \A s \in Sessions : Len(rows[s]) = 0
    BY DEF Init
  <1>3. owed = {}
    BY DEF Init
  <1> QED BY <1>1, <1>2, <1>3 DEF WriteInv, StageOK, RowOK, AuthorOK, DebtOK, Committed

LEMMA Authors ==
  ASSUME TypeInv, NEW s \in Sessions, NEW i \in 1..Len(rows[s])
  PROVE  rows[s][i] \in Row /\ rows[s][i].by \in Commits
  <1>1. rows[s] \in Seq(Row)
    BY DEF TypeInv, TypeOK
  <1>2. rows[s][i] \in Row
    BY <1>1, ElementOfSeq
  <1> QED BY <1>2 DEF Row

\* The messages and who wrote them.
LEMMA RowsKept ==
  ASSUME TypeInv, WriteInv, rows' = rows,
         \A c \in Commits :
           /\ commit'[c].kind = commit[c].kind /\ commit'[c].session = commit[c].session
           /\ commit'[c].wrote = commit[c].wrote /\ commit'[c].seq = commit[c].seq
           /\ commit'[c].at \in Committed => commit[c].at \in Committed
  PROVE  /\ \A c \in Commits : RowOK(c)'
         /\ \A s \in Sessions : \A i \in 1..Len(rows'[s]) : AuthorOK(s, i)'
  <1>1. \A c \in Commits : RowOK(c) => RowOK(c)'
    BY DEF RowOK, Message
  <1>2. \A s \in Sessions : \A i \in 1..Len(rows[s]) : rows[s][i].by \in Commits
    BY Authors
  <1> QED BY <1>1, <1>2 DEF WriteInv, AuthorOK, Message

\* The transaction's own step, where it takes no message along.
LEMMA Moves ==
  ASSUME TypeInv, WriteInv, NEW c \in Commits, NEW at \in Stages, To(c, at)
  PROVE  /\ commit'[c].at = at /\ commit'[c].kind = commit[c].kind
         /\ commit'[c].session = commit[c].session /\ commit'[c].wrote = commit[c].wrote
         /\ commit'[c].seq = commit[c].seq /\ commit'[c].told = commit[c].told
         /\ commit'[c].async = commit[c].async
         /\ \A d \in Commits : d # c => commit'[d] = commit[d]
  <1>1. commit[c] \in Transaction /\ commit' = [commit EXCEPT ![c] = [commit[c] EXCEPT !.at = at]]
    BY DEF TypeInv, TypeOK, To
  <1>2. c \in DOMAIN commit /\ DOMAIN commit = Commits
    BY DEF TypeInv, TypeOK
  <1> DEFINE next == [commit[c] EXCEPT !.at = at]
  <1>3. /\ next.at = at /\ next.kind = commit[c].kind
        /\ next.session = commit[c].session /\ next.wrote = commit[c].wrote
        /\ next.seq = commit[c].seq /\ next.told = commit[c].told
        /\ next.async = commit[c].async
    BY <1>1, TransactionMoved
  <1>4. commit' = [commit EXCEPT ![c] = next]
    BY <1>1
  <1> HIDE DEF next
  <1>5. commit'[c] = next /\ \A d \in Commits : d # c => commit'[d] = commit[d]
    BY <1>2, <1>4
  <1> QED BY <1>3, <1>5

LEMMA WriteWriter ==
  ASSUME TypeInv, WriteInv, NEW c \in Commits, WriterStep(c)
  PROVE  WriteInv'
  <1>1. commit[c] \in Transaction /\ c \in DOMAIN commit /\ commit[c].session \in Sessions
    BY TransactionFields DEF TypeInv, TypeOK
  <1>2. /\ StageOK(c) /\ RowOK(c) /\ \A d \in Commits : StageOK(d)
        /\ DebtOK /\ Nobody \notin Commits
    BY NotifyAssumption DEF WriteInv
  <1>3. \A at \in Stages \ Committed : at \in Stages
    OBVIOUS
  <1> DEFINE Others == \A d \in Commits : d # c => commit'[d] = commit[d]
             SameRow == /\ commit'[c].kind = commit[c].kind /\ commit'[c].session = commit[c].session
                        /\ commit'[c].wrote = commit[c].wrote /\ commit'[c].seq = commit[c].seq
                        /\ commit'[c].at \in Committed => commit[c].at \in Committed
  <1>4. ASSUME Others, SameRow, rows' = rows,
               \A d \in Commits : StageOK(d)', DebtOK'
        PROVE  WriteInv'
    BY <1>4, RowsKept DEF WriteInv
  <1>5. ASSUME NEW k \in Kinds \cup {Directory, Private}, NEW s \in Sessions, NEW async \in BOOLEAN,
               Begin(c, k, s, async)
        PROVE  WriteInv'
    <2> DEFINE at == IF async THEN "queued" ELSE "started"
               next == [commit[c] EXCEPT !.at = at, !.kind = k, !.session = s, !.async = async]
    <2>1. /\ commit' = [commit EXCEPT ![c] = next] /\ commit[c].at = "new"
          /\ UNCHANGED <<rows, writing, owed>>
      BY <1>5 DEF Begin
    <2>2. /\ next.at = at /\ next.wrote = commit[c].wrote /\ next.told = commit[c].told
          /\ next.async = async
      BY <1>1 DEF Transaction
    <2>3. commit'[c] = next /\ Others
      BY <1>1, <2>1
    <2> HIDE DEF next
    <2>4. ~commit[c].wrote /\ ~commit[c].told /\ writing # c
      BY <1>2, <2>1 DEF StageOK, Committed
    <2>5. \A d \in Commits : StageOK(d)'
      BY <1>2, <2>1, <2>2, <2>3, <2>4 DEF StageOK, Committed
    <2>6. \A d \in Commits : RowOK(d)'
      <3>1. RowOK(c)'
        BY <2>1, <2>2, <2>3, <2>4 DEF RowOK, Committed
      <3>2. ASSUME NEW d \in Commits, d # c PROVE RowOK(d)'
        <4>1. RowOK(d) /\ commit'[d] = commit[d] /\ rows' = rows
          BY <2>1, <2>3, <3>2 DEF WriteInv
        <4> QED BY <4>1 DEF RowOK, Message
      <3> QED BY <3>1, <3>2
    <2>7. ASSUME NEW u \in Sessions, NEW i \in 1..Len(rows'[u])
          PROVE  AuthorOK(u, i)'
      <3>1. AuthorOK(u, i) /\ rows'[u][i] = rows[u][i]
        BY <2>1 DEF WriteInv
      <3>3. rows[u][i].by \in Commits
        BY <2>1, Authors
      <3>4. rows[u][i].by # c
        BY <2>4, <3>1 DEF AuthorOK
      <3> QED BY <2>3, <3>1, <3>3, <3>4 DEF AuthorOK, Message
    <2>8. DebtOK'
      <3>1. ~WillFlush(c)
        BY <2>1 DEF WillFlush, Committed
      <3> QED BY <1>2, <2>1, <2>3, <3>1 DEF DebtOK, WillFlush
    <2> QED BY <2>5, <2>6, <2>7, <2>8 DEF WriteInv
  <1>6. ASSUME NEW at \in Stages, To(c, at), rows' = rows, writing' = writing, owed' = owed,
               commit[c].at \notin Committed, at \notin Committed, ~WillFlush(c),
               at \in {"queued", "done"} => commit[c].async,
               at = "done" => ~commit[c].told,
               at = "ended" => (commit[c].told <=> commit[c].wrote) \/ ~commit[c].async,
               at \in {"new", "queued", "started"} => ~commit[c].wrote /\ ~commit[c].told
        PROVE  WriteInv'
    <2>1. /\ commit'[c].at = at /\ SameRow /\ Others /\ commit'[c].told = commit[c].told
          /\ commit'[c].async = commit[c].async
      BY <1>6, Moves
    <2>2. \A d \in Commits : StageOK(d)'
      BY <1>2, <1>6, <2>1 DEF StageOK
    <2>3. DebtOK'
      BY <1>2, <1>6, <2>1 DEF DebtOK, WillFlush
    <2> QED BY <1>4, <1>6, <2>1, <2>2, <2>3
  <1>7. CASE Start(c)
    BY <1>2, <1>6, <1>7 DEF Start, StageOK, Stages, Committed, WillFlush
  <1>8. CASE Cancel(c)
    BY <1>2, <1>6, <1>8 DEF Cancel, StageOK, Stages, Committed, WillFlush
  <1>9. CASE WriteFails(c)
    BY <1>2, <1>6, <1>9 DEF WriteFails, StageOK, Stages, Committed, WillFlush
  <1>10. CASE Raise(c)
    BY <1>2, <1>6, <1>10 DEF Raise, StageOK, Stages, Committed, WillFlush
  <1>11. CASE Write(c)
    <2> DEFINE s == commit[c].session
               seq == IF Message(c) THEN Len(rows[s]) + 1 ELSE 0
               next == [commit[c] EXCEPT !.at = "merge", !.wrote = TRUE, !.seq = seq]
               row == [by |-> c, text |-> 0]
    <2>1. /\ commit' = [commit EXCEPT ![c] = next] /\ commit[c].at = "started"
          /\ writing = Nobody /\ writing' = c /\ owed' = owed
          /\ rows' = IF Message(c) THEN [rows EXCEPT ![s] = Append(rows[s], row)] ELSE rows
      BY <1>11 DEF Write
    <2>2. /\ next.at = "merge" /\ next.wrote = TRUE /\ next.told = commit[c].told /\ next.seq = seq
          /\ next.async = commit[c].async /\ next.kind = commit[c].kind /\ next.session = s
      BY <1>1 DEF Transaction
    <2>3. commit'[c] = next /\ Others
      BY <1>1, <2>1
    <2> HIDE DEF next
    <2>4. ~commit[c].told /\ ~commit[c].wrote
      BY <1>2, <2>1 DEF StageOK
    <2>5. \A d \in Commits : StageOK(d)'
      BY <1>2, <2>1, <2>2, <2>3, <2>4 DEF StageOK, Committed
    <2>6. \A u \in Sessions : rows[u] \in Seq(Row) /\ Len(rows[u]) \in Nat
      BY LenProperties DEF TypeInv, TypeOK
    <2>7. row \in Row /\ row.by = c
      BY MadeRow
    <2>8. \A u \in Sessions : \A i \in 1..Len(rows[u]) : rows[u][i].by \in Commits /\ rows[u][i].by # c
      <3> SUFFICES ASSUME NEW u \in Sessions, NEW i \in 1..Len(rows[u])
                   PROVE  rows[u][i].by \in Commits /\ rows[u][i].by # c
        OBVIOUS
      <3>1. rows[u][i].by \in Commits
        BY Authors
      <3> QED BY <2>4, <3>1 DEF WriteInv, AuthorOK
    <2>9. DebtOK'
      <3>1. ~WillFlush(c)
        BY <2>1 DEF WillFlush, Committed
      <3> QED BY <1>2, <2>1, <2>3, <3>1 DEF DebtOK, WillFlush
    <2>10. CASE ~Message(c)
      <3>3. ~Message(c)'
        BY <2>2, <2>3, <2>10 DEF Message
      <3>4. ASSUME NEW d \in Commits, d # c PROVE RowOK(d)'
        <4>1. RowOK(d) /\ commit'[d] = commit[d] /\ rows' = rows
          BY <2>1, <2>3, <2>10, <3>4 DEF WriteInv
        <4> QED BY <4>1 DEF RowOK, Message
      <3>1. \A d \in Commits : RowOK(d)'
        BY <3>3, <3>4 DEF RowOK
      <3>2. \A u \in Sessions : \A i \in 1..Len(rows'[u]) : AuthorOK(u, i)'
        BY <2>1, <2>3, <2>8, <2>10 DEF AuthorOK, WriteInv, Message
      <3> QED BY <2>5, <2>9, <3>1, <3>2 DEF WriteInv
    <2>11. CASE Message(c)
      <3> DEFINE new == Append(rows[s], row)
      <3>1. /\ Len(new) = Len(rows[s]) + 1 /\ new[Len(rows[s]) + 1] = row
            /\ \A i \in 1..Len(rows[s]) : new[i] = rows[s][i]
        BY <1>1, <2>6, <2>7, AppendProperties
      <3>2. rows'[s] = new /\ \A u \in Sessions : u # s => rows'[u] = rows[u]
        BY <1>1, <2>1, <2>11 DEF TypeInv, TypeOK
      <3> HIDE DEF new, row
      <3>3. RowOK(c)'
        BY <1>1, <2>2, <2>3, <2>6, <2>7, <2>11, <3>1, <3>2 DEF RowOK, row
      <3>4. ASSUME NEW d \in Commits, d # c
            PROVE  RowOK(d)'
        <4>1. RowOK(d) /\ commit'[d] = commit[d] /\ commit[d].at \notin Committed
          BY <1>2, <2>1, <2>3, <3>4 DEF WriteInv, StageOK
        <4>2. commit[d].session \in Sessions
          BY TransactionFields DEF TypeInv, TypeOK
        <4> DEFINE u == commit[d].session
                   n == commit[d].seq
        <4>3. n \in 1..Len(rows[u]) => n \in 1..Len(rows'[u]) /\ rows'[u][n] = rows[u][n]
          <5>1. CASE u = s
            <6> HIDE DEF s, n
            <6>1. rows'[u] = new /\ Len(rows[u]) \in Nat
              BY <3>2, <5>1, <2>6
            <6> QED BY <3>1, <5>1, <6>1
          <5>2. CASE u # s
            <6>1. u \in Sessions
              BY <4>2
            <6> HIDE DEF s, n, u
            <6>2. rows'[u] = rows[u]
              BY <3>2, <5>2, <6>1
            <6> QED BY <6>2
          <5> QED BY <5>1, <5>2
        <4>4. Message(d)' <=> Message(d)
          BY <4>1 DEF Message
        <4> QED BY <4>1, <4>3, <4>4 DEF RowOK
      <3>5. ASSUME NEW u \in Sessions, NEW i \in 1..Len(rows'[u])
            PROVE  AuthorOK(u, i)'
        <4>1. CASE u = s /\ i = Len(rows[s]) + 1
          BY <2>2, <2>3, <2>7, <2>11, <3>1, <3>2, <4>1 DEF AuthorOK, Message
        <4>2. CASE ~(u = s /\ i = Len(rows[s]) + 1)
          <5>1. i \in 1..Len(rows[u]) /\ rows'[u][i] = rows[u][i]
            BY <1>1, <2>6, <3>1, <3>2, <4>2
          <5>2. AuthorOK(u, i)
            BY <5>1 DEF WriteInv
          <5> QED BY <2>3, <2>8, <5>1, <5>2 DEF AuthorOK, Message
        <4> QED BY <4>1, <4>2
      <3> QED BY <2>5, <2>9, <3>3, <3>4, <3>5 DEF WriteInv
    <2> QED BY <2>10, <2>11
  <1>12. ASSUME NEW at \in Committed, To(c, at), UNCHANGED <<rows, writing, owed>>,
                commit[c].at \in Committed
         PROVE  WriteInv'
    <2>1. at \in Stages
      BY DEF Stages
    <2>2. /\ commit'[c].at = at /\ SameRow /\ Others /\ commit'[c].told = commit[c].told
          /\ commit'[c].async = commit[c].async
      BY <1>12, <2>1, Moves
    <2>3. \A d \in Commits : StageOK(d)'
      BY <1>2, <1>12, <2>2 DEF StageOK, Committed
    <2>4. DebtOK'
      BY <1>2, <1>12, <2>2 DEF DebtOK, WillFlush
    <2> QED BY <1>4, <1>12, <2>2, <2>3, <2>4
  <1>13. CASE MergeHeads(c)
    BY <1>12, <1>13 DEF MergeHeads, Committed
  <1>14. CASE MergeView(c)
    BY <1>12, <1>14 DEF MergeView, Committed
  <1>15. CASE Announce(c)
    <2> DEFINE at == IF commit[c].async THEN "done" ELSE "ended"
    <2>1. /\ commit[c].at = "announce" /\ writing' = Nobody /\ To(c, at) /\ rows' = rows
          /\ ~commit[c].async => owed' = owed
      BY <1>15 DEF Announce
    <2>2. at \in Stages
      BY DEF Stages
    <2> HIDE DEF at
    <2>3. /\ commit'[c].at = at /\ SameRow /\ Others /\ commit'[c].told = commit[c].told
          /\ commit'[c].async = commit[c].async
      BY <2>1, <2>2, Moves DEF at, Committed
    <2>4. writing = c /\ commit[c].wrote /\ ~commit[c].told
      BY <1>2, <2>1 DEF StageOK, Committed
    <2>5. \A d \in Commits : StageOK(d)'
      BY <1>2, <2>1, <2>3, <2>4 DEF StageOK, at, Committed
    <2>6. DebtOK'
      BY <1>2, <2>1, <2>3, <2>4 DEF DebtOK, WillFlush, at, Committed
    <2> QED BY <1>4, <2>1, <2>3, <2>5, <2>6
  <1>16. CASE FlushNotify(c)
    <2> DEFINE next == [commit[c] EXCEPT !.at = "ended", !.told = TRUE]
    <2>1. /\ commit' = [commit EXCEPT ![c] = next] /\ commit[c].at = "done" /\ commit[c].wrote
          /\ owed' = {} /\ UNCHANGED <<rows, writing>>
      BY <1>16 DEF FlushNotify
    <2>2. /\ next.at = "ended" /\ next.told = TRUE /\ next.wrote = commit[c].wrote
          /\ next.async = commit[c].async /\ next.kind = commit[c].kind
          /\ next.session = commit[c].session /\ next.seq = commit[c].seq
      BY <1>1 DEF Transaction
    <2>3. commit'[c] = next /\ Others
      BY <1>1, <2>1
    <2> HIDE DEF next
    <2>4. StageOK(c) /\ writing # c
      BY <1>2, <2>1 DEF StageOK, Committed
    <2>5. StageOK(c)'
      BY <2>1, <2>2, <2>3, <2>4 DEF StageOK, Committed
    <2>6. \A d \in Commits : d # c => StageOK(d)'
      BY <1>2, <2>1, <2>3 DEF StageOK
    <2>7. DebtOK'
      BY <2>1 DEF DebtOK
    <2> QED BY <1>4, <2>1, <2>2, <2>3, <2>5, <2>6, <2>7 DEF Committed
  <1> QED BY <1>5, <1>7, <1>8, <1>9, <1>10, <1>11, <1>13, <1>14, <1>15, <1>16 DEF WriterStep

LEMMA WriteRewrite ==
  ASSUME TypeInv, WriteInv, NEW s \in Sessions, NEW i \in 1..Cardinality(Commits), Rewrite(s, i)
  PROVE  WriteInv'
  <1> DEFINE new == [rows[s] EXCEPT ![i].text = revision + 1]
  <1>1. rows[s] \in Seq(Row) /\ i \in 1..Len(rows[s]) /\ revision + 1 \in Nat
    BY DEF TypeInv, TypeOK, Rewrite
  <1>2. Len(new) = Len(rows[s]) /\ \A j \in 1..Len(rows[s]) : new[j].by = rows[s][j].by
    BY <1>1, Rewritten
  <1>3. rows'[s] = new /\ \A u \in Sessions : u # s => rows'[u] = rows[u]
    BY DEF TypeInv, TypeOK, Rewrite
  <1>4. /\ commit' = commit /\ writing' = writing /\ owed' = owed
        /\ \A c \in Commits : commit[c].at \notin Committed
    BY NotifyAssumption DEF Rewrite, WriteInv, StageOK
  <1> HIDE DEF new
  <1>5. \A u \in Sessions : /\ Len(rows'[u]) = Len(rows[u])
                            /\ \A j \in 1..Len(rows[u]) : rows'[u][j].by = rows[u][j].by
    BY <1>2, <1>3
  <1>6. \A c \in Commits : StageOK(c)'
    BY <1>4 DEF StageOK, WriteInv
  <1>7. DebtOK'
    BY <1>4 DEF DebtOK, WriteInv, WillFlush
  <1>8. \A c \in Commits : RowOK(c)'
    <2>1. \A c \in Commits : commit[c].session \in Sessions
      BY TransactionFields DEF TypeInv, TypeOK
    <2> SUFFICES ASSUME NEW c \in Commits PROVE RowOK(c)'
      OBVIOUS
    <2> DEFINE u == commit[c].session
               n == commit[c].seq
    <2>2. RowOK(c) /\ (Message(c)' <=> Message(c)) /\ commit'[c] = commit[c]
      BY <1>4 DEF Message, WriteInv
    <2>3. n \in 1..Len(rows[u]) => n \in 1..Len(rows'[u]) /\ rows'[u][n].by = rows[u][n].by
      BY <1>5, <2>1
    <2> QED BY <1>4, <2>2, <2>3 DEF RowOK
  <1>9. \A u \in Sessions : \A j \in 1..Len(rows'[u]) : AuthorOK(u, j)'
    BY <1>4, <1>5 DEF AuthorOK, WriteInv, Message
  <1> QED BY <1>6, <1>7, <1>8, <1>9 DEF WriteInv

LEMMA WriteStep == TypeInv /\ WriteInv /\ [Next]_vars => WriteInv'
  <1> SUFFICES ASSUME TypeInv, WriteInv, [Next]_vars PROVE WriteInv'
    OBVIOUS
  <1>1. ASSUME UNCHANGED <<rows, commit, writing, owed>> PROVE WriteInv'
    BY <1>1 DEF WriteInv, StageOK, RowOK, AuthorOK, DebtOK, WillFlush, Message
  <1>2. ASSUME NEW f \in Followers, FollowerStep(f) PROVE UNCHANGED <<rows, commit, writing, owed>>
    BY <1>2 DEF FollowerStep, LoopStep, Subscribe, Clear, ReadCache, Ask, Load, Adopt, Compare,
                Consumed, Wake, PollAgain, Leave, DeliverTake, DeliverSet, OnlyFollower
  <1>3. ASSUME NEW r \in Readers, ReaderStep(r) PROVE UNCHANGED <<rows, commit, writing, owed>>
    BY <1>3 DEF ReaderStep, SnapLock, SnapBegin, SnapFill, SnapDrop, OnlyReader
  <1>4. ASSUME NEW s \in Sessions, ViewGone(s) PROVE UNCHANGED <<rows, commit, writing, owed>>
    BY <1>4 DEF ViewGone, OnlyReader
  <1>5. CASE UNCHANGED vars
    BY <1>1, <1>5 DEF vars
  <1> QED BY <1>1, <1>2, <1>3, <1>4, <1>5, WriteWriter, WriteRewrite DEF Next

LEMMA WritesHold == Spec => [](TypeInv /\ WriteInv)
  BY TypeInit, TypeStep, WriteInit, WriteStep, PTL DEF Spec

\* An asynchronous write that ended has told its caller exactly when its message is in
\* the log, and a wake-up is owed only while somebody will pay it (_run_commit,
\* flush_notify).
THEOREM ReceiptsStayTrue == Spec => []ReceiptsAreTrue
  <1>1. TypeInv /\ WriteInv => ReceiptsAreTrue
    <2> SUFFICES ASSUME TypeInv, WriteInv PROVE ReceiptsAreTrue
      OBVIOUS
    <2>1. \A c \in Commits : StageOK(c) /\ RowOK(c) /\ commit[c].session \in Sessions
      BY TransactionFields DEF WriteInv, TypeInv, TypeOK
    <2>2. ASSUME NEW c \in Commits, Message(c), NEW i \in 1..Len(rows[commit[c].session]),
                 rows[commit[c].session][i].by = c
          PROVE  commit[c].wrote
      BY <2>1, <2>2 DEF WriteInv, AuthorOK
    <2> QED BY <2>1, <2>2 DEF ReceiptsAreTrue, WriteInv, StageOK, RowOK, DebtOK
  <1> QED BY <1>1, WritesHold, PTL

-----------------------------------------------------------------------------
(* The cache of heads.                                                     *)

\* Heads that are those of the log, or lack the message that is on its way to them.
Near(h, logged, txs) ==
  \A s \in Sessions :
    \/ h[s] = Len(logged[s])
    \/ \E c \in Commits : /\ txs[c].at = "merge" /\ txs[c].kind \in Kinds /\ txs[c].session = s
                          /\ h[s] + 1 = Len(logged[s])

LoadOK(f) ==
  /\ follower[f].epoch <= epoch
  /\ follower[f].at = "adopt" => follower[f].loaded # NoHeads
  /\ follower[f].at = "adopt" /\ follower[f].epoch = epoch => Near(follower[f].loaded, rows, commit)

HeadsInv ==
  /\ heads # NoHeads => Near(heads, rows, commit)
  /\ \A f \in Followers : LoadOK(f)

LEMMA HeadsInit == Init => HeadsInv
  BY DEF Init, HeadsInv, LoadOK, Out

LEMMA NearKept ==
  ASSUME \A s \in Sessions : Len(rows'[s]) = Len(rows[s]),
         \A c \in Commits : commit[c].at = "merge" => commit'[c] = commit[c],
         NEW h, Near(h, rows, commit)
  PROVE  Near(h, rows', commit')
  BY DEF Near

\* What a commit leaves of what the followers are at.
LEMMA NotifiedFields ==
  ASSUME TypeInv, NEW changed, NEW f \in Followers
  PROVE  LET new == Notified(changed)[f] IN
         /\ new.at = follower[f].at /\ new.epoch = follower[f].epoch
         /\ new.loaded = follower[f].loaded /\ new.previous = follower[f].previous
         /\ new.event = follower[f].event /\ new.setting = follower[f].setting
         /\ follower[f].posted => new.posted
         /\ (follower[f].at # "out" /\ Wakeful(f, changed)) => (new.event \/ new.posted)
  <1>1. follower[f] \in Subscription
    BY DEF TypeInv, TypeOK
  <1> DEFINE g == [follower[f] EXCEPT !.posted = TRUE]
  <1>2. /\ g.at = follower[f].at /\ g.epoch = follower[f].epoch /\ g.loaded = follower[f].loaded
        /\ g.previous = follower[f].previous /\ g.event = follower[f].event
        /\ g.setting = follower[f].setting /\ g.posted = TRUE
    BY <1>1 DEF Subscription
  <1>3. Notified(changed)[f] =
          IF follower[f].at # "out" /\ Wakeful(f, changed) /\ ~follower[f].event /\ ~follower[f].posted
            THEN g ELSE follower[f]
    BY DEF Notified
  <1> HIDE DEF g
  <1>4. follower[f].event \in BOOLEAN /\ follower[f].posted \in BOOLEAN
    BY <1>1, SubscriptionFields
  <1> QED BY <1>2, <1>3, <1>4

\* A commit's step as the followers see it.
LEMMA WriterFollower ==
  ASSUME TypeInv, NEW c \in Commits, WriterStep(c), NEW f \in Followers
  PROVE  /\ follower'[f].at = follower[f].at /\ follower'[f].epoch = follower[f].epoch
         /\ follower'[f].loaded = follower[f].loaded /\ follower'[f].previous = follower[f].previous
         /\ Woken(f) => Woken(f)'
  <1>1. CASE follower' = follower
    BY <1>1 DEF Woken
  <1>2. ASSUME NEW changed, follower' = Notified(changed)
        PROVE  /\ follower'[f].at = follower[f].at /\ follower'[f].epoch = follower[f].epoch
               /\ follower'[f].loaded = follower[f].loaded
               /\ follower'[f].previous = follower[f].previous
               /\ Woken(f) => Woken(f)'
    BY <1>2, NotifiedFields DEF Woken
  <1> QED BY <1>1, <1>2 DEF WriterStep, Begin, Start, Cancel, Write, WriteFails, MergeHeads,
                            MergeView, Announce, FlushNotify, Raise

\* The only one between its commit and the cache.
LEMMA OneMerges ==
  ASSUME WriteInv, NEW c \in Commits, NEW d \in Commits,
         commit[c].at \in Committed, commit[d].at \in Committed
  PROVE  c = d
  BY DEF WriteInv, StageOK

LEMMA HeadsWriter ==
  ASSUME TypeInv, WriteInv, HeadsInv, NEW c \in Commits, WriterStep(c)
  PROVE  HeadsInv'
  <1>1. commit[c] \in Transaction /\ c \in DOMAIN commit /\ commit[c].session \in Sessions
    BY TransactionFields DEF TypeInv, TypeOK
  <1>2. \A f \in Followers : /\ follower'[f].at = follower[f].at
                             /\ follower'[f].epoch = follower[f].epoch
                             /\ follower'[f].loaded = follower[f].loaded
    BY WriterFollower
  <1>3. \A s \in Sessions : Len(rows[s]) \in Nat
    BY LenProperties DEF TypeInv, TypeOK
  <1>4. ASSUME heads' = heads, epoch' = epoch,
               \A h : Near(h, rows, commit) => Near(h, rows', commit')
        PROVE  HeadsInv'
    BY <1>2, <1>4 DEF HeadsInv, LoadOK
  <1>5. ASSUME rows' = rows, commit[c].at # "merge", heads' = heads, epoch' = epoch,
               \A d \in Commits : d # c => commit'[d] = commit[d]
        PROVE  HeadsInv'
    BY <1>4, <1>5, NearKept
  <1>6. CASE Write(c)
    <2> DEFINE s == commit[c].session
    <2>1. /\ commit'[c].at = "merge" /\ commit'[c].kind = commit[c].kind /\ commit'[c].session = s
      BY <1>1, <1>6 DEF Write, Transaction
    <2>2. \A d \in Commits : commit[d].at # "merge"
      BY <1>6, NotifyAssumption DEF Write, WriteInv, StageOK, Committed
    <2>3. /\ heads' = heads /\ epoch' = epoch
          /\ \A u \in Sessions : \/ Len(rows'[u]) = Len(rows[u])
                                 \/ u = s /\ commit[c].kind \in Kinds /\ Len(rows'[u]) = Len(rows[u]) + 1
      <3>1. [by |-> c, text |-> 0] \in Row /\ rows[s] \in Seq(Row)
        BY <1>1, MadeRow DEF TypeInv, TypeOK
      <3>2. Len(Append(rows[s], [by |-> c, text |-> 0])) = Len(rows[s]) + 1
        BY <3>1, AppendProperties
      <3> QED BY <1>1, <1>6, <3>2 DEF Write, Message, TypeInv, TypeOK
    <2> HIDE DEF s
    <2>4. \A h : Near(h, rows, commit) => Near(h, rows', commit')
      <3> SUFFICES ASSUME NEW h, Near(h, rows, commit), NEW u \in Sessions
                   PROVE  \/ h[u] = Len(rows'[u])
                          \/ \E d \in Commits : /\ commit'[d].at = "merge" /\ commit'[d].kind \in Kinds
                                                /\ commit'[d].session = u
                                                /\ h[u] + 1 = Len(rows'[u])
        BY DEF Near
      <3>1. h[u] = Len(rows[u])
        BY <2>2 DEF Near
      <3> QED BY <2>1, <2>3, <3>1
    <2> QED BY <1>4, <2>3, <2>4
  <1>7. CASE MergeHeads(c)
    <2> DEFINE s == commit[c].session
    <2>1. /\ commit[c].at = "merge" /\ heads' = Merged(c) /\ epoch' = epoch + 1 /\ rows' = rows
      BY <1>7 DEF MergeHeads
    <2>2. \A d \in Commits : commit[d].at = "merge" => d = c
      BY <2>1, OneMerges DEF Committed
    <2>3. Message(c) => commit[c].seq = Len(rows[s])
      BY <2>1 DEF WriteInv, RowOK, Committed
    <2>4. \A f \in Followers : LoadOK(f)'
      <3>1. epoch \in Nat /\ \A f \in Followers : follower[f].epoch \in Nat
        BY SubscriptionFields DEF TypeInv, TypeOK
      <3> QED BY <1>2, <2>1, <3>1 DEF HeadsInv, LoadOK
    <2>5. ASSUME heads' # NoHeads PROVE \A u \in Sessions : heads'[u] = Len(rows[u])
      <3>1. heads # NoHeads /\ Near(heads, rows, commit) /\ heads \in [Sessions -> Nat]
        BY <2>1, <2>5 DEF Merged, HeadsInv, TypeInv, TypeOK
      <3>2. \A u \in Sessions :
               heads[u] = Len(rows[u]) \/ (Message(c) /\ u = s /\ heads[u] + 1 = Len(rows[u]))
        BY <2>2, <3>1 DEF Near, Message
      <3>3. CASE Message(c)
        <4>1. heads' = IF Len(rows[s]) > heads[s] THEN [heads EXCEPT ![s] = Len(rows[s])] ELSE heads
          <5>1. commit[c].kind # Directory
            BY <3>3, Followed DEF Message
          <5> QED BY <2>1, <2>3, <3>1, <3>3, <5>1 DEF Merged
        <4> QED BY <1>1, <1>3, <3>1, <3>2, <4>1
      <3>4. CASE ~Message(c)
        BY <2>1, <2>5, <3>2, <3>4 DEF Merged
      <3> QED BY <3>3, <3>4
    <2> QED BY <2>1, <2>4, <2>5 DEF HeadsInv, Near
  <1>8. CASE Start(c)
    BY <1>1, <1>5, <1>8 DEF Start, To
  <1>9. CASE Cancel(c)
    BY <1>1, <1>5, <1>9 DEF Cancel, To
  <1>10. CASE WriteFails(c)
    BY <1>1, <1>5, <1>10 DEF WriteFails, To
  <1>11. CASE MergeView(c)
    BY <1>1, <1>5, <1>11 DEF MergeView, To
  <1>12. CASE Announce(c)
    <2>1. \A d \in Commits : d # c => commit'[d] = commit[d]
      BY <1>12 DEF Announce, To, TypeInv, TypeOK
    <2> QED BY <1>5, <1>12, <2>1 DEF Announce
  <1>13. CASE FlushNotify(c)
    <2>1. \A d \in Commits : d # c => commit'[d] = commit[d]
      BY <1>13 DEF FlushNotify, TypeInv, TypeOK
    <2> QED BY <1>5, <1>13, <2>1 DEF FlushNotify
  <1>14. CASE Raise(c)
    BY <1>1, <1>5, <1>14 DEF Raise, To
  <1>15. ASSUME NEW k \in Kinds \cup {Directory, Private}, NEW s \in Sessions, NEW async \in BOOLEAN,
                Begin(c, k, s, async)
         PROVE  HeadsInv'
    <2>1. \A d \in Commits : d # c => commit'[d] = commit[d]
      BY <1>15 DEF Begin, TypeInv, TypeOK
    <2> QED BY <1>5, <1>15, <2>1 DEF Begin
  <1> QED BY <1>6, <1>7, <1>8, <1>9, <1>10, <1>11, <1>12, <1>13, <1>14, <1>15 DEF WriterStep

\* What a follower's own step does to its subscription.
LEMMA FollowerMoves ==
  ASSUME TypeInv, NEW f \in Followers, FollowerStep(f)
  PROVE  /\ \A g \in Followers : g # f => follower'[g] = follower[g]
         /\ UNCHANGED <<rows, revision, commit, writing, viewing, epoch, owed, view, snapshot>>
         /\ Adopt(f) \/ heads' = heads
  <1>1. f \in DOMAIN follower
    BY DEF TypeInv, TypeOK
  <1>2. \A next : Change(f, next) => \A g \in Followers : g # f => follower'[g] = follower[g]
    BY <1>1 DEF Change, TypeInv, TypeOK
  <1> QED BY <1>2 DEF FollowerStep, LoopStep, Subscribe, Clear, ReadCache, Ask, Load, Adopt, Compare,
                      Consumed, Wake, PollAgain, Leave, DeliverTake, DeliverSet, OnlyFollower

\* What becomes of the subscription itself.
LEMMA NextIs ==
  ASSUME TypeInv, NEW f \in Followers, NEW next, Change(f, next)
  PROVE  follower'[f] = next
  BY DEF Change, TypeInv, TypeOK

LEMMA ComparedFields ==
  ASSUME TypeInv, NEW f \in Followers, NEW new
  PROVE  LET g == Compared(f, new) IN
         /\ g.at \in {"yield", "wait"} /\ g.previous = new /\ g.loaded = NoHeads /\ g.epoch = 0
         /\ g.event = follower[f].event /\ g.posted = follower[f].posted
         /\ g.setting = follower[f].setting
  <1>1. follower[f] \in Subscription
    BY DEF TypeInv, TypeOK
  <1> QED BY <1>1 DEF Compared, Subscription

LEMMA HeadsFollower ==
  ASSUME TypeInv, WriteInv, HeadsInv, NEW f \in Followers, FollowerStep(f)
  PROVE  HeadsInv'
  <1>1. follower[f] \in Subscription /\ LoadOK(f) /\ epoch \in Nat
    BY DEF TypeInv, TypeOK, HeadsInv
  <1>2. /\ rows' = rows /\ commit' = commit /\ epoch' = epoch
        /\ \A g \in Followers : g # f => follower'[g] = follower[g]
        /\ Adopt(f) \/ heads' = heads
    BY FollowerMoves
  <1>3. \A g \in Followers : g # f => LoadOK(g)'
    BY <1>2 DEF HeadsInv, LoadOK
  <1>4. CASE Adopt(f)
    <2>1. follower'[f] = [follower[f] EXCEPT !.at = "loaded"]
      BY <1>4, NextIs DEF Adopt
    <2>2. follower'[f].at = "loaded" /\ follower'[f].epoch = follower[f].epoch
      BY <1>1, <2>1 DEF Subscription
    <2>3. LoadOK(f)'
      BY <1>1, <1>2, <2>2 DEF LoadOK
    <2>4. heads' # NoHeads => Near(heads', rows', commit')
      BY <1>1, <1>2, <1>4 DEF Adopt, Adoptable, LoadOK, HeadsInv
    <2> QED BY <1>3, <2>3, <2>4 DEF HeadsInv
  <1>5. CASE ~Adopt(f)
    <2> SUFFICES LoadOK(f)'
      BY <1>2, <1>3, <1>5 DEF HeadsInv
    <2>1. ASSUME NEW next, Change(f, next), next.at # "adopt",
                 next.epoch = 0 \/ next.epoch = epoch \/ next.epoch = follower[f].epoch
          PROVE  LoadOK(f)'
      BY <1>1, <1>2, <2>1, NextIs DEF LoadOK
    <2>2. CASE Load(f)
      <3> DEFINE at == IF f \in Direct \/ follower[f].polled THEN "loaded" ELSE "adopt"
      <3>1. follower'[f] = [follower[f] EXCEPT !.loaded = Heads, !.at = at]
        BY <2>2, NextIs DEF Load
      <3>2. follower'[f].epoch = follower[f].epoch /\ follower'[f].loaded = Heads
        BY <1>1, <3>1 DEF Subscription
      <3>3. Heads # NoHeads
        BY HeadTypes, NotifyAssumption DEF TypeInv
      <3>4. Near(Heads, rows, commit)
        BY DEF Near, Heads
      <3> HIDE DEF at
      <3> QED BY <1>1, <1>2, <3>2, <3>3, <3>4 DEF LoadOK
    <2>3. CASE Subscribe(f)
      BY <2>1, <2>3 DEF Subscribe, Out
    <2>4. CASE Clear(f)
      <3> DEFINE at == IF f \in Direct \/ follower[f].polled THEN "load" ELSE "read"
                 next == [follower[f] EXCEPT !.event = FALSE, !.at = at]
      <3>1. next.at = at /\ next.epoch = follower[f].epoch
        BY <1>1 DEF Subscription
      <3>2. Change(f, next) /\ at # "adopt"
        BY <2>4 DEF Clear
      <3> HIDE DEF next, at
      <3> QED BY <2>1, <3>1, <3>2
    <2>5. CASE ReadCache(f)
      <3> DEFINE next == [follower[f] EXCEPT !.at = "ask"]
      <3>1. next.at = "ask" /\ next.epoch = follower[f].epoch
        BY <1>1 DEF Subscription
      <3>2. Compared(f, heads).at # "adopt" /\ Compared(f, heads).epoch = 0
        BY ComparedFields
      <3> QED BY <2>1, <2>5, <3>1, <3>2 DEF ReadCache
    <2>6. CASE Ask(f)
      <3> DEFINE seen == [follower[f] EXCEPT !.at = "loaded", !.loaded = heads]
                 next == [follower[f] EXCEPT !.at = "load", !.epoch = epoch]
      <3>1. /\ seen.at = "loaded" /\ seen.epoch = follower[f].epoch
            /\ next.at = "load" /\ next.epoch = epoch
        BY <1>1 DEF Subscription
      <3> QED BY <2>1, <2>6, <3>1 DEF Ask
    <2>7. CASE Compare(f)
      <3>1. /\ Compared(f, follower[f].loaded).at # "adopt"
            /\ Compared(f, follower[f].loaded).epoch = 0
        BY ComparedFields
      <3> QED BY <2>1, <2>7, <3>1 DEF Compare
    <2>8. CASE Consumed(f)
      <3> DEFINE next == [follower[f] EXCEPT !.at = "wait"]
      <3>1. next.at = "wait" /\ next.epoch = follower[f].epoch
        BY <1>1 DEF Subscription
      <3> QED BY <2>1, <2>8, <3>1 DEF Consumed
    <2>9. CASE Wake(f)
      <3> DEFINE next == [follower[f] EXCEPT !.at = "clear"]
      <3>1. next.at = "clear" /\ next.epoch = follower[f].epoch
        BY <1>1 DEF Subscription
      <3> QED BY <2>1, <2>9, <3>1 DEF Wake
    <2>10. CASE PollAgain(f)
      <3> DEFINE next == [follower[f] EXCEPT !.at = "clear", !.polled = TRUE]
      <3>1. next.at = "clear" /\ next.epoch = follower[f].epoch
        BY <1>1 DEF Subscription
      <3> QED BY <2>1, <2>10, <3>1 DEF PollAgain
    <2>11. CASE Leave(f)
      BY <2>1, <2>11 DEF Leave, Out
    <2>12. ASSUME NEW next, Change(f, next), next.at = follower[f].at,
                  next.epoch = follower[f].epoch, next.loaded = follower[f].loaded
           PROVE  LoadOK(f)'
      BY <1>1, <1>2, <2>12, NextIs DEF LoadOK
    <2>13. CASE DeliverTake(f)
      <3> DEFINE next == [follower[f] EXCEPT !.posted = FALSE, !.setting = TRUE]
      <3>1. /\ next.at = follower[f].at /\ next.epoch = follower[f].epoch
            /\ next.loaded = follower[f].loaded
        BY <1>1 DEF Subscription
      <3> QED BY <2>12, <2>13, <3>1 DEF DeliverTake
    <2>14. CASE DeliverSet(f)
      <3> DEFINE next == [follower[f] EXCEPT !.event = TRUE, !.setting = FALSE]
      <3>1. /\ next.at = follower[f].at /\ next.epoch = follower[f].epoch
            /\ next.loaded = follower[f].loaded
        BY <1>1 DEF Subscription
      <3> QED BY <2>12, <2>14, <3>1 DEF DeliverSet
    <2> QED BY <1>5, <2>2, <2>3, <2>4, <2>5, <2>6, <2>7, <2>8, <2>9, <2>10, <2>11, <2>13, <2>14
            DEF FollowerStep, LoopStep
  <1> QED BY <1>4, <1>5

\* A rewrite keeps the messages where they are, and their authors.
LEMMA RewriteKeeps ==
  ASSUME TypeInv, NEW s \in Sessions, NEW i \in 1..Cardinality(Commits), Rewrite(s, i)
  PROVE  /\ \A u \in Sessions : /\ Len(rows'[u]) = Len(rows[u])
                                /\ \A j \in 1..Len(rows[u]) : rows'[u][j].by = rows[u][j].by
         /\ UNCHANGED <<commit, writing, viewing, heads, epoch, owed, follower, view, snapshot>>
  <1> DEFINE new == [rows[s] EXCEPT ![i].text = revision + 1]
  <1>1. rows[s] \in Seq(Row) /\ i \in 1..Len(rows[s]) /\ revision + 1 \in Nat
    BY DEF TypeInv, TypeOK, Rewrite
  <1>2. Len(new) = Len(rows[s]) /\ \A j \in 1..Len(rows[s]) : new[j].by = rows[s][j].by
    BY <1>1, Rewritten
  <1>3. rows'[s] = new /\ \A u \in Sessions : u # s => rows'[u] = rows[u]
    BY DEF TypeInv, TypeOK, Rewrite
  <1> HIDE DEF new
  <1> QED BY <1>2, <1>3 DEF Rewrite

LEMMA HeadsStep == TypeInv /\ WriteInv /\ HeadsInv /\ [Next]_vars => HeadsInv'
  <1> SUFFICES ASSUME TypeInv, WriteInv, HeadsInv, [Next]_vars PROVE HeadsInv'
    OBVIOUS
  <1>1. ASSUME UNCHANGED <<rows, commit, heads, epoch, follower>> PROVE HeadsInv'
    BY <1>1 DEF HeadsInv, LoadOK
  <1>2. ASSUME NEW r \in Readers, ReaderStep(r)
        PROVE  UNCHANGED <<rows, commit, heads, epoch, follower>>
    BY <1>2 DEF ReaderStep, SnapLock, SnapBegin, SnapFill, SnapDrop, OnlyReader
  <1>3. ASSUME NEW s \in Sessions, ViewGone(s)
        PROVE  UNCHANGED <<rows, commit, heads, epoch, follower>>
    BY <1>3 DEF ViewGone, OnlyReader
  <1>4. ASSUME NEW s \in Sessions, NEW i \in 1..Cardinality(Commits), Rewrite(s, i)
        PROVE  HeadsInv'
    <2>1. /\ \A u \in Sessions : Len(rows'[u]) = Len(rows[u])
          /\ UNCHANGED <<commit, heads, epoch, follower>>
      BY <1>4, RewriteKeeps
    <2>2. \A h : Near(h, rows, commit) => Near(h, rows', commit')
      BY <2>1, NearKept
    <2> QED BY <2>1, <2>2 DEF HeadsInv, LoadOK
  <1>5. CASE UNCHANGED vars
    BY <1>1, <1>5 DEF vars
  <1> QED BY <1>1, <1>2, <1>3, <1>4, <1>5, HeadsWriter, HeadsFollower DEF Next

LEMMA HeadsHold == Spec => [](TypeInv /\ WriteInv /\ HeadsInv)
  BY TypeInit, TypeStep, WriteInit, WriteStep, HeadsInit, HeadsStep, PTL DEF Spec

\* The cached heads are those of the log, but for a commit that is on its way there:
\* what was loaded while somebody committed is not kept (committed_heads, the epoch).
THEOREM CacheStaysCommitted == Spec => []CacheIsCommitted
  <1>1. TypeInv /\ WriteInv /\ HeadsInv => CacheIsCommitted
    <2> SUFFICES ASSUME TypeInv, HeadsInv, heads # NoHeads,
                        \A c \in Commits : commit[c].at # "merge"
                 PROVE  heads = Heads
      BY DEF CacheIsCommitted
    <2>1. \A s \in Sessions : heads[s] = Len(rows[s])
      BY DEF HeadsInv, Near
    <2> QED BY <2>1 DEF Heads, TypeInv, TypeOK
  <1> QED BY <1>1, HeadsHold, PTL

-----------------------------------------------------------------------------
(* The wake-ups.                                                           *)

\* Heads that show follower f all it asked for.
Shows(f, h, logged, txs) ==
  \A s \in Sessions : \A i \in 1..Len(logged[s]) :
    txs[logged[s][i].by].kind \in Wakes[f] => i <= h[s]

Promised(f) == Unannounced(f) \/ Owed(f)

FollowOK(f) ==
  /\ follower[f].at \in {"adopt", "loaded"} => follower[f].loaded # NoHeads
  /\ follower[f].at \in {"adopt", "loaded"} /\ ~Woken(f) =>
       Promised(f) \/ Shows(f, follower[f].loaded, rows, commit)
  /\ follower[f].at \in {"yield", "wait"} /\ ~Woken(f) =>
       Promised(f) \/ Shows(f, follower[f].previous, rows, commit)

FollowInv == \A f \in Followers : FollowOK(f)

LEMMA FollowInit == Init => FollowInv
  BY DEF Init, FollowInv, FollowOK, Out

\* Heads that are near those of the log show what is not on its way to its followers.
LEMMA NearShows ==
  ASSUME TypeInv, WriteInv, NEW f \in Followers, NEW h \in [Sessions -> Nat],
         Near(h, rows, commit)
  PROVE  Promised(f) \/ Shows(f, h, rows, commit)
  <1> SUFFICES ASSUME ~Unannounced(f), NEW s \in Sessions, NEW i \in 1..Len(rows[s]),
                      commit[rows[s][i].by].kind \in Wakes[f], ~(i <= h[s])
               PROVE  FALSE
    BY DEF Shows, Promised
  <1>1. Len(rows[s]) \in Nat /\ h[s] \in Nat
    BY LenProperties DEF TypeInv, TypeOK
  <1>2. PICK c \in Commits : /\ commit[c].at = "merge" /\ commit[c].kind \in Kinds
                             /\ commit[c].session = s /\ h[s] + 1 = Len(rows[s])
    BY <1>1 DEF Near
  <1>3. i = Len(rows[s])
    BY <1>1, <1>2
  <1>4. rows[s][i] = [by |-> c, text |-> 0]
    BY <1>2, <1>3 DEF WriteInv, RowOK, Message, Committed
  <1>5. commit[c].kind \in Wakes[f]
    BY <1>4
  <1>6. Wakeful(f, Changed(c))
    BY <1>2, <1>5, Followed DEF Wakeful, Changed
  <1> QED BY <1>2, <1>6 DEF Unannounced, Committed

\* What a commit's step leaves of the promise to wake a follower.
LEMMA PromiseKept ==
  ASSUME TypeInv, WriteInv, NEW c \in Commits, WriterStep(c), NEW f \in Followers,
         follower[f].at # "out", Promised(f)
  PROVE  Promised(f)' \/ Woken(f)'
  <1>1. commit[c] \in Transaction /\ c \in DOMAIN commit /\ StageOK(c)
    BY DEF TypeInv, TypeOK, WriteInv
  <1>2. ASSUME NEW at \in Stages, To(c, at), owed' = owed,
               commit[c].at \in Committed => at \in Committed, ~(commit[c].at = "done" /\ commit[c].wrote)
        PROVE  Promised(f)'
    <2>1. /\ commit'[c].at = at /\ commit'[c].kind = commit[c].kind
          /\ commit'[c].async = commit[c].async /\ commit'[c].wrote = commit[c].wrote
          /\ \A d \in Commits : d # c => commit'[d] = commit[d]
      BY <1>2, Moves
    <2>2. \A d \in Commits : Changed(d)' = Changed(d)
      BY <2>1 DEF Changed
    <2>3. Unannounced(f) => Unannounced(f)'
      BY <1>2, <2>1, <2>2 DEF Unannounced, Wakeful
    <2>4. \A d \in Commits : WillFlush(d) => WillFlush(d)'
      BY <1>2, <2>1 DEF WillFlush
    <2>5. Owed(f) => Owed(f)'
      BY <1>2, <2>4 DEF Owed, Wakeful
    <2> QED BY <2>3, <2>5 DEF Promised
  <1>3. ASSUME commit[c].at \notin Committed, ~WillFlush(c), owed' = owed,
               \A d \in Commits : d # c => commit'[d] = commit[d]
        PROVE  Promised(f)'
    <2>1. Unannounced(f) => Unannounced(f)'
      BY <1>3 DEF Unannounced, Wakeful, Changed
    <2>2. Owed(f) => Owed(f)'
      BY <1>3 DEF Owed, Wakeful, WillFlush
    <2> QED BY <2>1, <2>2 DEF Promised
  <1>4. ASSUME NEW k \in Kinds \cup {Directory, Private}, NEW s \in Sessions, NEW async \in BOOLEAN,
               Begin(c, k, s, async)
        PROVE  Promised(f)'
    <2>1. \A d \in Commits : d # c => commit'[d] = commit[d]
      BY <1>4 DEF Begin, TypeInv, TypeOK
    <2> QED BY <1>3, <1>4, <2>1 DEF Begin, Committed, WillFlush
  <1>5. CASE Write(c)
    <2>1. \A d \in Commits : d # c => commit'[d] = commit[d]
      BY <1>5 DEF Write, TypeInv, TypeOK
    <2> QED BY <1>3, <1>5, <2>1 DEF Write, Committed, WillFlush
  <1>6. CASE Start(c)
    BY <1>2, <1>6 DEF Start, Stages, Committed
  <1>7. CASE Cancel(c)
    BY <1>2, <1>7 DEF Cancel, Stages, Committed
  <1>8. CASE WriteFails(c)
    BY <1>2, <1>8 DEF WriteFails, Stages, Committed
  <1>9. CASE MergeHeads(c)
    BY <1>2, <1>9 DEF MergeHeads, Stages, Committed
  <1>10. CASE MergeView(c)
    BY <1>2, <1>10 DEF MergeView, Stages, Committed
  <1>11. CASE Raise(c)
    BY <1>2, <1>11 DEF Raise, Stages, Committed
  <1>12. CASE FlushNotify(c)
    <2> DEFINE next == [commit[c] EXCEPT !.at = "ended", !.told = TRUE]
    <2>1. /\ follower' = Notified(owed) /\ commit' = [commit EXCEPT ![c] = next]
          /\ commit[c].at = "done"
      BY <1>12 DEF FlushNotify
    <2>2. \A d \in Commits : d # c => commit'[d] = commit[d]
      BY <1>1, <2>1 DEF TypeInv, TypeOK
    <2>3. Unannounced(f) => Unannounced(f)'
      BY <2>1, <2>2 DEF Unannounced, Wakeful, Changed, Committed
    <2>4. Owed(f) => Woken(f)'
      BY <2>1, NotifiedFields DEF Owed, Woken
    <2> QED BY <2>3, <2>4 DEF Promised
  <1>13. CASE Announce(c)
    <2> DEFINE at == IF commit[c].async THEN "done" ELSE "ended"
    <2>1. commit[c].at = "announce" /\ To(c, at) /\ at \in Stages
      BY <1>13 DEF Announce, Stages
    <2>2. /\ commit'[c].at = at /\ commit'[c].kind = commit[c].kind
          /\ commit'[c].async = commit[c].async /\ commit'[c].wrote = commit[c].wrote
          /\ \A d \in Commits : d # c => commit'[d] = commit[d]
      BY <2>1, Moves
    <2>3. \A d \in Commits : Unannounced(f) /\ commit[d].at \in Committed => d = c
      BY <2>1, OneMerges DEF Committed
    <2>4. Unannounced(f) => Wakeful(f, Changed(c))
      BY <2>3 DEF Unannounced
    <2>5. CASE commit[c].async
      <3>1. owed' = owed \cup Changed(c) /\ commit[c].wrote
        BY <1>1, <1>13, <2>1, <2>5 DEF Announce, StageOK, Committed
      <3>2. WillFlush(c)'
        BY <2>2, <2>5, <3>1 DEF WillFlush
      <3>3. Wakeful(f, owed)' <=> Wakeful(f, owed')
        BY DEF Wakeful
      <3>4. Wakeful(f, owed) \/ Wakeful(f, Changed(c)) => Wakeful(f, owed')
        BY <3>1 DEF Wakeful
      <3> QED BY <2>4, <3>2, <3>3, <3>4 DEF Promised, Owed
    <2>6. CASE ~commit[c].async
      <3>1. follower' = Notified(Changed(c)) /\ owed' = owed
        BY <1>13, <2>6 DEF Announce
      <3>2. Unannounced(f) => Woken(f)'
        BY <2>4, <3>1, NotifiedFields DEF Woken
      <3>3. \A d \in Commits : WillFlush(d) => WillFlush(d)'
        BY <2>2, <2>6 DEF WillFlush
      <3>4. Owed(f) => Owed(f)'
        BY <3>1, <3>3 DEF Owed, Wakeful
      <3> QED BY <3>2, <3>4 DEF Promised
    <2> QED BY <2>5, <2>6
  <1> QED BY <1>4, <1>5, <1>6, <1>7, <1>8, <1>9, <1>10, <1>11, <1>12, <1>13 DEF WriterStep

\* What it leaves of heads that show all.
LEMMA ShowsKept ==
  ASSUME TypeInv, WriteInv, NEW c \in Commits, WriterStep(c), NEW f \in Followers,
         NEW h, Shows(f, h, rows, commit)
  PROVE  Promised(f)' \/ Shows(f, h, rows', commit')
  <1>1. commit[c] \in Transaction /\ c \in DOMAIN commit
    BY DEF TypeInv, TypeOK
  <1>2. \A s \in Sessions : \A i \in 1..Len(rows[s]) : AuthorOK(s, i) /\ rows[s][i].by \in Commits
    BY Authors DEF WriteInv
  <1>3. ASSUME rows' = rows,
               \A d \in Commits : commit[d].wrote => commit'[d].kind = commit[d].kind
        PROVE  Shows(f, h, rows', commit')
    <2> SUFFICES ASSUME NEW s \in Sessions, NEW i \in 1..Len(rows[s]),
                        commit'[rows[s][i].by].kind \in Wakes[f]
                 PROVE  i <= h[s]
      BY <1>3 DEF Shows
    <2>1. commit[rows[s][i].by].kind \in Wakes[f]
      BY <1>2, <1>3 DEF AuthorOK
    <2> QED BY <2>1 DEF Shows
  <1>4. ASSUME NEW at \in Stages, To(c, at), rows' = rows PROVE Shows(f, h, rows', commit')
    BY <1>3, <1>4, Moves
  <1>5. CASE Start(c)
    BY <1>4, <1>5 DEF Start, Stages
  <1>6. CASE Cancel(c)
    BY <1>4, <1>6 DEF Cancel, Stages
  <1>7. CASE WriteFails(c)
    BY <1>4, <1>7 DEF WriteFails, Stages
  <1>8. CASE MergeHeads(c)
    BY <1>4, <1>8 DEF MergeHeads, Stages, Committed
  <1>9. CASE MergeView(c)
    BY <1>4, <1>9 DEF MergeView, Stages, Committed
  <1>10. CASE Raise(c)
    BY <1>4, <1>10 DEF Raise, Stages
  <1>11. CASE Announce(c)
    BY <1>4, <1>11 DEF Announce, Stages
  <1>12. CASE FlushNotify(c)
    <2> DEFINE next == [commit[c] EXCEPT !.at = "ended", !.told = TRUE]
    <2>1. commit' = [commit EXCEPT ![c] = next] /\ rows' = rows
      BY <1>12 DEF FlushNotify
    <2>2. next.kind = commit[c].kind
      BY <1>1 DEF Transaction
    <2> HIDE DEF next
    <2>3. \A d \in Commits : commit'[d].kind = commit[d].kind
      BY <1>1, <2>1, <2>2 DEF TypeInv, TypeOK
    <2> QED BY <1>3, <2>1, <2>3
  <1>13. ASSUME NEW k \in Kinds \cup {Directory, Private}, NEW s \in Sessions, NEW async \in BOOLEAN,
                Begin(c, k, s, async)
         PROVE  Shows(f, h, rows', commit')
    <2>1. ~commit[c].wrote
      BY <1>13 DEF Begin, WriteInv, StageOK
    <2>2. \A d \in Commits : d # c => commit'[d] = commit[d]
      BY <1>13 DEF Begin, TypeInv, TypeOK
    <2> QED BY <1>3, <1>13, <2>1, <2>2 DEF Begin
  <1>14. CASE Write(c)
    <2> DEFINE s == commit[c].session
               row == [by |-> c, text |-> 0]
               new == Append(rows[s], row)
    <2>1. /\ commit'[c].at = "merge" /\ commit'[c].kind = commit[c].kind
          /\ \A d \in Commits : d # c => commit'[d] = commit[d]
          /\ rows' = IF Message(c) THEN [rows EXCEPT ![s] = new] ELSE rows
      BY <1>1, <1>14 DEF Write, Transaction, TypeInv, TypeOK
    <2>2. CASE ~Message(c)
      BY <1>3, <2>1, <2>2
    <2>3. CASE Message(c) /\ commit[c].kind \in Wakes[f]
      <3>1. commit[c].kind \in Kinds /\ commit[c].kind # Private
        BY <2>3, Followed DEF Message
      <3>2. Changed(c)' = {commit[c].kind}
        BY <2>1, <3>1 DEF Changed
      <3>3. Unannounced(f)'
        BY <2>1, <2>3, <3>2 DEF Unannounced, Wakeful, Committed
      <3> QED BY <3>3 DEF Promised
    <2>4. CASE Message(c) /\ commit[c].kind \notin Wakes[f]
      <3>1. s \in Sessions /\ rows[s] \in Seq(Row) /\ Len(rows[s]) \in Nat /\ row \in Row
        BY <1>1, TransactionFields, LenProperties, MadeRow DEF TypeInv, TypeOK
      <3>2. /\ Len(new) = Len(rows[s]) + 1 /\ new[Len(rows[s]) + 1] = row
            /\ \A i \in 1..Len(rows[s]) : new[i] = rows[s][i]
        BY <3>1, AppendProperties
      <3>3. rows'[s] = new /\ \A u \in Sessions : u # s => rows'[u] = rows[u]
        BY <2>1, <2>4, <3>1 DEF TypeInv, TypeOK
      <3>4. row.by = c
        OBVIOUS
      <3> HIDE DEF new, row
      <3>5. ASSUME NEW u \in Sessions, NEW i \in 1..Len(rows'[u]),
                   commit'[rows'[u][i].by].kind \in Wakes[f]
            PROVE  i <= h[u]
        <4>1. ~(u = s /\ i = Len(rows[s]) + 1)
          BY <2>1, <2>4, <3>2, <3>3, <3>4, <3>5
        <4>2. i \in 1..Len(rows[u]) /\ rows'[u][i] = rows[u][i]
          BY <3>1, <3>2, <3>3, <4>1
        <4>3. rows[u][i].by \in Commits
          BY <1>2, <4>2
        <4>4. commit[rows[u][i].by].kind \in Wakes[f]
          BY <2>1, <3>5, <4>2, <4>3
        <4> QED BY <4>2, <4>4 DEF Shows
      <3> QED BY <3>5 DEF Shows
    <2> QED BY <2>2, <2>3, <2>4
  <1> QED BY <1>5, <1>6, <1>7, <1>8, <1>9, <1>10, <1>11, <1>12, <1>13, <1>14 DEF WriterStep

LEMMA FollowWriter ==
  ASSUME TypeInv, WriteInv, FollowInv, NEW c \in Commits, WriterStep(c)
  PROVE  FollowInv'
  <1> SUFFICES ASSUME NEW f \in Followers PROVE FollowOK(f)'
    BY DEF FollowInv
  <1>1. FollowOK(f)
    BY DEF FollowInv
  <1>2. /\ follower'[f].at = follower[f].at /\ follower'[f].loaded = follower[f].loaded
        /\ follower'[f].previous = follower[f].previous /\ (Woken(f) => Woken(f)')
    BY WriterFollower
  <1>3. ASSUME NEW h, follower[f].at # "out", ~Woken(f)',
               Promised(f) \/ Shows(f, h, rows, commit)
        PROVE  Promised(f)' \/ Shows(f, h, rows', commit')
    BY <1>3, PromiseKept, ShowsKept
  <1> QED BY <1>1, <1>2, <1>3 DEF FollowOK

LEMMA FollowFollower ==
  ASSUME TypeInv, WriteInv, HeadsInv, FollowInv, NEW f \in Followers, FollowerStep(f)
  PROVE  FollowInv'
  <1>1. follower[f] \in Subscription /\ FollowOK(f)
    BY DEF TypeInv, TypeOK, FollowInv
  <1>2. /\ UNCHANGED <<rows, commit, owed>>
        /\ \A g \in Followers : g # f => follower'[g] = follower[g]
    BY FollowerMoves
  <1>3. \A g \in Followers : Promised(g)' <=> Promised(g)
    BY <1>2 DEF Promised, Unannounced, Owed, Wakeful, Changed, WillFlush
  <1>4. \A g \in Followers : g # f => FollowOK(g)'
    BY <1>2, <1>3 DEF FollowInv, FollowOK, Woken
  <1> SUFFICES FollowOK(f)'
    BY <1>4 DEF FollowInv
  <1>5. ASSUME NEW next, Change(f, next), next.at \notin {"adopt", "loaded", "yield", "wait"}
        PROVE  FollowOK(f)'
    BY <1>5, NextIs DEF FollowOK
  <1>6. heads # NoHeads => Promised(f) \/ Shows(f, heads, rows, commit)
    BY NearShows DEF HeadsInv, TypeInv, TypeOK
  <1>7. CASE Subscribe(f)
    BY <1>5, <1>7 DEF Subscribe, Out
  <1>8. CASE Clear(f)
    <2> DEFINE at == IF f \in Direct \/ follower[f].polled THEN "load" ELSE "read"
               next == [follower[f] EXCEPT !.event = FALSE, !.at = at]
    <2>1. next.at = at
      BY <1>1 DEF Subscription
    <2>2. Change(f, next) /\ at \in {"load", "read"}
      BY <1>8 DEF Clear
    <2> HIDE DEF next, at
    <2> QED BY <1>5, <2>1, <2>2
  <1>9. CASE ReadCache(f)
    <2>1. CASE heads # NoHeads
      <3>1. follower'[f] = Compared(f, heads)
        BY <1>9, <2>1, NextIs DEF ReadCache
      <3> QED BY <1>2, <1>3, <1>6, <2>1, <3>1, ComparedFields DEF FollowOK
    <2>2. CASE heads = NoHeads
      <3> DEFINE next == [follower[f] EXCEPT !.at = "ask"]
      <3>1. next.at = "ask"
        BY <1>1 DEF Subscription
      <3> QED BY <1>5, <1>9, <2>2, <3>1 DEF ReadCache
    <2> QED BY <2>1, <2>2
  <1>10. CASE Ask(f)
    <2>1. CASE heads # NoHeads
      <3> DEFINE next == [follower[f] EXCEPT !.at = "loaded", !.loaded = heads]
      <3>1. follower'[f] = next
        BY <1>10, <2>1, NextIs DEF Ask
      <3>2. next.at = "loaded" /\ next.loaded = heads
        BY <1>1 DEF Subscription
      <3> HIDE DEF next
      <3> QED BY <1>2, <1>3, <1>6, <2>1, <3>1, <3>2 DEF FollowOK
    <2>2. CASE heads = NoHeads
      <3> DEFINE next == [follower[f] EXCEPT !.at = "load", !.epoch = epoch]
      <3>1. next.at = "load"
        BY <1>1 DEF Subscription
      <3> QED BY <1>5, <1>10, <2>2, <3>1 DEF Ask
    <2> QED BY <2>1, <2>2
  <1>11. CASE Load(f)
    <2> DEFINE at == IF f \in Direct \/ follower[f].polled THEN "loaded" ELSE "adopt"
               next == [follower[f] EXCEPT !.loaded = Heads, !.at = at]
    <2>1. follower'[f] = next
      BY <1>11, NextIs DEF Load
    <2>2. next.at = at /\ next.loaded = Heads /\ at \in {"loaded", "adopt"}
      BY <1>1 DEF Subscription
    <2>3. Heads # NoHeads
      BY HeadTypes, NotifyAssumption DEF TypeInv
    <2>4. Shows(f, Heads, rows, commit)
      <3>1. \A s \in Sessions : Heads[s] = Len(rows[s]) /\ Len(rows[s]) \in Nat
        BY LenProperties DEF Heads, TypeInv, TypeOK
      <3> QED BY <3>1 DEF Shows
    <2> HIDE DEF next, at
    <2> QED BY <1>2, <2>1, <2>2, <2>3, <2>4 DEF FollowOK
  <1>12. CASE Adopt(f)
    <2>1. follower'[f] = [follower[f] EXCEPT !.at = "loaded"] /\ follower[f].at = "adopt"
      BY <1>12, NextIs DEF Adopt
    <2>2. /\ follower'[f].at = "loaded" /\ follower'[f].loaded = follower[f].loaded
          /\ follower'[f].event = follower[f].event /\ follower'[f].posted = follower[f].posted
          /\ follower'[f].setting = follower[f].setting
      BY <1>1, <2>1 DEF Subscription
    <2> QED BY <1>1, <1>2, <1>3, <2>1, <2>2 DEF FollowOK, Woken
  <1>13. CASE Compare(f)
    <2>1. follower'[f] = Compared(f, follower[f].loaded) /\ follower[f].at = "loaded"
      BY <1>13, NextIs DEF Compare
    <2> QED BY <1>1, <1>2, <1>3, <2>1, ComparedFields DEF FollowOK, Woken
  <1>14. CASE Consumed(f)
    <2>1. follower'[f] = [follower[f] EXCEPT !.at = "wait"] /\ follower[f].at = "yield"
      BY <1>14, NextIs DEF Consumed
    <2>2. /\ follower'[f].at = "wait" /\ follower'[f].previous = follower[f].previous
          /\ follower'[f].event = follower[f].event /\ follower'[f].posted = follower[f].posted
          /\ follower'[f].setting = follower[f].setting
      BY <1>1, <2>1 DEF Subscription
    <2> QED BY <1>1, <1>2, <1>3, <2>1, <2>2 DEF FollowOK, Woken
  <1>15. CASE Wake(f)
    <2> DEFINE next == [follower[f] EXCEPT !.at = "clear"]
    <2>1. next.at = "clear"
      BY <1>1 DEF Subscription
    <2> QED BY <1>5, <1>15, <2>1 DEF Wake
  <1>16. CASE PollAgain(f)
    <2> DEFINE next == [follower[f] EXCEPT !.at = "clear", !.polled = TRUE]
    <2>1. next.at = "clear"
      BY <1>1 DEF Subscription
    <2> QED BY <1>5, <1>16, <2>1 DEF PollAgain
  <1>17. CASE Leave(f)
    BY <1>5, <1>17 DEF Leave, Out
  <1>18. ASSUME NEW next, Change(f, next), next.at = follower[f].at,
                next.loaded = follower[f].loaded, next.event \/ next.setting
         PROVE  FollowOK(f)'
    BY <1>1, <1>18, NextIs DEF FollowOK, Woken
  <1>19. CASE DeliverTake(f)
    <2> DEFINE next == [follower[f] EXCEPT !.posted = FALSE, !.setting = TRUE]
    <2>1. next.at = follower[f].at /\ next.loaded = follower[f].loaded /\ next.setting
      BY <1>1 DEF Subscription
    <2> QED BY <1>18, <1>19, <2>1 DEF DeliverTake
  <1>20. CASE DeliverSet(f)
    <2> DEFINE next == [follower[f] EXCEPT !.event = TRUE, !.setting = FALSE]
    <2>1. next.at = follower[f].at /\ next.loaded = follower[f].loaded /\ next.event
      BY <1>1 DEF Subscription
    <2> QED BY <1>18, <1>20, <2>1 DEF DeliverSet
  <1> QED BY <1>7, <1>8, <1>9, <1>10, <1>11, <1>12, <1>13, <1>14, <1>15, <1>16, <1>17, <1>19, <1>20
          DEF FollowerStep, LoopStep

LEMMA FollowStep == TypeInv /\ WriteInv /\ HeadsInv /\ FollowInv /\ [Next]_vars => FollowInv'
  <1> SUFFICES ASSUME TypeInv, WriteInv, HeadsInv, FollowInv, [Next]_vars PROVE FollowInv'
    OBVIOUS
  <1>1. ASSUME UNCHANGED <<commit, owed, follower>>,
               \A s \in Sessions : /\ Len(rows'[s]) = Len(rows[s])
                                   /\ \A j \in 1..Len(rows[s]) : rows'[s][j].by = rows[s][j].by
        PROVE  FollowInv'
    <2>1. \A f \in Followers : (Promised(f)' <=> Promised(f)) /\ (Woken(f)' <=> Woken(f))
      BY <1>1 DEF Promised, Unannounced, Owed, Wakeful, Changed, WillFlush, Woken
    <2>2. \A f \in Followers : \A h : Shows(f, h, rows, commit) => Shows(f, h, rows', commit')
      BY <1>1 DEF Shows
    <2> QED BY <1>1, <2>1, <2>2 DEF FollowInv, FollowOK
  <1>2. ASSUME NEW r \in Readers, ReaderStep(r) PROVE UNCHANGED <<rows, commit, owed, follower>>
    BY <1>2 DEF ReaderStep, SnapLock, SnapBegin, SnapFill, SnapDrop, OnlyReader
  <1>3. ASSUME NEW s \in Sessions, ViewGone(s) PROVE UNCHANGED <<rows, commit, owed, follower>>
    BY <1>3 DEF ViewGone, OnlyReader
  <1>4. ASSUME NEW s \in Sessions, NEW i \in 1..Cardinality(Commits), Rewrite(s, i)
        PROVE  FollowInv'
    BY <1>1, <1>4, RewriteKeeps
  <1>5. CASE UNCHANGED vars
    BY <1>1, <1>5 DEF vars
  <1> QED BY <1>1, <1>2, <1>3, <1>4, <1>5, FollowWriter, FollowFollower DEF Next

LEMMA FollowHolds == Spec => []FollowInv
  BY TypeInit, TypeStep, WriteInit, WriteStep, HeadsInit, HeadsStep, FollowInit, FollowStep, PTL
  DEF Spec

\* A follower waits only if it has seen every commit it asked for, or will be woken:
\* neither a merged wake-up nor a debt paid by another committer nor a cancelled one
\* loses the last message (_notify, _deliver, flush_notify).
THEOREM NothingIsMissed == Spec => []NothingMissed
  <1>1. FollowInv => NothingMissed
    BY DEF FollowInv, FollowOK, NothingMissed, Promised, Shows, Covers, Due
  <1> QED BY <1>1, FollowHolds, PTL

-----------------------------------------------------------------------------
(* The shared prefix.                                                      *)

Agree(a, b) == \A i \in 1..Len(a) : i <= Len(b) => a[i] = b[i]
Begins(a, b) == Len(a) <= Len(b) /\ Agree(a, b)

LockOK(r) == snapshot[r].at \in {"locked", "begun"} <=> viewing = r

\* A prefix of the current revision is one of the log.
ViewOK(s) ==
  view[s] # NoView =>
    /\ view[s].revision <= revision
    /\ view[s].revision = revision => Begins(view[s].rows, rows[s])

\* So is what a reader's transaction sees, and it does not contradict a prefix of its
\* revision, which may be longer.
ReadOK(r) ==
  LET p == snapshot[r]
      s == p.session IN
  /\ p.at = "begun" =>
       /\ p.revision <= revision
       /\ p.revision = revision => Begins(p.rows, rows[s])
       /\ view[s] # NoView /\ view[s].revision = p.revision => Agree(view[s].rows, p.rows)
  /\ p.at = "holds" => p.result = Prefix(p.rows, p.upper)

ViewInv ==
  /\ \A r \in Readers : LockOK(r)
  /\ \A s \in Sessions : ViewOK(s)
  /\ \A r \in Readers : ReadOK(r)

LEMMA ViewInit == Init => ViewInv
  <1> SUFFICES ASSUME Init PROVE ViewInv
    OBVIOUS
  <1>1. /\ \A r \in Readers : snapshot[r].at = "idle" /\ viewing # r
        /\ \A s \in Sessions : view[s] = NoView
    BY NotifyAssumption DEF Init
  <1> QED BY <1>1 DEF ViewInv, LockOK, ViewOK, ReadOK

\* What holds of the prefixes and the readers while they stand still.
LEMMA ViewKept ==
  ASSUME TypeInv, ViewInv, UNCHANGED <<view, viewing, snapshot>>, revision' = revision,
         \A s \in Sessions : \A a \in Seq(Row) : Begins(a, rows[s]) => Begins(a, rows'[s])
  PROVE  ViewInv'
  <1>1. /\ \A r \in Readers : snapshot[r].session \in Sessions /\ snapshot[r].rows \in Seq(Row)
        /\ \A s \in Sessions : view[s] # NoView => view[s].rows \in Seq(Row)
    BY ReaderFields, ViewFields DEF TypeInv, TypeOK
  <1>2. \A r \in Readers : LockOK(r)'
    BY DEF ViewInv, LockOK
  <1>3. \A s \in Sessions : ViewOK(s)'
    BY <1>1 DEF ViewInv, ViewOK
  <1>4. \A r \in Readers : ReadOK(r)'
    BY <1>1 DEF ViewInv, ReadOK
  <1> QED BY <1>2, <1>3, <1>4 DEF ViewInv

\* A prefix that gets longer is still one.
LEMMA Longer ==
  ASSUME NEW a, NEW old \in Seq(Row), NEW new \in Seq(Row), Begins(old, new), Begins(a, old),
         Len(a) \in Nat
  PROVE  Begins(a, new)
  <1>1. Len(old) \in Nat /\ Len(new) \in Nat
    BY LenProperties
  <1> QED BY <1>1 DEF Begins, Agree

LEMMA ViewWriter ==
  ASSUME TypeInv, WriteInv, ViewInv, NEW c \in Commits, WriterStep(c)
  PROVE  ViewInv'
  <1>1. commit[c] \in Transaction /\ commit[c].session \in Sessions
    BY TransactionFields DEF TypeInv, TypeOK
  <1>2. \A s \in Sessions : rows[s] \in Seq(Row) /\ Len(rows[s]) \in Nat
    BY LenProperties DEF TypeInv, TypeOK
  <1>3. CASE MergeView(c)
    <2> DEFINE s == commit[c].session
               row == [by |-> c, text |-> 0]
               new == Append(view[s].rows, row)
    <2>1. /\ commit[c].at = "extend" /\ viewing = Nobody /\ view' = Extended(c)
          /\ UNCHANGED <<rows, revision, viewing, snapshot>>
      BY <1>3 DEF MergeView
    <2>2. \A r \in Readers : viewing # r /\ snapshot[r].at # "begun"
      BY <2>1, NotifyAssumption DEF ViewInv, LockOK
    <2>3. \A r \in Readers : LockOK(r)' /\ ReadOK(r)'
      BY <2>1, <2>2 DEF ViewInv, LockOK, ReadOK
    <2>4. \A u \in Sessions : u # s => view'[u] = view[u]
      BY <2>1 DEF Extended, TypeInv, TypeOK
    <2>5. \A u \in Sessions : u # s => ViewOK(u)'
      BY <2>1, <2>4 DEF ViewInv, ViewOK
    <2>6. ASSUME NEW u \in Sessions, u = s
          PROVE  ViewOK(u)'
      <3>1. CASE ~(Message(c) /\ view[s] # NoView /\ commit[c].seq = Len(view[s].rows) + 1)
        <4>1. view' = view /\ rows' = rows /\ revision' = revision
          BY <2>1, <3>1 DEF Extended
        <4> QED BY <4>1 DEF ViewInv, ViewOK
      <3>2. CASE Message(c) /\ view[s] # NoView /\ commit[c].seq = Len(view[s].rows) + 1
        <4>1. view[s] \in View /\ view[s].rows \in Seq(Row) /\ Len(view[s].rows) \in Nat
          BY <1>1, <3>2, ViewFields, LenProperties DEF TypeInv, TypeOK
        <4>2. /\ Len(new) = Len(view[s].rows) + 1 /\ new[Len(view[s].rows) + 1] = row
              /\ \A i \in 1..Len(view[s].rows) : new[i] = view[s].rows[i]
          <5> DEFINE old == view[s].rows
          <5>1. row \in Row
            BY MadeRow
          <5>2. old \in Seq(Row) /\ new = Append(old, row)
            BY <4>1
          <5> HIDE DEF row, old, new
          <5>3. /\ Len(new) = Len(old) + 1 /\ new[Len(old) + 1] = row
                /\ \A i \in 1..Len(old) : new[i] = old[i]
            BY <5>1, <5>2, AppendProperties
          <5> QED BY <5>3 DEF old
        <4>3. view'[s].rows = new /\ view'[s].revision = view[s].revision
          BY <1>1, <2>1, <3>2, <4>1 DEF Extended, View, TypeInv, TypeOK
        <4>4. commit[c].seq = Len(rows[s]) /\ rows[s][commit[c].seq] = row
          BY <2>1, <3>2 DEF WriteInv, RowOK, Committed
        <4>5. /\ view[s].revision <= revision
              /\ view[s].revision = revision => Begins(view[s].rows, rows[s])
          BY <1>1, <3>2 DEF ViewInv, ViewOK
        <4> HIDE DEF new, row
        <4>6. ASSUME Begins(view[s].rows, rows[s]) PROVE Begins(new, rows[s])
          <5>1. Len(new) = Len(rows[s])
            BY <3>2, <4>2, <4>4
          <5>2. ASSUME NEW i \in 1..Len(new) PROVE new[i] = rows[s][i]
            <6>1. CASE i = Len(view[s].rows) + 1
              BY <3>2, <4>2, <4>4, <6>1
            <6>2. CASE i # Len(view[s].rows) + 1
              <7>1. i \in 1..Len(view[s].rows)
                BY <4>1, <4>2, <6>2
              <7>2. i <= Len(rows[s])
                BY <5>1
              <7> QED BY <4>2, <4>6, <7>1, <7>2 DEF Begins, Agree
            <6> QED BY <6>1, <6>2
          <5> QED BY <1>1, <1>2, <5>1, <5>2 DEF Begins, Agree
        <4>7. rows'[s] = rows[s] /\ revision' = revision
          BY <2>1
        <4>8. view'[s].revision = revision' => Begins(view'[s].rows, rows'[s])
          BY <4>3, <4>5, <4>6, <4>7
        <4>9. view'[s].revision <= revision'
          BY <4>3, <4>5, <4>7
        <4> HIDE DEF s
        <4> QED BY <2>6, <4>8, <4>9 DEF ViewOK
      <3> QED BY <3>1, <3>2
    <2>7. \A u \in Sessions : ViewOK(u)'
      BY <2>5, <2>6
    <2> QED BY <2>3, <2>7 DEF ViewInv
  <1>4. CASE Write(c)
    <2> DEFINE s == commit[c].session
               row == [by |-> c, text |-> 0]
               new == Append(rows[s], row)
    <2>1. /\ rows' = IF Message(c) THEN [rows EXCEPT ![s] = new] ELSE rows
          /\ UNCHANGED <<revision, view, viewing, snapshot>>
      BY <1>4 DEF Write
    <2>2. /\ new \in Seq(Row) /\ Len(new) = Len(rows[s]) + 1
          /\ \A i \in 1..Len(rows[s]) : new[i] = rows[s][i]
      BY <1>1, <1>2, MadeRow, AppendProperties
    <2> HIDE DEF new
    <2>3. Begins(rows[s], new)
      BY <1>1, <1>2, <2>2 DEF Begins, Agree
    <2>4. \A u \in Sessions : \A a \in Seq(Row) : Begins(a, rows[u]) => Begins(a, rows'[u])
      <3> SUFFICES ASSUME NEW u \in Sessions, NEW a \in Seq(Row), Begins(a, rows[u])
                   PROVE  Begins(a, rows'[u])
        OBVIOUS
      <3>1. CASE rows'[u] = rows[u]
        BY <3>1
      <3>2. CASE u = s /\ rows'[u] = new
        BY <1>2, <2>2, <2>3, <3>2, Longer, LenProperties
      <3> QED BY <2>1, <3>1, <3>2 DEF TypeInv, TypeOK
    <2> QED BY <2>1, <2>4, ViewKept
  <1>5. CASE ~MergeView(c) /\ ~Write(c)
    <2>1. UNCHANGED <<rows, revision, view, viewing, snapshot>>
      BY <1>5 DEF WriterStep, Begin, Start, Cancel, WriteFails, MergeHeads, Announce, FlushNotify,
                  Raise
    <2> QED BY <2>1, ViewKept
  <1> QED BY <1>3, <1>4, <1>5

LEMMA ViewReader ==
  ASSUME TypeInv, ViewInv, NEW r \in Readers, ReaderStep(r)
  PROVE  ViewInv'
  <1>1. snapshot[r] \in Reader /\ r \in DOMAIN snapshot
    BY DEF TypeInv, TypeOK
  <1>2. /\ snapshot[r].session \in Sessions /\ snapshot[r].rows \in Seq(Row)
        /\ snapshot[r].upper \in Nat /\ snapshot[r].revision \in Nat /\ revision \in Nat
        /\ \A s \in Sessions : rows[s] \in Seq(Row) /\ Len(rows[s]) \in Nat
    BY <1>1, ReaderFields, LenProperties DEF TypeInv, TypeOK
  <1>3. UNCHANGED <<rows, revision>>
    BY DEF ReaderStep, SnapLock, SnapBegin, SnapFill, SnapDrop, OnlyReader
  <1>4. ASSUME NEW next, snapshot' = [snapshot EXCEPT ![r] = next]
        PROVE  /\ snapshot'[r] = next /\ \A q \in Readers : q # r => snapshot'[q] = snapshot[q]
    BY <1>1, <1>4 DEF TypeInv, TypeOK
  <1>5. ASSUME NEW s \in Sessions, SnapLock(r, s)
        PROVE  ViewInv'
    <2> DEFINE next == [snapshot[r] EXCEPT !.at = "locked", !.session = s]
    <2>1. next.at = "locked"
      BY <1>1 DEF Reader
    <2>2. /\ snapshot' = [snapshot EXCEPT ![r] = next] /\ viewing = Nobody /\ viewing' = r
          /\ view' = view
      BY <1>5 DEF SnapLock
    <2> HIDE DEF next
    <2>3. snapshot'[r] = next /\ \A q \in Readers : q # r => snapshot'[q] = snapshot[q]
      BY <1>4, <2>2
    <2>4. \A q \in Readers : LockOK(q)'
      BY <2>1, <2>2, <2>3, NotifyAssumption DEF ViewInv, LockOK
    <2>5. \A q \in Readers : ReadOK(q)'
      BY <1>3, <2>1, <2>2, <2>3 DEF ViewInv, ReadOK
    <2> QED BY <1>3, <2>2, <2>4, <2>5 DEF ViewInv, ViewOK
  <1>6. ASSUME NEW n \in 0..Cardinality(Commits), SnapBegin(r, n)
        PROVE  ViewInv'
    <2> DEFINE s == snapshot[r].session
               upper == Minor(n, Len(rows[s]))
               next == [snapshot[r] EXCEPT !.at = "begun", !.revision = revision,
                                           !.rows = rows[s], !.upper = upper]
    <2>1. /\ next.at = "begun" /\ next.session = s /\ next.revision = revision
          /\ next.rows = rows[s]
      BY <1>1 DEF Reader
    <2>2. /\ snapshot' = [snapshot EXCEPT ![r] = next] /\ snapshot[r].at = "locked"
          /\ view' = view /\ viewing' = viewing
      BY <1>6 DEF SnapBegin
    <2> HIDE DEF next, s
    <2>3. snapshot'[r] = next /\ \A q \in Readers : q # r => snapshot'[q] = snapshot[q]
      BY <1>4, <2>2
    <2>4. \A q \in Readers : LockOK(q)'
      BY <2>1, <2>2, <2>3 DEF ViewInv, LockOK
    <2>5. s \in Sessions /\ rows[s] \in Seq(Row) /\ Len(rows[s]) \in Nat
      BY <1>2 DEF s
    <2>6. ReadOK(r)'
      <3>1. Begins(rows[s], rows[s])
        BY <2>5 DEF Begins, Agree
      <3>2. view[s] # NoView /\ view[s].revision = revision => Agree(view[s].rows, rows[s])
        BY <2>5 DEF ViewInv, ViewOK, Begins
      <3> QED BY <1>2, <1>3, <2>1, <2>2, <2>3, <3>1, <3>2 DEF ReadOK
    <2>7. \A q \in Readers : q # r => ReadOK(q)'
      BY <1>3, <2>2, <2>3 DEF ViewInv, ReadOK
    <2> QED BY <1>3, <2>2, <2>4, <2>6, <2>7 DEF ViewInv, ViewOK
  <1>7. CASE SnapFill(r)
    <2> DEFINE s == snapshot[r].session
               old == Reusable(r)
               new == Filled(r)
               seen == snapshot[r].rows
               upper == snapshot[r].upper
               next == [snapshot[r] EXCEPT !.at = "holds", !.result = Prefix(new, upper)]
               v == [revision |-> snapshot[r].revision, rows |-> new]
    <2>1. /\ snapshot' = [snapshot EXCEPT ![r] = next] /\ view' = [view EXCEPT ![s] = v]
          /\ snapshot[r].at = "begun" /\ viewing' = Nobody
      BY <1>7 DEF SnapFill
    <2>2. /\ next.at = "holds" /\ next.result = Prefix(new, upper)
          /\ next.rows = seen /\ next.upper = upper
      BY <1>1 DEF Reader
    <2>3. v.revision = snapshot[r].revision /\ v.rows = new
      OBVIOUS
    <2>4. /\ old \in Seq(Row) /\ new \in Seq(Row)
          /\ Len(new) = IF upper > Len(old) THEN upper ELSE Len(old)
          /\ \A i \in 1..Len(new) : new[i] = IF i <= Len(old) THEN old[i] ELSE seen[i]
      BY <2>1, FilledIs
    <2>5. /\ upper <= Len(seen) /\ s \in Sessions /\ seen \in Seq(Row) /\ upper \in Nat
          /\ Len(seen) \in Nat /\ Len(old) \in Nat /\ Len(new) \in Nat
      BY <1>2, <2>1, <2>4, LenProperties DEF TypeInv, UpperOK
    <2>6. ReadOK(r)
      BY DEF ViewInv
    <2>7. Agree(old, seen)
      <3>1. CASE view[s] # NoView /\ view[s].revision = snapshot[r].revision
        BY <2>1, <2>6, <3>1 DEF Reusable, ReadOK
      <3>2. CASE ~(view[s] # NoView /\ view[s].revision = snapshot[r].revision)
        <4>1. old = <<>>
          BY <3>2 DEF Reusable
        <4> QED BY <4>1 DEF Agree
      <3> QED BY <3>1, <3>2
    <2>8. ASSUME snapshot[r].revision = revision
          PROVE  Begins(old, rows[s]) /\ Begins(seen, rows[s])
      <3>1. Begins(seen, rows[s])
        BY <2>1, <2>6, <2>8 DEF ReadOK
      <3>2. CASE view[s] # NoView /\ view[s].revision = snapshot[r].revision
        BY <2>5, <2>8, <3>1, <3>2 DEF Reusable, ViewInv, ViewOK
      <3>3. CASE ~(view[s] # NoView /\ view[s].revision = snapshot[r].revision)
        <4>1. old = <<>>
          BY <3>3 DEF Reusable
        <4>2. Len(old) = 0
          BY <4>1
        <4> QED BY <1>2, <2>5, <3>1, <4>2 DEF Begins, Agree
      <3> QED BY <3>1, <3>2, <3>3
    <2> HIDE DEF next, v, old, new
    <2>9. snapshot'[r] = next /\ \A q \in Readers : q # r => snapshot'[q] = snapshot[q]
      BY <1>4, <2>1
    <2>10. view'[s] = v /\ \A u \in Sessions : u # s => view'[u] = view[u]
      BY <2>1, <2>5 DEF TypeInv, TypeOK
    <2>11. \A q \in Readers : q # r => snapshot[q].at \notin {"locked", "begun"}
      BY <2>1 DEF ViewInv, LockOK
    <2>12. \A q \in Readers : LockOK(q)'
      BY <2>1, <2>2, <2>9, <2>11, NotifyAssumption DEF LockOK
    <2>13. ASSUME snapshot[r].revision = revision
           PROVE  Begins(new, rows[s])
      <3>1. Len(rows[s]) \in Nat /\ Begins(old, rows[s]) /\ Begins(seen, rows[s])
        BY <1>2, <2>5, <2>8, <2>13
      <3>2. Len(new) <= Len(rows[s])
        BY <2>4, <2>5, <3>1 DEF Begins
      <3>3. ASSUME NEW i \in 1..Len(new) PROVE new[i] = rows[s][i]
        <4>1. CASE i <= Len(old)
          BY <2>4, <2>5, <3>1, <3>2, <4>1 DEF Begins, Agree
        <4>2. CASE ~(i <= Len(old))
          <5>1. i \in 1..Len(seen) /\ i <= Len(rows[s]) /\ new[i] = seen[i]
            BY <2>4, <2>5, <3>1, <3>2, <4>2
          <5> QED BY <3>1, <5>1 DEF Begins, Agree
        <4> QED BY <4>1, <4>2
      <3> QED BY <3>2, <3>3 DEF Begins, Agree
    <2>14. \A u \in Sessions : ViewOK(u)'
      <3>1. ASSUME NEW u \in Sessions, u = s
            PROVE  ViewOK(u)'
        <4>1. snapshot[r].revision <= revision
          BY <2>1, <2>6 DEF ReadOK
        <4>2. rows'[s] = rows[s] /\ revision' = revision
          BY <1>3
        <4>3. view'[s].revision = snapshot[r].revision /\ view'[s].rows = new
          BY <2>3, <2>10
        <4>4. view'[s].revision = revision' => Begins(view'[s].rows, rows'[s])
          BY <2>13, <4>2, <4>3
        <4>5. view'[s].revision <= revision'
          BY <4>1, <4>2, <4>3
        <4> HIDE DEF s
        <4> QED BY <3>1, <4>4, <4>5 DEF ViewOK
      <3>2. \A u \in Sessions : u # s => ViewOK(u)'
        BY <1>3, <2>10 DEF ViewInv, ViewOK
      <3> QED BY <3>1, <3>2
    <2>15. Prefix(new, upper) = Prefix(seen, upper)
      <3>1. Minor(upper, Len(new)) = upper /\ Minor(upper, Len(seen)) = upper
        BY <2>4, <2>5 DEF Minor
      <3>2. /\ Prefix(new, upper) \in Seq(Row) /\ Len(Prefix(new, upper)) = upper
            /\ \A i \in 1..upper : Prefix(new, upper)[i] = new[i]
        <4>1. new \in Seq(Row) /\ upper \in Nat
          BY <2>4, <2>5
        <4> HIDE DEF upper
        <4> QED BY <3>1, <4>1, PrefixOf
      <3>3. /\ Prefix(seen, upper) \in Seq(Row) /\ Len(Prefix(seen, upper)) = upper
            /\ \A i \in 1..upper : Prefix(seen, upper)[i] = seen[i]
        <4>1. seen \in Seq(Row) /\ upper \in Nat
          BY <2>5
        <4> HIDE DEF upper, seen
        <4> QED BY <3>1, <4>1, PrefixOf
      <3>4. ASSUME NEW i \in 1..upper PROVE new[i] = seen[i]
        <4>1. i \in 1..Len(new) /\ i <= Len(seen)
          BY <2>4, <2>5
        <4> QED BY <2>4, <2>5, <2>7, <4>1 DEF Agree
      <3> QED BY <3>2, <3>3, <3>4, SeqEqual
    <2>16. \A q \in Readers : ReadOK(q)'
      <3>1. ReadOK(r)'
        BY <2>2, <2>9, <2>15 DEF ReadOK
      <3>2. \A q \in Readers : q # r => ReadOK(q)'
        BY <2>9, <2>11 DEF ViewInv, ReadOK
      <3> QED BY <3>1, <3>2
    <2> QED BY <2>12, <2>14, <2>16 DEF ViewInv
  <1>8. CASE SnapDrop(r)
    <2> DEFINE next == [snapshot[r] EXCEPT !.at = "idle", !.rows = <<>>, !.result = <<>>,
                                           !.upper = 0, !.revision = 0]
    <2>1. next.at = "idle"
      BY <1>1 DEF Reader
    <2>2. /\ snapshot' = [snapshot EXCEPT ![r] = next] /\ snapshot[r].at = "holds"
          /\ view' = view /\ viewing' = viewing
      BY <1>8 DEF SnapDrop
    <2> HIDE DEF next
    <2>3. snapshot'[r] = next /\ \A q \in Readers : q # r => snapshot'[q] = snapshot[q]
      BY <1>4, <2>2
    <2>4. \A q \in Readers : LockOK(q)'
      BY <2>1, <2>2, <2>3 DEF ViewInv, LockOK
    <2>5. \A q \in Readers : ReadOK(q)'
      BY <1>3, <2>1, <2>2, <2>3 DEF ViewInv, ReadOK
    <2> QED BY <1>3, <2>2, <2>4, <2>5 DEF ViewInv, ViewOK
  <1> QED BY <1>5, <1>6, <1>7, <1>8 DEF ReaderStep

LEMMA ViewOthers ==
  ASSUME TypeInv, ViewInv, NEW s \in Sessions
  PROVE  /\ ViewGone(s) => ViewInv'
         /\ \A i \in 1..Cardinality(Commits) : Rewrite(s, i) => ViewInv'
  <1>1. ASSUME ViewGone(s) PROVE ViewInv'
    <2>1. /\ view' = [view EXCEPT ![s] = NoView] /\ viewing = Nobody
          /\ UNCHANGED <<rows, revision, viewing, snapshot>>
      BY <1>1 DEF ViewGone, OnlyReader
    <2>2. \A r \in Readers : viewing # r /\ snapshot[r].at # "begun"
      BY <2>1, NotifyAssumption DEF ViewInv, LockOK
    <2>3. \A u \in Sessions : view'[u] = NoView \/ view'[u] = view[u]
      BY <2>1 DEF TypeInv, TypeOK
    <2>4. \A r \in Readers : LockOK(r)' /\ ReadOK(r)'
      BY <2>1, <2>2 DEF ViewInv, LockOK, ReadOK
    <2> QED BY <2>1, <2>3, <2>4 DEF ViewInv, ViewOK
  <1>2. ASSUME NEW i \in 1..Cardinality(Commits), Rewrite(s, i) PROVE ViewInv'
    <2>1. revision' = revision + 1 /\ UNCHANGED <<viewing, view, snapshot>>
      BY <1>2 DEF Rewrite
    <2>2. /\ revision \in Nat
          /\ \A u \in Sessions : view[u] # NoView => view[u].revision \in Nat
          /\ \A r \in Readers : snapshot[r].revision \in Nat
      BY ViewFields, ReaderFields DEF TypeInv, TypeOK
    <2>3. \A u \in Sessions : ViewOK(u)'
      BY <2>1, <2>2 DEF ViewInv, ViewOK
    <2>4. \A r \in Readers : LockOK(r)' /\ ReadOK(r)'
      BY <2>1, <2>2 DEF ViewInv, LockOK, ReadOK
    <2> QED BY <2>3, <2>4 DEF ViewInv
  <1> QED BY <1>1, <1>2

LEMMA ViewStep == TypeInv /\ WriteInv /\ ViewInv /\ [Next]_vars => ViewInv'
  <1> SUFFICES ASSUME TypeInv, WriteInv, ViewInv, [Next]_vars PROVE ViewInv'
    OBVIOUS
  <1>1. ASSUME UNCHANGED <<rows, revision, view, viewing, snapshot>> PROVE ViewInv'
    BY <1>1, ViewKept
  <1>2. ASSUME NEW f \in Followers, FollowerStep(f)
        PROVE  UNCHANGED <<rows, revision, view, viewing, snapshot>>
    BY <1>2, FollowerMoves
  <1>3. CASE UNCHANGED vars
    BY <1>1, <1>3 DEF vars
  <1> QED BY <1>1, <1>2, <1>3, ViewWriter, ViewReader, ViewOthers DEF Next

LEMMA ViewHolds == Spec => []ViewInv
  BY TypeInit, TypeStep, WriteInit, WriteStep, ViewInit, ViewStep, PTL DEF Spec

\* A snapshot has the messages its transaction saw, although the shared prefix was put
\* together by other readers and by writers, and others rewrote messages in between
\* (committed_snapshot, _merge_heads).
THEOREM SnapshotsStayTrue == Spec => []SnapshotsAreTrue
  <1>1. ViewInv => SnapshotsAreTrue
    BY DEF ViewInv, ReadOK, SnapshotsAreTrue
  <1> QED BY <1>1, ViewHolds, PTL
=============================================================================
