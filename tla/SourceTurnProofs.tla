--------------------------- MODULE SourceTurnProofs ---------------------------
(***************************************************************************)
(* Which turn of a source is open: theorems about SourceSession that speak *)
(* of the state folded over the whole log.  First the fold and the indexed *)
(* reading of the log as such; then who may answer, deliver or be stopped; *)
(* last, that the source keeps the promise of SourcePromise.               *)
(***************************************************************************)
EXTENDS SourceSessionProofs

-----------------------------------------------------------------------------
(* The fold.                                                               *)

\* The function that FoldedState(upto) is read from.
Folds(f, upto) ==
  f = [n \in 0..upto |-> IF n = 0 THEN EmptyState ELSE AddMessage(f[n - 1], n)]

\* Every prefix of the log can be folded.
LEMMA FoldExists == \A k \in Nat : \E f : Folds(f, k)
<1> DEFINE S == {k \in Nat : \E f : Folds(f, k)}
<1>1. 0 \in S
  <2>1. Folds([n \in 0..0 |-> EmptyState], 0) BY DEF Folds
  <2> QED BY <2>1
<1>2. ASSUME NEW k \in Nat, k \in S PROVE k + 1 \in S
  <2>1. PICK f : Folds(f, k) BY <1>2
  <2> DEFINE g == [n \in 0..(k + 1) |-> IF n = 0 THEN EmptyState ELSE AddMessage(f[n - 1], n)]
  <2>2. \A n \in 0..k : g[n] = f[n] BY <2>1 DEF Folds
  <2>3. \A n \in 0..(k + 1) : n # 0 => n - 1 \in 0..k OBVIOUS
  <2>4. g = [n \in 0..(k + 1) |-> IF n = 0 THEN EmptyState ELSE AddMessage(f[n - 1], n)]
    OBVIOUS
  <2> HIDE DEF g
  <2>5. \A n \in 0..(k + 1) : n # 0 => g[n - 1] = f[n - 1] BY <2>2, <2>3
  <2>6. Folds(g, k + 1) BY <2>4, <2>5 DEF Folds
  <2> QED BY <2>6
<1> HIDE DEF S
<1>3. \A k \in Nat : k >= 0 => k \in S BY <1>1, <1>2, AllNumbers
<1> QED BY <1>3 DEF S

\* Two folds agree wherever both are defined.
LEMMA FoldUnique ==
  ASSUME NEW a \in Nat, NEW b \in Nat, NEW f, NEW g, Folds(f, a), Folds(g, b), a <= b
  PROVE  \A n \in 0..a : f[n] = g[n]
<1> DEFINE S == {n \in Nat : n <= a => f[n] = g[n]}
<1>1. 0 \in S BY DEF Folds
<1>2. ASSUME NEW n \in Nat, n \in S PROVE n + 1 \in S
  <2> SUFFICES ASSUME n + 1 <= a PROVE f[n + 1] = g[n + 1] OBVIOUS
  <2>1. f[n] = g[n] BY <1>2
  <2>2. /\ n + 1 \in 0..a /\ n + 1 \in 0..b /\ n + 1 # 0 /\ (n + 1) - 1 = n OBVIOUS
  <2>3. f[n + 1] = AddMessage(f[n], n + 1) BY <2>2 DEF Folds
  <2>4. g[n + 1] = AddMessage(g[n], n + 1) BY <2>2 DEF Folds
  <2> QED BY <2>1, <2>3, <2>4
<1> HIDE DEF S
<1>3. \A n \in Nat : n >= 0 => n \in S BY <1>1, <1>2, AllNumbers
<1> QED BY <1>3 DEF S

\* What FoldedState computes: nothing of the empty prefix, one message at a time.
FoldEquation ==
  /\ FoldedState(0) = EmptyState
  /\ \A k \in Nat : FoldedState(k + 1) = AddMessage(FoldedState(k), k + 1)

\* The fold of a prefix is that of the prefix before it and one message more.
LEMMA FoldStep == FoldEquation
<1>1. \A k \in Nat : \E f : Folds(f, k) /\ FoldedState(k) = f[k]
  BY FoldExists DEF FoldedState, Folds
<1>2. FoldedState(0) = EmptyState
  <2>1. PICK f : Folds(f, 0) /\ FoldedState(0) = f[0] BY <1>1
  <2> QED BY <2>1 DEF Folds
<1>3. ASSUME NEW k \in Nat PROVE FoldedState(k + 1) = AddMessage(FoldedState(k), k + 1)
  <2>1. PICK f : Folds(f, k) /\ FoldedState(k) = f[k] BY <1>1
  <2>2. PICK g : Folds(g, k + 1) /\ FoldedState(k + 1) = g[k + 1] BY <1>1
  <2>3. f[k] = g[k] BY <2>1, <2>2, FoldUnique
  <2>4. g[k + 1] = AddMessage(g[k], k + 1)
    <3>1. k + 1 \in 0..(k + 1) /\ k + 1 # 0 /\ (k + 1) - 1 = k OBVIOUS
    <3> QED BY <2>2, <3>1 DEF Folds
  <2> QED BY <2>1, <2>2, <2>3, <2>4
<1> QED BY <1>2, <1>3 DEF FoldEquation

\* So it is in the next state.
LEMMA FoldStepNext == FoldEquation'
BY FoldStep, PTL

\* A prefix is folded to the same state after the log has grown.
LEMMA FoldStays ==
  ASSUME NEW k \in Nat, \A n \in 1..k : log'[n] = log[n]
  PROVE  \A n \in 0..k : FoldedState(n)' = FoldedState(n)
<1> DEFINE S == {n \in Nat : n <= k => FoldedState(n)' = FoldedState(n)}
<1>1. /\ FoldedState(0)' = EmptyState
      /\ \A n \in Nat : FoldedState(n + 1)' = AddMessage(FoldedState(n), n + 1)'
  BY FoldStepNext DEF FoldEquation, EmptyState
<1>2. 0 \in S BY <1>1, FoldStep DEF FoldEquation
<1>3. ASSUME NEW n \in Nat, n \in S PROVE n + 1 \in S
  <2> SUFFICES ASSUME n + 1 <= k PROVE FoldedState(n + 1)' = FoldedState(n + 1) OBVIOUS
  <2>1. FoldedState(n)' = FoldedState(n) BY <1>3
  <2>2. log'[n + 1] = log[n + 1] OBVIOUS
  <2>3. AddMessage(FoldedState(n), n + 1)' = AddMessage(FoldedState(n), n + 1)
    BY <2>1, <2>2 DEF AddMessage, AddControl
  <2> QED BY <1>1, <2>3, FoldStep DEF FoldEquation
<1> HIDE DEF S
<1>4. \A n \in Nat : n >= 0 => n \in S BY <1>2, <1>3, AllNumbers
<1> QED BY <1>4 DEF S

-----------------------------------------------------------------------------
(* What the fold knows of the log.                                         *)

\* A control covers a prefix that ends before it.
LooksBack == \A n \in 1..Len(log) : log[n].type \in ControlTypes => log[n].through < n

\* A log whose controls are about earlier messages.
LogInv == log \in Seq(Message) /\ LooksBack

\* States of a reply: the numbers it holds.
State == [latest : Nat, boundary : Nat, paused : Nat]

\* The parts of the state that one more message changes.
LEMMA AddedMessage ==
  ASSUME NEW s \in State, NEW n \in 1..Len(log), log \in Seq(Message)
  PROVE  LET m == log[n]
             r == AddMessage(s, n)
         IN /\ r \in State
            /\ r.latest = IF m.type = "input" THEN n ELSE s.latest
            /\ r.boundary = IF m.type = "complete" THEN n
                            ELSE IF m.type = "abandon" THEN Larger(s.boundary, m.through)
                            ELSE s.boundary
            /\ r.paused = IF m.type \in {"pause", "failure"} THEN Larger(s.paused, m.through)
                          ELSE IF m.type = "resume" /\ m.through >= s.paused THEN 0
                          ELSE s.paused
            /\ m.type # "input" /\ m.type # "complete" => r = AddControl(s, m)
<1>1. log[n] \in Message /\ n \in Nat OBVIOUS
<1>2. log[n].through \in Nat /\ log[n].type \in MessageTypes BY <1>1 DEF Message
<1>3. s.latest \in Nat /\ s.boundary \in Nat /\ s.paused \in Nat BY DEF State
<1>4. CASE log[n].type = "input"
  <2>1. AddMessage(s, n) = [s EXCEPT !.latest = n] BY <1>4 DEF AddMessage
  <2> QED BY <1>1, <1>4, <2>1 DEF State
<1>5. CASE log[n].type = "complete"
  <2>1. AddMessage(s, n) = [s EXCEPT !.boundary = n] BY <1>5 DEF AddMessage
  <2> QED BY <1>1, <1>5, <2>1 DEF State
<1>6. CASE log[n].type \notin {"input", "complete"}
  <2>1. AddMessage(s, n) = AddControl(s, log[n]) BY <1>6 DEF AddMessage
  <2>2. CASE log[n].type = "abandon"
    <3>1. AddMessage(s, n) = [s EXCEPT !.boundary = Larger(s.boundary, log[n].through)]
      BY <2>1, <2>2 DEF AddControl
    <3>2. Larger(s.boundary, log[n].through) \in Nat BY <1>2, <1>3 DEF Larger
    <3> QED BY <1>6, <2>1, <2>2, <3>1, <3>2 DEF State
  <2>3. CASE log[n].type \in {"pause", "failure"}
    <3>1. AddMessage(s, n) = [s EXCEPT !.paused = Larger(s.paused, log[n].through)]
      BY <2>1, <2>3 DEF AddControl
    <3>2. Larger(s.paused, log[n].through) \in Nat BY <1>2, <1>3 DEF Larger
    <3> QED BY <1>6, <2>1, <2>3, <3>1, <3>2 DEF State
  <2>4. CASE log[n].type = "resume" /\ log[n].through >= s.paused
    <3>1. AddMessage(s, n) = [s EXCEPT !.paused = 0] BY <2>1, <2>4 DEF AddControl
    <3> QED BY <1>6, <2>1, <2>4, <3>1 DEF State
  <2>5. CASE /\ log[n].type \notin {"abandon", "pause", "failure"}
             /\ ~(log[n].type = "resume" /\ log[n].through >= s.paused)
    <3>1. AddMessage(s, n) = s BY <2>1, <2>5 DEF AddControl
    <3> QED BY <1>6, <2>1, <2>5, <3>1
  <2> QED BY <2>2, <2>3, <2>4, <2>5
<1> QED BY <1>4, <1>5, <1>6

\* A folded state holds numbers of its prefix, and its latest is the latest input.
FoldShape(k) ==
  LET s == FoldedState(k) IN
  /\ s \in State
  /\ s.latest <= k /\ s.boundary <= k /\ s.paused <= k
  /\ s.latest # 0 => s.latest \in 1..k /\ log[s.latest].type = "input"
  /\ \A n \in 1..k : log[n].type = "input" => n <= s.latest
  /\ \A n \in 1..k : log[n].type = "complete" => n <= s.boundary
  /\ s.boundary # 0 => \E n \in 1..k : \/ (log[n].type = "complete" /\ s.boundary = n)
                                      \/ (log[n].type = "abandon" /\ s.boundary = log[n].through)
  /\ s.paused # 0 => \E n \in 1..k : /\ log[n].type \in {"pause", "failure"}
                                     /\ s.paused = log[n].through

\* Folding keeps to the prefix, since controls look back.
LEMMA FoldShaped == ASSUME LogInv PROVE \A k \in 0..Len(log) : FoldShape(k)
<1> DEFINE S == {k \in Nat : k <= Len(log) => FoldShape(k)}
<1>1. 0 \in S
  <2>1. FoldedState(0) = [latest |-> 0, boundary |-> 0, paused |-> 0]
    BY FoldStep DEF FoldEquation, EmptyState
  <2> QED BY <2>1 DEF FoldShape, State
<1>2. ASSUME NEW k \in Nat, k \in S PROVE k + 1 \in S
  <2> SUFFICES ASSUME k + 1 <= Len(log) PROVE FoldShape(k + 1) OBVIOUS
  <2>1. FoldShape(k) /\ log \in Seq(Message) /\ Len(log) \in Nat BY <1>2 DEF LogInv
  <2>2. PICK s \in State : s = FoldedState(k) BY <2>1 DEF FoldShape
  <2>3. PICK n \in 1..Len(log) : n = k + 1 OBVIOUS
  <2>4. FoldedState(k + 1) = AddMessage(s, n) BY <2>2, <2>3, FoldStep DEF FoldEquation
  <2> DEFINE r == AddMessage(s, n)
  <2>5. /\ r \in State
        /\ r.latest = IF log[n].type = "input" THEN n ELSE s.latest
        /\ r.boundary = IF log[n].type = "complete" THEN n
                        ELSE IF log[n].type = "abandon" THEN Larger(s.boundary, log[n].through)
                        ELSE s.boundary
        /\ r.paused = IF log[n].type \in {"pause", "failure"} THEN Larger(s.paused, log[n].through)
                      ELSE IF log[n].type = "resume" /\ log[n].through >= s.paused THEN 0
                      ELSE s.paused
    BY <2>1, AddedMessage
  <2>6. /\ log[n].type \in {"abandon", "pause", "failure"} => log[n].through < n
        /\ log[n].through \in Nat
    <3>1. log[n] \in Message BY <2>1
    <3>2. log[n].type \in ControlTypes => log[n].through < n BY DEF LogInv, LooksBack
    <3> QED BY <3>1, <3>2 DEF ControlTypes, Message
  <2>7. /\ s.latest \in Nat /\ s.boundary \in Nat /\ s.paused \in Nat
        /\ s.latest <= k /\ s.boundary <= k /\ s.paused <= k
        /\ s.latest # 0 => s.latest \in 1..k /\ log[s.latest].type = "input"
        /\ \A i \in 1..k : log[i].type = "input" => i <= s.latest
        /\ \A i \in 1..k : log[i].type = "complete" => i <= s.boundary
    BY <2>1, <2>2 DEF FoldShape, State
  <2> HIDE DEF r
  <2>8. r.latest <= n /\ r.boundary <= n /\ r.paused <= n
    BY <2>3, <2>5, <2>6, <2>7 DEF Larger
  <2>9. r.latest # 0 => r.latest \in 1..n /\ log[r.latest].type = "input"
    BY <2>3, <2>5, <2>7
  <2>10. \A i \in 1..n : log[i].type = "input" => i <= r.latest
    BY <2>3, <2>5, <2>7
  <2>11. \A i \in 1..n : log[i].type = "complete" => i <= r.boundary
    BY <2>3, <2>5, <2>6, <2>7 DEF Larger
  <2>12. r.boundary # 0 =>
           \E i \in 1..n : \/ (log[i].type = "complete" /\ r.boundary = i)
                          \/ (log[i].type = "abandon" /\ r.boundary = log[i].through)
    <3>1. CASE r.boundary = s.boundary BY <2>1, <2>2, <2>3, <3>1 DEF FoldShape
    <3>2. CASE r.boundary # s.boundary
      <4>1. n \in 1..n BY <2>3
      <4> QED BY <2>5, <3>2, <4>1 DEF Larger
    <3> QED BY <3>1, <3>2
  <2>13. r.paused # 0 =>
           \E i \in 1..n : log[i].type \in {"pause", "failure"} /\ r.paused = log[i].through
    <3>1. CASE r.paused = s.paused BY <2>1, <2>2, <2>3, <3>1 DEF FoldShape
    <3>2. CASE r.paused # s.paused
      <4>1. n \in 1..n BY <2>3
      <4> QED BY <2>5, <3>2, <4>1 DEF Larger
    <3> QED BY <3>1, <3>2
  <2>14. FoldedState(n) = r BY <2>3, <2>4 DEF r
  <2> QED BY <2>3, <2>5, <2>8, <2>9, <2>10, <2>11, <2>12, <2>13, <2>14 DEF FoldShape
<1> HIDE DEF S
<1>3. \A k \in Nat : k >= 0 => k \in S BY <1>1, <1>2, AllNumbers
<1> QED BY <1>3 DEF S, LogInv

-----------------------------------------------------------------------------
(* What the reader finds by index.                                         *)

\* The function that ReadState(upto) is read from, for the latest input l and
\* the last finished output c after it.
Reads(f, l, c, upto) ==
  f = [n \in l..upto |-> IF n = l THEN [latest |-> l, boundary |-> c, paused |-> 0]
                         ELSE AddControl(f[n - 1], log[n])]

\* Every prefix can be read from an input of it.
LEMMA ReadExists ==
  ASSUME NEW l \in Nat, NEW c PROVE \A k \in Nat : k >= l => \E f : Reads(f, l, c, k)
<1> DEFINE first == [latest |-> l, boundary |-> c, paused |-> 0]
           S == {k \in Nat : \E f : Reads(f, l, c, k)}
<1>1. l \in S
  <2>1. Reads([n \in l..l |-> first], l, c, l) BY DEF Reads
  <2> QED BY <2>1
<1>2. ASSUME NEW k \in Nat, k >= l, k \in S PROVE k + 1 \in S
  <2>1. PICK f : Reads(f, l, c, k) BY <1>2
  <2> HIDE DEF first
  <2> DEFINE g == [n \in l..(k + 1) |-> IF n = l THEN first ELSE AddControl(f[n - 1], log[n])]
  <2>2. \A n \in l..k : g[n] = f[n] BY <2>1 DEF Reads, first
  <2>3. \A n \in l..(k + 1) : n # l => n - 1 \in l..k BY <1>2
  <2>4. g = [n \in l..(k + 1) |-> IF n = l THEN first ELSE AddControl(f[n - 1], log[n])]
    OBVIOUS
  <2> HIDE DEF g
  <2>5. \A n \in l..(k + 1) : n # l => g[n - 1] = f[n - 1] BY <2>2, <2>3
  <2>6. Reads(g, l, c, k + 1) BY <2>4, <2>5 DEF Reads, first
  <2> QED BY <2>6
<1> HIDE DEF S
<1>3. \A k \in Nat : k >= l => k \in S BY <1>1, <1>2, AllNumbers
<1> QED BY <1>3 DEF S

\* The latest of some sequence numbers of a prefix is one of them.
LEMMA LatestOf ==
  ASSUME NEW k \in Nat, NEW S \in SUBSET (1..k)
  PROVE  /\ Latest(S) \in 0..k
         /\ S = {} <=> Latest(S) = 0
         /\ S # {} => Latest(S) \in S
         /\ \A n \in S : n <= Latest(S)
<1>1. CASE S = {} BY <1>1 DEF Latest
<1>2. CASE S # {}
  <2>1. S \in SUBSET (0..k) OBVIOUS
  <2>2. \E n \in S : \A m \in S : m <= n BY <1>2, <2>1, LastNumber
  <2>3. Latest(S) \in S /\ \A m \in S : m <= Latest(S) BY <1>2, <2>2 DEF Latest
  <2>4. Latest(S) \in 1..k BY <2>3
  <2> QED BY <1>2, <2>3, <2>4
<1> QED BY <1>1, <1>2

\* What a control does to the parts of a state.
LEMMA AddedControl ==
  ASSUME NEW s \in State, NEW m \in Message
  PROVE  LET r == AddControl(s, m)
         IN /\ r \in State
            /\ r.latest = s.latest
            /\ r.boundary = IF m.type = "abandon" THEN Larger(s.boundary, m.through)
                            ELSE s.boundary
            /\ r.paused = IF m.type \in {"pause", "failure"} THEN Larger(s.paused, m.through)
                          ELSE IF m.type = "resume" /\ m.through >= s.paused THEN 0
                          ELSE s.paused
<1>1. m.through \in Nat BY DEF Message
<1>2. s.latest \in Nat /\ s.boundary \in Nat /\ s.paused \in Nat BY DEF State
<1>3. CASE m.type = "abandon"
  <2>1. AddControl(s, m) = [s EXCEPT !.boundary = Larger(s.boundary, m.through)]
    BY <1>3 DEF AddControl
  <2>2. Larger(s.boundary, m.through) \in Nat BY <1>1, <1>2 DEF Larger
  <2> QED BY <1>3, <2>1, <2>2 DEF State
<1>4. CASE m.type \in {"pause", "failure"}
  <2>1. AddControl(s, m) = [s EXCEPT !.paused = Larger(s.paused, m.through)]
    BY <1>4 DEF AddControl
  <2>2. Larger(s.paused, m.through) \in Nat BY <1>1, <1>2 DEF Larger
  <2> QED BY <1>4, <2>1, <2>2 DEF State
<1>5. CASE m.type = "resume" /\ m.through >= s.paused
  <2>1. AddControl(s, m) = [s EXCEPT !.paused = 0] BY <1>5 DEF AddControl
  <2> QED BY <1>5, <2>1 DEF State
<1>6. CASE /\ m.type \notin {"abandon", "pause", "failure"}
           /\ ~(m.type = "resume" /\ m.through >= s.paused)
  <2>1. AddControl(s, m) = s BY <1>6 DEF AddControl
  <2> QED BY <1>6, <2>1
<1> QED BY <1>3, <1>4, <1>5, <1>6

\* Where a reading that starts at the latest input stands, compared with the
\* fold: what the input has already overtaken may differ, nothing else.
Compares(r, s, l, c) ==
  /\ r \in State /\ s \in State
  /\ r.latest = l /\ s.latest = l
  /\ r.boundary >= c
  /\ s.boundary >= l => r.boundary >= l
  /\ r.boundary >= l => s.boundary >= l \/ c > 0
  /\ r.paused = s.paused \/ (r.paused < l /\ s.paused < l)

\* One more message after the latest input keeps the two comparable.
LEMMA ComparesStep ==
  ASSUME LogInv, NEW n \in 1..Len(log), log[n].type # "input",
         NEW l \in Nat, NEW c \in Nat, l < n, log[n].type = "complete" => c >= n,
         NEW r, NEW s, Compares(r, s, l, c)
  PROVE  Compares(AddControl(r, log[n]), AddMessage(s, n), l, c)
<1>1. log \in Seq(Message) BY DEF LogInv
<1>2. log[n] \in Message BY <1>1
<1>3. log[n].through \in Nat BY <1>2 DEF Message
<1>4. r \in State /\ s \in State BY DEF Compares
<1>5. PICK r2 : r2 = AddControl(r, log[n]) OBVIOUS
<1>6. PICK s2 : s2 = AddMessage(s, n) OBVIOUS
<1>7. /\ r2 \in State
      /\ r2.latest = r.latest
      /\ r2.boundary = IF log[n].type = "abandon" THEN Larger(r.boundary, log[n].through)
                       ELSE r.boundary
      /\ r2.paused = IF log[n].type \in {"pause", "failure"} THEN Larger(r.paused, log[n].through)
                     ELSE IF log[n].type = "resume" /\ log[n].through >= r.paused THEN 0
                     ELSE r.paused
  BY <1>2, <1>4, <1>5, AddedControl
<1>8. /\ s2 \in State
      /\ s2.latest = s.latest
      /\ s2.boundary = IF log[n].type = "complete" THEN n
                       ELSE IF log[n].type = "abandon" THEN Larger(s.boundary, log[n].through)
                       ELSE s.boundary
      /\ s2.paused = IF log[n].type \in {"pause", "failure"} THEN Larger(s.paused, log[n].through)
                     ELSE IF log[n].type = "resume" /\ log[n].through >= s.paused THEN 0
                     ELSE s.paused
  BY <1>1, <1>4, <1>6, AddedMessage
<1>9. /\ r.boundary \in Nat /\ r.paused \in Nat /\ s.boundary \in Nat /\ s.paused \in Nat
  BY <1>4 DEF State
<1>10. /\ r.latest = l /\ s.latest = l
       /\ r.boundary >= c
       /\ s.boundary >= l => r.boundary >= l
       /\ r.boundary >= l => s.boundary >= l \/ c > 0
  BY DEF Compares
<1>11. /\ r2.boundary >= c
       /\ s2.boundary >= l => r2.boundary >= l
       /\ r2.boundary >= l => s2.boundary >= l \/ c > 0
  BY <1>3, <1>7, <1>8, <1>9, <1>10 DEF Larger
<1>12. r2.paused = s2.paused \/ (r2.paused < l /\ s2.paused < l)
  <2>1. CASE r.paused = s.paused BY <1>7, <1>8, <2>1
  <2>2. CASE r.paused < l /\ s.paused < l
    <3>1. 0 < l BY <1>9, <2>2
    <3> QED BY <1>3, <1>7, <1>8, <1>9, <2>2, <3>1 DEF Larger
  <2> QED BY <2>1, <2>2 DEF Compares
<1> QED BY <1>5, <1>6, <1>7, <1>8, <1>10, <1>11, <1>12 DEF Compares

\* The fold stands at its latest input as the reading starts.
LEMMA ComparesFirst ==
  ASSUME LogInv, NEW l \in 1..Len(log), log[l].type = "input",
         NEW c \in Nat, c = 0 \/ c > l
  PROVE  Compares([latest |-> l, boundary |-> c, paused |-> 0], FoldedState(l), l, c)
<1>1. PICK k \in 0..Len(log) : l = k + 1
  <2>1. log \in Seq(Message) /\ Len(log) \in Nat BY DEF LogInv
  <2>2. l - 1 \in 0..Len(log) /\ l = (l - 1) + 1 BY <2>1
  <2> QED BY <2>2
<1>2. PICK s : s = FoldedState(k) OBVIOUS
<1>3. s \in State /\ s.boundary \in Nat /\ s.paused \in Nat /\ s.boundary <= k /\ s.paused <= k
  BY <1>2, FoldShaped DEF FoldShape, State
<1>4. FoldedState(l) = AddMessage(s, l) BY <1>1, <1>2, FoldStep DEF FoldEquation
<1>5. AddMessage(s, l) = [s EXCEPT !.latest = l] BY DEF AddMessage
<1>6. PICK s2 : s2 = FoldedState(l) OBVIOUS
<1>7. s2 \in State /\ s2.latest = l /\ s2.boundary = s.boundary /\ s2.paused = s.paused
  BY <1>3, <1>4, <1>5, <1>6 DEF State
<1>8. PICK r : r = [latest |-> l, boundary |-> c, paused |-> 0] OBVIOUS
<1>9. r \in State /\ r.latest = l /\ r.boundary = c /\ r.paused = 0 BY <1>8 DEF State
<1> QED BY <1>1, <1>3, <1>6, <1>7, <1>8, <1>9 DEF Compares

\* Reading on from the latest input finds what the fold finds.
LEMMA ComparesOn ==
  ASSUME LogInv, NEW l \in 1..Len(log), NEW k \in l..Len(log), log[l].type = "input",
         \A n \in (l + 1)..k : log[n].type # "input",
         NEW c \in Nat, c = 0 \/ c > l, \A n \in (l + 1)..k : log[n].type = "complete" => n <= c,
         NEW f, Reads(f, l, c, k)
  PROVE  Compares(f[k], FoldedState(k), l, c)
<1> DEFINE S == {n \in Nat : n <= k => Compares(f[n], FoldedState(n), l, c)}
<1>0. log \in Seq(Message) /\ Len(log) \in Nat BY DEF LogInv
<1>1. l \in S
  <2>1. l \in l..k OBVIOUS
  <2>2. f[l] = [latest |-> l, boundary |-> c, paused |-> 0] BY <2>1 DEF Reads
  <2>3. Compares(f[l], FoldedState(l), l, c) BY <2>2, ComparesFirst
  <2> QED BY <2>3
<1>2. ASSUME NEW n \in Nat, n >= l, n \in S PROVE n + 1 \in S
  <2> SUFFICES ASSUME n + 1 <= k PROVE Compares(f[n + 1], FoldedState(n + 1), l, c) OBVIOUS
  <2>1. Compares(f[n], FoldedState(n), l, c) BY <1>2
  <2>2. n + 1 \in 1..Len(log) /\ n + 1 \in (l + 1)..k /\ l < n + 1 BY <1>0, <1>2
  <2>3. n + 1 \in l..k /\ n + 1 # l /\ (n + 1) - 1 = n BY <1>2
  <2>4. f[n + 1] = AddControl(f[n], log[n + 1]) BY <2>3 DEF Reads
  <2>5. FoldedState(n + 1) = AddMessage(FoldedState(n), n + 1) BY FoldStep DEF FoldEquation
  <2>6. PICK m \in 1..Len(log) : m = n + 1 BY <2>2
  <2>7. log[m].type # "input" /\ (log[m].type = "complete" => c >= m) /\ l < m BY <2>2, <2>6
  <2>8. Compares(AddControl(f[n], log[m]), AddMessage(FoldedState(n), m), l, c)
    BY <2>1, <2>7, ComparesStep
  <2> QED BY <2>4, <2>5, <2>6, <2>8
<1> HIDE DEF S
<1>3. \A n \in Nat : n >= l => n \in S
  <2>1. l \in Nat OBVIOUS
  <2> QED BY <1>1, <1>2, <2>1, AllNumbers
<1>4. k \in Nat /\ k >= l OBVIOUS
<1>5. k \in S BY <1>3, <1>4
<1> QED BY <1>5 DEF S

\* Comparable states agree on whether the input waits, once the finished
\* output that the reading started from is behind the fold too.
LEMMA ComparesPending ==
  ASSUME NEW l \in Nat, NEW c \in Nat, NEW r, NEW s, Compares(r, s, l, c),
         c > 0 => s.boundary >= l
  PROVE  IsPending(r) <=> IsPending(s)
BY DEF Compares, State, IsPending, Larger

\* The indexed reading and the fold agree on every prefix.
LEMMA ReadAsFolded ==
  ASSUME LogInv, NEW k \in 0..Len(log)
  PROVE  Pending(k) = IsPending(FoldedState(k))
<1> DEFINE l == LatestInput(k)
           c == Latest(Seqs({"complete"}, l, k))
<1>1. log \in Seq(Message) /\ Len(log) \in Nat BY DEF LogInv
<1>2. FoldShape(k) BY FoldShaped
<1>3. Seqs({"input"}, 0, k) \in SUBSET (1..k) BY <1>1 DEF Seqs
<1>4. /\ l \in 0..k
      /\ Seqs({"input"}, 0, k) = {} <=> l = 0
      /\ Seqs({"input"}, 0, k) # {} => l \in Seqs({"input"}, 0, k)
      /\ \A n \in Seqs({"input"}, 0, k) : n <= l
  BY <1>3, LatestOf DEF LatestInput
<1>5. Pending(k) <=> IsPending(FoldedState(k))
  <2>1. CASE l = 0
    <3>1. ReadState(k) = EmptyState BY <2>1 DEF ReadState
    <3>2. ~Pending(k) BY <3>1 DEF Pending, IsPending, EmptyState, Larger
    <3>3. PICK s : s = FoldedState(k) OBVIOUS
    <3>4. s \in State /\ (s.latest # 0 => s.latest \in 1..k /\ log[s.latest].type = "input")
      BY <1>2, <3>3 DEF FoldShape
    <3>5. Seqs({"input"}, 0, k) = {} BY <1>4, <2>1
    <3>6. s.latest = 0
      <4>1. SUFFICES ASSUME s.latest # 0 PROVE FALSE OBVIOUS
      <4>2. s.latest \in 1..k /\ log[s.latest].type = "input" BY <3>4, <4>1
      <4>3. s.latest \in Seqs({"input"}, 0, k) BY <1>1, <4>2 DEF Seqs
      <4> QED BY <3>5, <4>3
    <3>7. ~IsPending(s) BY <3>4, <3>6 DEF IsPending, State, Larger
    <3> QED BY <3>2, <3>3, <3>7
  <2>2. CASE l # 0
    <3>1. l \in 1..Len(log) /\ k \in l..Len(log) /\ l \in Nat /\ log[l].type = "input"
      BY <1>1, <1>4, <2>2 DEF Seqs
    <3>2. \A n \in (l + 1)..k : log[n].type # "input"
      <4> SUFFICES ASSUME NEW n \in (l + 1)..k, log[n].type = "input" PROVE FALSE OBVIOUS
      <4>1. n \in Seqs({"input"}, 0, k) BY <1>1, <3>1 DEF Seqs
      <4> QED BY <1>4, <3>1, <4>1
    <3> HIDE DEF l
    <3>3. Seqs({"complete"}, l, k) \in SUBSET (1..k) BY <1>1 DEF Seqs
    <3>4. /\ c \in 0..k
          /\ Seqs({"complete"}, l, k) # {} => c \in Seqs({"complete"}, l, k)
          /\ Seqs({"complete"}, l, k) = {} => c = 0
          /\ \A n \in Seqs({"complete"}, l, k) : n <= c
      BY <3>3, LatestOf
    <3>5. c \in Nat /\ (c = 0 \/ c > l) BY <3>1, <3>4 DEF Seqs
    <3>6. \A n \in (l + 1)..k : log[n].type = "complete" => n <= c
      <4> SUFFICES ASSUME NEW n \in (l + 1)..k, log[n].type = "complete" PROVE n <= c OBVIOUS
      <4>1. n \in Seqs({"complete"}, l, k) BY <1>1, <3>1 DEF Seqs
      <4> QED BY <3>4, <4>1
    <3>7. c > 0 => FoldedState(k).boundary >= l
      <4> SUFFICES ASSUME c > 0 PROVE FoldedState(k).boundary >= l OBVIOUS
      <4>1. c \in 1..k /\ log[c].type = "complete" /\ c > l BY <3>4 DEF Seqs
      <4>2. c <= FoldedState(k).boundary BY <1>2, <4>1 DEF FoldShape
      <4>3. FoldedState(k).boundary \in Nat BY <1>2 DEF FoldShape, State
      <4> QED BY <3>1, <4>1, <4>2, <4>3
    <3>8. \E f : Reads(f, l, c, k) /\ ReadState(k) = f[k]
      <4>1. k \in Nat /\ k >= l BY <3>1
      <4>2. \E f : Reads(f, l, c, k) BY <3>1, <4>1, ReadExists
      <4> QED BY <2>2, <4>2 DEF ReadState, Reads, l
    <3>9. PICK f : Reads(f, l, c, k) /\ ReadState(k) = f[k] BY <3>8
    <3> HIDE DEF c
    <3>10. Compares(f[k], FoldedState(k), l, c) BY <3>1, <3>2, <3>5, <3>6, <3>9, ComparesOn
    <3>11. IsPending(f[k]) <=> IsPending(FoldedState(k))
      BY <3>1, <3>5, <3>7, <3>10, ComparesPending
    <3> QED BY <3>9, <3>11 DEF Pending
  <2> QED BY <2>1, <2>2
<1> QED BY <1>5 DEF Pending, IsPending

-----------------------------------------------------------------------------
(* Who may answer, deliver or be stopped.                                  *)

\* The source has an unanswered input, read from every message of its log.
Waits == IsPending(FoldedState(SourceHead))

\* Only inputs carry the identity of an input.
InputIds == \A n \in 1..Len(log) : log[n].id \in Inputs => log[n].type = "input"

\* An admission has read a prefix of the log and acts for who asked for it.
Admits(l, head) ==
  /\ l.head <= head /\ l.through <= head
  /\ l.op = "pause" => l.id \in Pauses
  /\ l.op = "abandon" => l.id \in Abandons
  /\ l.op = "resume" => l.id \in Retries
  /\ l.op = "steer" => l.id \in Inputs

\* A completion only works and ends, and only a completion works.
CompletionStates == {"working", "finished", "failing", "failed", "draining"}

\* A task has read a prefix of the log and is where its kind of task can be.
Placed(tk, head) ==
  /\ tk.hint <= head /\ tk.read <= head
  /\ tk.for # NoId => tk.st \in CompletionStates
  /\ tk.for = NoId => tk.st # "working"

\* A reply in the slot is bound to an input.
SlotBound == current # NoTask /\ task[current].for = NoId => task[current].hint > 0

ShapeInv ==
  /\ LooksBack
  /\ InputIds
  /\ Admits(lane, SourceHead)
  /\ \A t \in TaskIds : Placed(task[t], SourceHead)
  /\ SlotBound

\* Every finished output was followed by input.
Reopened ==
  \A c \in 1..Len(log) : log[c].type = "complete" =>
    \E n \in 1..Len(log) : n > c /\ log[n].type = "input"

\* A reply that may still commit has not answered, and while nothing disturbs
\* it its input waits; while nothing disturbs a completion no input waits.
TurnOpen(t) ==
  /\ task[t].active /\ task[t].for = NoId /\ task[t].st # "finished" =>
       Reopened /\ (~SourceChanged(task[t].hint) => Waits)
  /\ task[t].active /\ task[t].for # NoId /\ ~SourceChanged(task[t].hint) => ~Waits

\* A completion is admitted on a head without waiting input.
CompletionIdle == lane.op = "complete" /\ ~HeadMoved => ~Waits

TurnInv == CompletionIdle /\ \A t \in TaskIds : TurnOpen(t)

-----------------------------------------------------------------------------
(* What one step may do to all that.                                       *)

\* Nobody but who has answered may commit, and no completion is on its way.
Closed ==
  /\ lane'.op # "complete"
  /\ \A t \in TaskIds : task'[t].active => task'[t].for = NoId /\ task'[t].st = "finished"

KeptLog ==
  \/ UNCHANGED log
  \/ \E m : /\ log' = Append(log, m)
            /\ m.type \in ControlTypes => m.through <= Len(log)
            /\ m.id \in Inputs => m.type = "input"
            /\ m.type \in OutputTypes => Waits
            /\ m.type = "complete" => Closed

KeptLane ==
  \/ lane' = lane
  \/ /\ Admits(lane', Len(log'))
     /\ lane'.op = "complete" => UNCHANGED log /\ ~Waits
     /\ lane'.op = "pause" /\ lane'.at = "commit" => PauseDecide

\* A task keeps its boundary, or is gone; what it does beyond is its own.
Continues(old, new) ==
  /\ Placed(new, Len(log'))
  /\ new.active => /\ old.active /\ new.for = old.for /\ new.hint = old.hint
                   /\ old.st = "finished" => new.st = "finished"
  /\ old.st = "working" /\ new.st = "finished" => old.active /\ ~SourceChanged(old.hint)
  /\ \/ new.st = "free"
     \/ /\ new.for = old.for /\ new.hint = old.hint
        /\ new.read = old.read \/ new.read >= Len(log)

\* A task starts, or moves its boundary to its own steer.
Renewed(t) ==
  /\ UNCHANGED log
  /\ lane.op \in {"start", "complete", "steer"}
  /\ Placed(task'[t], Len(log'))
  /\ task'[t].for = NoId => task'[t].hint > 0
  /\ task'[t].st # "finished"
  /\ TurnOpen(t)'

KeptTasks == \A t \in TaskIds : Continues(task[t], task'[t]) \/ Renewed(t)

KeptSlot == current' # NoTask => \E t \in TaskIds : current' = t /\ (t = current \/ Renewed(t))

TurnStep == KeptLog /\ KeptLane /\ KeptTasks /\ KeptSlot

\* A typed log whose controls look back.
LEMMA LogShaped == ASSUME TypeInv, ShapeInv PROVE LogInv /\ Len(log) \in Nat
BY DEF TypeInv, TypeOK, ShapeInv, LogInv

\* The message a step appends is a message.
LEMMA AppendedTyped ==
  ASSUME TypeInv, TypeInv', NEW m, log' = Append(log, m)
  PROVE  /\ m \in Message
         /\ Len(log) \in Nat /\ Len(log') = Len(log) + 1 /\ log'[Len(log) + 1] = m
         /\ \A n \in 1..Len(log) : log'[n] = log[n]
<1>1. log \in Seq(Message) /\ log' \in Seq(Message) /\ Len(log) \in Nat BY DEF TypeInv, TypeOK
<1>2. /\ Len(log') = Len(log) + 1 /\ log'[Len(log) + 1] = m
      /\ \A n \in 1..Len(log) : log'[n] = log[n]
  BY <1>1
<1>3. Len(log) + 1 \in 1..Len(log') BY <1>1, <1>2
<1>4. log'[Len(log) + 1] \in Message BY <1>1, <1>3
<1> QED BY <1>1, <1>2, <1>4

\* A step keeps the shape of the log.
LEMMA ShapeStep ==
  ASSUME TypeInv, TypeInv', SlotInv', ShapeInv, TurnStep
  PROVE  ShapeInv' /\ Len(log) \in Nat /\ Len(log') \in Nat /\ Len(log') >= Len(log)
<1>1. Len(log) \in Nat /\ Len(log') \in Nat BY DEF TypeInv, TypeOK
<1>2. Len(log') >= Len(log) /\ LooksBack' /\ InputIds'
  <2>1. CASE UNCHANGED log BY <1>1, <2>1 DEF ShapeInv, LooksBack, InputIds
  <2>2. ASSUME NEW m, log' = Append(log, m),
               m.type \in ControlTypes => m.through <= Len(log),
               m.id \in Inputs => m.type = "input"
        PROVE  Len(log') >= Len(log) /\ LooksBack' /\ InputIds'
    <3>1. /\ m \in Message
          /\ Len(log) \in Nat /\ Len(log') = Len(log) + 1 /\ log'[Len(log) + 1] = m
          /\ \A n \in 1..Len(log) : log'[n] = log[n]
      BY <2>2, AppendedTyped
    <3>2. m.through \in Nat BY <3>1 DEF Message
    <3>3. \A n \in 1..Len(log') : n \in 1..Len(log) \/ n = Len(log) + 1 BY <3>1
    <3>4. LooksBack' BY <2>2, <3>1, <3>2, <3>3 DEF ShapeInv, LooksBack
    <3>5. InputIds' BY <2>2, <3>1, <3>3 DEF ShapeInv, InputIds
    <3> QED BY <3>1, <3>4, <3>5
  <2> QED BY <2>1, <2>2 DEF TurnStep, KeptLog
<1>3. Admits(lane', Len(log'))
  <2>1. CASE lane' = lane
    <3>1. lane.head \in Nat /\ lane.through \in Nat BY DEF TypeInv, TypeOK, Lane
    <3> QED BY <1>1, <1>2, <2>1, <3>1 DEF ShapeInv, Admits, SourceHead
  <2> QED BY <2>1 DEF TurnStep, KeptLane
<1>4. \A t \in TaskIds : Placed(task'[t], Len(log'))
  BY DEF TurnStep, KeptTasks, Continues, Renewed
<1>5. SlotBound'
  <2> SUFFICES ASSUME current' # NoTask, task'[current'].for = NoId PROVE task'[current'].hint > 0
    BY DEF SlotBound
  <2>1. PICK t \in TaskIds : current' = t /\ (t = current \/ Renewed(t)) BY DEF TurnStep, KeptSlot
  <2>2. CASE Renewed(t) BY <2>1, <2>2 DEF Renewed
  <2>3. CASE ~Renewed(t)
    <3>1. t = current /\ Continues(task[t], task'[t])
      BY <2>1, <2>3 DEF TurnStep, KeptTasks
    <3>2. task'[t].st # "free" BY <2>1 DEF SlotInv, SlotOccupied
    <3>3. task'[t].for = task[t].for /\ task'[t].hint = task[t].hint
      BY <3>1, <3>2 DEF Continues
    <3>4. t # NoTask BY SlotAssumption
    <3> QED BY <2>1, <3>1, <3>3, <3>4 DEF ShapeInv, SlotBound
  <2> QED BY <2>2, <2>3
<1> QED BY <1>1, <1>2, <1>3, <1>4, <1>5 DEF ShapeInv, Admits, Placed, SourceHead

\* While the log stays, so does what waits in it.
LEMMA WaitsStays ==
  ASSUME Len(log) \in Nat, UNCHANGED log
  PROVE  /\ Waits' <=> Waits
         /\ \A h : SourceChanged(h)' <=> SourceChanged(h)
<1>1. FoldedState(Len(log))' = FoldedState(Len(log)) BY FoldStays
<1>2. Waits' <=> Waits BY <1>1 DEF Waits, SourceHead
<1>3. \A h : SourceChanged(h)' <=> SourceChanged(h) BY DEF SourceChanged, Seqs, SourceHead
<1> QED BY <1>2, <1>3

\* The fold after one more message.
LEMMA FoldAppended ==
  ASSUME TypeInv, TypeInv', NEW m, log' = Append(log, m), NEW k \in Nat, k = Len(log)
  PROVE  /\ FoldedState(SourceHead)' = AddMessage(FoldedState(k), k + 1)'
         /\ \A n \in 0..k : FoldedState(n)' = FoldedState(n)
<1>1. /\ Len(log') = Len(log) + 1 /\ \A n \in 1..Len(log) : log'[n] = log[n]
  BY AppendedTyped
<1>2. \A n \in 0..k : FoldedState(n)' = FoldedState(n) BY <1>1, FoldStays
<1>3. FoldedState(k + 1)' = AddMessage(FoldedState(k), k + 1)' BY FoldStepNext DEF FoldEquation
<1>4. FoldedState(SourceHead)' = FoldedState(k + 1)' BY <1>1 DEF SourceHead
<1> QED BY <1>2, <1>3, <1>4

\* An output that goes on and a tool's result leave waiting what waits.
LEMMA WaitsQuiet ==
  ASSUME TypeInv, TypeInv', NEW m, log' = Append(log, m), m.type \in {"continue", "result"}
  PROVE  /\ Waits' <=> Waits
         /\ \A h : SourceChanged(h)' <=> SourceChanged(h)
<1>1. /\ Len(log) \in Nat /\ Len(log') = Len(log) + 1 /\ log'[Len(log) + 1] = m
      /\ \A n \in 1..Len(log) : log'[n] = log[n]
  BY AppendedTyped
<1>2. PICK k \in Nat : k = Len(log) BY <1>1
<1>3. FoldedState(SourceHead)' = FoldedState(k)
  <2>1. /\ FoldedState(SourceHead)' = AddMessage(FoldedState(k), k + 1)'
        /\ FoldedState(k)' = FoldedState(k)
    BY <1>2, FoldAppended
  <2>2. log'[k + 1].type \in {"continue", "result"} BY <1>1, <1>2
  <2>3. AddMessage(FoldedState(k), k + 1)' = FoldedState(k)' BY <2>2 DEF AddMessage, AddControl
  <2> QED BY <2>1, <2>3
<1>4. Waits' <=> Waits BY <1>2, <1>3 DEF Waits, SourceHead
<1>5. ASSUME NEW h PROVE SourceChanged(h)' <=> SourceChanged(h)
  <2>1. \A n \in 1..Len(log') : n \in 1..Len(log) \/ n = Len(log) + 1 BY <1>1
  <2>2. m.type \notin {"input"} \union ControlTypes BY DEF ControlTypes
  <2>3. SourceChanged(h)' => SourceChanged(h)
    BY <1>1, <2>1, <2>2 DEF SourceChanged, Seqs, SourceHead
  <2>4. SourceChanged(h) => SourceChanged(h)'
    BY <1>1 DEF SourceChanged, Seqs, SourceHead
  <2> QED BY <2>3, <2>4
<1> QED BY <1>4, <1>5

\* An input or a control disturbs whoever read the log before it.
LEMMA WaitsDisturbed ==
  ASSUME TypeInv, TypeInv', NEW m, log' = Append(log, m),
         m.type \in {"input"} \union ControlTypes, NEW h \in Nat, h <= Len(log)
  PROVE  SourceChanged(h)'
<1>1. Len(log) \in Nat /\ Len(log') = Len(log) + 1 /\ log'[Len(log) + 1] = m BY AppendedTyped
<1>2. Len(log) + 1 \in 1..Len(log') /\ Len(log) + 1 > h BY <1>1
<1> QED BY <1>1, <1>2 DEF SourceChanged, Seqs, SourceHead

\* Input that follows every finished output does so after any other message.
LEMMA ReopenedStays ==
  ASSUME TypeInv, TypeInv', Reopened,
         UNCHANGED log \/ \E m : log' = Append(log, m) /\ m.type # "complete"
  PROVE  Reopened'
<1>1. CASE UNCHANGED log BY <1>1 DEF Reopened
<1>2. ASSUME NEW m, log' = Append(log, m), m.type # "complete" PROVE Reopened'
  <2>1. /\ Len(log) \in Nat /\ Len(log') = Len(log) + 1 /\ log'[Len(log) + 1] = m
        /\ \A n \in 1..Len(log) : log'[n] = log[n]
    BY <1>2, AppendedTyped
  <2> SUFFICES ASSUME NEW c \in 1..Len(log'), log'[c].type = "complete"
               PROVE  \E n \in 1..Len(log') : n > c /\ log'[n].type = "input"
    BY DEF Reopened
  <2>2. c \in 1..Len(log) /\ log[c].type = "complete" BY <1>2, <2>1
  <2>3. PICK n \in 1..Len(log) : n > c /\ log[n].type = "input" BY <2>2 DEF Reopened
  <2>4. n \in 1..Len(log') /\ log'[n].type = "input" BY <2>1, <2>3
  <2> QED BY <2>3, <2>4
<1> QED BY <1>1, <1>2

\* A step leaves open what is open, for whom it does not start or steer.
LEMMA ContinuesOpen ==
  ASSUME TypeInv, TypeInv', ShapeInv, KeptLog, NEW t \in TaskIds, TurnOpen(t),
         Continues(task[t], task'[t])
  PROVE  TurnOpen(t)'
<1> SUFFICES ASSUME task'[t].active PROVE TurnOpen(t)' BY DEF TurnOpen
<1>1. /\ task[t].active /\ task'[t].for = task[t].for /\ task'[t].hint = task[t].hint
      /\ task[t].st = "finished" => task'[t].st = "finished"
  BY DEF Continues
<1>2. PICK h \in Nat : h = task[t].hint /\ h <= Len(log)
  BY DEF TypeInv, TypeOK, Task, ShapeInv, Placed, SourceHead
<1>3. SourceChanged(task[t].hint)' <=> SourceChanged(h)' BY <1>1, <1>2 DEF SourceChanged, Seqs
<1>4. Len(log) \in Nat BY DEF TypeInv, TypeOK
<1>5. ASSUME (UNCHANGED log \/ \E m : log' = Append(log, m) /\ m.type # "complete"),
             (\/ SourceChanged(h)'
              \/ (Waits' <=> Waits) /\ (SourceChanged(h)' <=> SourceChanged(h)))
      PROVE  TurnOpen(t)'
  BY <1>1, <1>2, <1>3, <1>5, ReopenedStays DEF TurnOpen
<1>6. CASE UNCHANGED log BY <1>4, <1>5, <1>6, WaitsStays
<1>7. ASSUME NEW m, log' = Append(log, m), m.type = "complete" => Closed
      PROVE  TurnOpen(t)'
  <2>1. m \in Message BY <1>7, AppendedTyped
  <2>2. CASE m.type \in {"continue", "result"} BY <1>5, <1>7, <2>2, WaitsQuiet
  <2>3. CASE m.type \in {"input"} \union ControlTypes
    <3>1. m.type # "complete" BY <2>3 DEF ControlTypes
    <3> QED BY <1>2, <1>5, <1>7, <2>3, <3>1, WaitsDisturbed
  <2>4. CASE m.type = "complete" BY <1>7, <2>4 DEF Closed, TurnOpen
  <2> QED BY <2>1, <2>2, <2>3, <2>4 DEF Message, MessageTypes, OutputTypes
<1> QED BY <1>6, <1>7 DEF KeptLog

\* Every step leaves every turn open that it does not close.
LEMMA TurnKept ==
  ASSUME TypeInv, TypeInv', ShapeInv, TurnInv, TurnStep
  PROVE  TurnInv'
<1>1. ASSUME NEW t \in TaskIds PROVE TurnOpen(t)'
  BY <1>1, ContinuesOpen DEF TurnInv, TurnStep, KeptTasks, Renewed
<1>2. CompletionIdle'
  <2> SUFFICES ASSUME lane'.op = "complete", ~HeadMoved' PROVE ~Waits'
    BY DEF CompletionIdle
  <2>1. Len(log) \in Nat BY DEF TypeInv, TypeOK
  <2>2. CASE UNCHANGED log
    <3>1. Waits' <=> Waits BY <2>1, <2>2, WaitsStays
    <3>2. CASE lane' = lane
      BY <2>2, <3>1, <3>2 DEF TurnInv, CompletionIdle, HeadMoved, SourceHead
    <3> QED BY <3>1, <3>2 DEF TurnStep, KeptLane
  <2>3. ASSUME NEW m, log' = Append(log, m) PROVE FALSE
    <3>1. Len(log') = Len(log) + 1 BY <2>3, AppendedTyped
    <3>2. lane' = lane BY <2>1, <2>3, <3>1 DEF TurnStep, KeptLane
    <3>3. lane.head \in Nat /\ lane.head <= Len(log)
      BY DEF TypeInv, TypeOK, Lane, ShapeInv, Admits, SourceHead
    <3> QED BY <2>1, <3>1, <3>2, <3>3 DEF HeadMoved, SourceHead
  <2> QED BY <2>2, <2>3 DEF TurnStep, KeptLog
<1> QED BY <1>1, <1>2 DEF TurnInv

-----------------------------------------------------------------------------
(* Step by step.                                                           *)

USE DEF LaneFree, At

\* The reader's view of the whole log is the fold's.
LEMMA PendingWaits == ASSUME TypeInv, ShapeInv PROVE Pending(SourceHead) <=> Waits
<1>1. LogInv /\ Len(log) \in 0..Len(log) BY LogShaped
<1> QED BY <1>1, ReadAsFolded DEF Waits, SourceHead

\* The log only grows.
LEMMA KeptLonger ==
  ASSUME TypeInv, TypeInv', KeptLog
  PROVE  Len(log) \in Nat /\ Len(log') \in Nat /\ Len(log') >= Len(log)
<1>1. Len(log) \in Nat /\ Len(log') \in Nat BY DEF TypeInv, TypeOK
<1>2. ASSUME NEW m, log' = Append(log, m) PROVE Len(log') >= Len(log) BY <1>2, AppendedTyped
<1> QED BY <1>1, <1>2 DEF KeptLog

\* A task that a step does not touch continues.
LEMMA UntouchedContinues ==
  ASSUME TypeInv, TypeInv', ShapeInv, KeptLog, NEW t \in TaskIds, task'[t] = task[t]
  PROVE  Continues(task[t], task'[t])
<1>1. task[t].hint \in Nat /\ task[t].read \in Nat BY DEF TypeInv, TypeOK, Task
<1>2. Placed(task[t], Len(log)) BY DEF ShapeInv, SourceHead
<1> QED BY <1>1, <1>2, KeptLonger DEF Continues, Placed

\* A step that touches no task lets all of them continue.
LEMMA StillContinues ==
  ASSUME TypeInv, TypeInv', ShapeInv, KeptLog, UNCHANGED task PROVE KeptTasks
BY UntouchedContinues DEF KeptTasks

\* A step that changes one task.
LEMMA EntryContinues ==
  ASSUME TypeInv, TypeInv', ShapeInv, KeptLog, NEW t \in TaskIds, NEW tk,
         task' = [task EXCEPT ![t] = tk], Continues(task[t], tk)
  PROVE  KeptTasks
<1>1. task'[t] = tk /\ \A u \in TaskIds \ {t} : task'[u] = task[u] BY DEF TypeInv, TypeOK
<1> QED BY <1>1, UntouchedContinues DEF KeptTasks

\* A task that moves on, keeps what it knows and does not come back from its end.
LEMMA StepContinues ==
  ASSUME TypeInv, TypeInv', ShapeInv, KeptLog, NEW t \in TaskIds, NEW st, Step(t, st),
         st # "working",
         task[t].for # NoId => st \in CompletionStates,
         task[t].active /\ task[t].st = "finished" => st = "finished",
         task[t].st = "working" /\ st = "finished" => SourceHeld(t)
  PROVE  KeptTasks
<1> DEFINE tk == [task[t] EXCEPT !.st = st]
<1>1. task[t] \in Task BY DEF TypeInv, TypeOK
<1>2. /\ tk.st = st /\ tk.for = task[t].for /\ tk.hint = task[t].hint
      /\ tk.read = task[t].read /\ tk.active = task[t].active
  BY <1>1 DEF Task
<1>3. task' = [task EXCEPT ![t] = tk] BY DEF Step
<1>4. task[t].hint \in Nat /\ task[t].read \in Nat BY <1>1 DEF Task
<1>5. Placed(task[t], Len(log)) BY DEF ShapeInv, SourceHead
<1> HIDE DEF tk
<1>6. Placed(tk, Len(log')) BY <1>2, <1>4, <1>5, KeptLonger DEF Placed
<1>7. Continues(task[t], tk) BY <1>2, <1>6 DEF Continues, SourceHeld
<1> QED BY <1>3, <1>7, EntryContinues

\* A task that goes on where its admission returns.
LEMMA GoOnContinues ==
  ASSUME TypeInv, TypeInv', ShapeInv, KeptLog, NEW t, NEW from, NEW to, GoOn(t, from, to),
         \/ from = "steering" /\ to = "reading"
         \/ from = "failing" /\ to = "failed"
  PROVE  KeptTasks
<1>1. CASE t \in TaskIds /\ task[t].st = from
  <2>1. Step(t, to) BY <1>1 DEF GoOn, Step
  <2>2. task[t].for # NoId => task[t].st \in CompletionStates BY <1>1 DEF ShapeInv, Placed
  <2>3. task[t].for # NoId => to \in CompletionStates BY <1>1, <2>2 DEF CompletionStates
  <2> QED BY <1>1, <2>1, <2>3, StepContinues
<1>2. CASE t \notin TaskIds \/ task[t].st # from
  BY <1>2, EntryTyped, StillContinues DEF GoOn, TypeInv, TypeOK
<1> QED BY <1>1, <1>2

\* A task that loses its right continues until it ends.
LEMMA RevokedContinues ==
  ASSUME TypeInv, TypeInv', ShapeInv, KeptLog, NEW t \in TaskIds,
         NEW tk \in {Revoked(task[t]), Superseded(task[t])}
  PROVE  Continues(task[t], tk)
<1>1. task[t] \in Task BY DEF TypeInv, TypeOK
<1>2. /\ tk.st = (IF task[t].st \in {"tools", "failed", "draining"} THEN task[t].st
                  ELSE "draining")
      /\ tk.for = task[t].for /\ tk.hint = task[t].hint
      /\ tk.read = task[t].read /\ ~tk.active
  BY <1>1 DEF Revoked, Superseded, Task
<1>3. task[t].hint \in Nat /\ task[t].read \in Nat BY <1>1 DEF Task
<1>4. Placed(task[t], Len(log)) BY DEF ShapeInv, SourceHead
<1>5. Placed(tk, Len(log')) BY <1>2, <1>3, <1>4, KeptLonger DEF Placed, CompletionStates
<1> QED BY <1>2, <1>5 DEF Continues

\* The slot stays as it is, or is left empty.
LEMMA SlotContinues ==
  ASSUME TypeInv, current' \in {current, NoTask} PROVE KeptSlot
BY DEF KeptSlot, TypeInv, TypeOK

\* Taking and releasing the admission.
LEMMA LaneContinues ==
  ASSUME TypeInv, UNCHANGED log
  PROVE  /\ \A op, at, id, t :
              /\ Hold(op, at, id, t)
              /\ op = "pause" => at = "decide" /\ id \in Pauses
              /\ op = "abandon" => id \in Abandons
              /\ op = "resume" => id \in Retries
              /\ op = "steer" => id \in Inputs
              /\ op = "complete" => ~Waits
              => KeptLane
         /\ Release => KeptLane
<1>1. Len(log) \in Nat BY DEF TypeInv, TypeOK
<1> QED BY <1>1 DEF Hold, Release, FreeLane, KeptLane, Admits, SourceHead

\* What users and finished programs ask for.
LEMMA UserTurns ==
  ASSUME TypeInv, TypeInv', ShapeInv, UserStep PROVE TurnStep
<1>1. UNCHANGED <<log, task, current>>
  BY DEF UserStep, AcceptBegin, PauseBegin, AbandonBegin, ResumeBegin, CompleteBegin
<1>2. KeptLane
  <2>1. ASSUME NEW i \in Inputs, AcceptBegin(i) PROVE KeptLane
    BY <1>1, <2>1, LaneContinues DEF AcceptBegin
  <2>2. ASSUME NEW i \in Pauses, PauseBegin(i) PROVE KeptLane
    BY <1>1, <2>2, LaneContinues DEF PauseBegin
  <2>3. ASSUME NEW i \in Abandons, AbandonBegin(i) PROVE KeptLane
    BY <1>1, <2>3, LaneContinues DEF AbandonBegin
  <2>4. ASSUME NEW i \in Retries, ResumeBegin(i) PROVE KeptLane
    BY <1>1, <2>4, LaneContinues DEF ResumeBegin
  <2>5. ASSUME NEW c \in Completions, CompleteBegin(c) PROVE KeptLane
    BY <1>1, <2>5, LaneContinues, PendingWaits DEF CompleteBegin
  <2> QED BY <2>1, <2>2, <2>3, <2>4, <2>5 DEF UserStep
<1> QED BY <1>1, <1>2, StillContinues, SlotContinues DEF TurnStep, KeptLog

\* What a message of the admission is: an input of a user, or a control that
\* covers a prefix which the log has.
LEMMA WrittenKeeps ==
  ASSUME TypeInv, ShapeInv, NEW type \in {"input"} \union ControlTypes, NEW id,
         NEW through \in Nat, through <= Len(log), type # "input" => id \notin Inputs,
         Write(Msg(type, id, through))
  PROVE  KeptLog
<1> DEFINE m == Msg(type, id, through)
<1>1. m.type = type /\ m.id = id /\ m.through = through BY DEF Msg
<1>2. log' = Append(log, m) BY DEF Write
<1>3. type \notin OutputTypes /\ type # "complete" BY DEF ControlTypes, OutputTypes
<1> HIDE DEF m
<1> QED BY <1>1, <1>2, <1>3 DEF KeptLog

\* What the holder of the admission knows and who asked for it.
LEMMA LaneShaped ==
  ASSUME TypeInv, ShapeInv
  PROVE  /\ lane \in Lane /\ Len(log) \in Nat /\ task \in [TaskIds -> Task]
         /\ lane.head \in Nat /\ lane.head <= Len(log)
         /\ lane.through \in Nat /\ lane.through <= Len(log)
         /\ lane.op \in {"pause", "abandon", "resume"} => lane.id \notin Inputs
         /\ NoId \notin Inputs
BY SlotAssumption DEF TypeInv, TypeOK, Lane, ShapeInv, Admits, SourceHead

\* The admission moves on to its next stage for the same client.
LEMMA AtContinues ==
  ASSUME TypeInv, TypeInv', ShapeInv, KeptLog, NEW at, lane' = [lane EXCEPT !.at = at],
         lane.op # "complete", lane.op = "pause" => at # "commit"
  PROVE  KeptLane
<1>1. /\ lane'.op = lane.op /\ lane'.id = lane.id /\ lane'.at = at
      /\ lane'.head = lane.head /\ lane'.through = lane.through
  BY LaneShaped DEF Lane
<1>2. Admits(lane', Len(log'))
  BY <1>1, LaneShaped, KeptLonger DEF ShapeInv, Admits
<1> QED BY <1>1, <1>2 DEF KeptLane

\* The admission is given back.
LEMMA ReleaseContinues == ASSUME TypeInv, TypeInv', Release PROVE KeptLane
<1>1. Len(log') \in Nat BY DEF TypeInv, TypeOK
<1> QED BY <1>1 DEF Release, FreeLane, KeptLane, Admits

\* The admission's writes that touch no task.
LEMMA WritersTurn ==
  ASSUME TypeInv, TypeInv', ShapeInv,
         AcceptCommit \/ PauseCommit \/ ControlCommit \/ ReportCommit
  PROVE  TurnStep
<1> USE LaneShaped
<1>1. UNCHANGED <<task, current>>
  BY DEF AcceptCommit, PauseCommit, ControlCommit, ReportCommit
<1>2. KeptLog /\ KeptLane
  <2>1. CASE AcceptCommit
    <3>1. Write(Msg("input", lane.id, 0)) /\ 0 <= Len(log) BY <2>1 DEF AcceptCommit
    <3>2. KeptLog BY <3>1, WrittenKeeps
    <3> QED BY <2>1, <3>2, AtContinues DEF AcceptCommit
  <2>2. CASE PauseCommit
    <3>1. KeptLog BY <2>2, WrittenKeeps DEF PauseCommit, ControlTypes
    <3> QED BY <2>2, <3>1, AtContinues DEF PauseCommit
  <2>3. CASE ControlCommit
    <3>1. CASE HeadMoved
      BY <2>3, <3>1, ReleaseContinues DEF ControlCommit, KeptLog
    <3>2. CASE ~HeadMoved
      <4>1. KeptLog BY <2>3, <3>2, WrittenKeeps DEF ControlCommit, ControlTypes
      <4> QED BY <2>3, <3>2, <4>1, AtContinues DEF ControlCommit
    <3> QED BY <3>1, <3>2
  <2>4. CASE ReportCommit
    <3>1. KeptLog BY <2>4, WrittenKeeps DEF ReportCommit, ControlTypes
    <3> QED BY <2>4, <3>1, ReleaseContinues DEF ReportCommit
  <2> QED BY <2>1, <2>2, <2>3, <2>4
<1> QED BY <1>1, <1>2, StillContinues, SlotContinues DEF TurnStep

\* What a stop covers is a prefix of the log.
LEMMA PauseThroughShaped ==
  ASSUME TypeInv, ShapeInv PROVE PauseThrough \in Nat /\ PauseThrough <= Len(log)
<1>1. CASE PauseThrough = lane.head BY <1>1, LaneShaped
<1>2. CASE PauseThrough # lane.head
  <2>1. current # NoTask /\ PauseThrough = task[current].hint BY <1>2 DEF PauseThrough
  <2>2. PICK t \in TaskIds : t = current BY <2>1 DEF TypeInv, TypeOK
  <2>3. task[t].hint \in Nat /\ task[t].hint <= Len(log)
    BY DEF TypeInv, TypeOK, Task, ShapeInv, Placed, SourceHead
  <2> QED BY <2>1, <2>2, <2>3
<1> QED BY <1>1, <1>2

\* The admission's decisions.
LEMMA DecidersTurn ==
  ASSUME TypeInv, TypeInv', ShapeInv,
         \/ PauseDecide \/ PauseRetry \/ ControlDecide \/ AdmissionDrop \/ ReportConflict
         \/ StartRetry \/ StartResidual \/ CompleteRetry \/ CompleteFull
  PROVE  TurnStep
<1> USE LaneShaped
<1>1. UNCHANGED <<log, task, current>>
  BY DEF PauseDecide, PauseRetry, ControlDecide, AdmissionDrop, ReportConflict, StartRetry,
         StartResidual, CompleteRetry, CompleteFull
<1>2. KeptLog BY <1>1 DEF KeptLog
<1>3. KeptLane
  <2>1. CASE PauseDecide
    <3>1. /\ lane'.op = "pause" /\ lane'.id = lane.id /\ lane'.head = lane.head
          /\ lane'.through = PauseThrough
      BY <2>1 DEF PauseDecide, Lane
    <3>2. Admits(lane', Len(log'))
      BY <1>1, <2>1, <3>1, PauseThroughShaped DEF ShapeInv, Admits, PauseDecide
    <3> QED BY <2>1, <3>1, <3>2 DEF KeptLane
  <2>2. CASE PauseRetry
    <3>1. lane.id \in Pauses BY <2>2 DEF PauseRetry, ShapeInv, Admits
    <3> QED BY <1>1, <2>2, <3>1, LaneContinues DEF PauseRetry
  <2>3. CASE ControlDecide
    BY <1>2, <2>3, ReleaseContinues, AtContinues DEF ControlDecide
  <2>4. CASE AdmissionDrop \/ ReportConflict \/ StartResidual \/ CompleteFull
    BY <2>4, ReleaseContinues DEF AdmissionDrop, ReportConflict, StartResidual, CompleteFull
  <2>5. CASE StartRetry BY <1>1, <2>5, LaneContinues DEF StartRetry
  <2>6. CASE CompleteRetry
    BY <1>1, <2>6, LaneContinues, ReleaseContinues, PendingWaits DEF CompleteRetry
  <2> QED BY <2>1, <2>2, <2>3, <2>4, <2>5, <2>6
<1> QED BY <1>1, <1>2, <1>3, StillContinues, SlotContinues DEF TurnStep

\* The notification of a user's message takes a right away and gives none.
LEMMA CommittedTurns ==
  ASSUME TypeInv, TypeInv', ShapeInv, Committed PROVE TurnStep
<1>1. KeptLog /\ KeptLane BY ReleaseContinues DEF Committed, KeptLog
<1>2. KeptTasks
  <2>1. CASE task' = task BY <1>1, <2>1, StillContinues
  <2>2. CASE task' # task
    <3>1. current \in TaskIds BY <2>2 DEF Committed, TypeInv, TypeOK
    <3>2. \/ task' = [task EXCEPT ![current] = Revoked(task[current])]
          \/ task' = [task EXCEPT ![current] = Superseded(task[current])]
          \/ task' = [task EXCEPT ![current] = task[current]]
      BY <3>1, <2>2 DEF Committed
    <3>3. PICK tk \in {Revoked(task[current]), Superseded(task[current])} :
            task' = [task EXCEPT ![current] = tk]
      BY <2>2, <3>1, <3>2 DEF TypeInv, TypeOK
    <3> QED BY <1>1, <3>1, <3>3, RevokedContinues, EntryContinues
  <2> QED BY <2>1, <2>2
<1> QED BY <1>1, <1>2, SlotContinues DEF Committed, TurnStep

\* A steer is decided and written.
LEMMA SteerTurns ==
  ASSUME TypeInv, TypeInv', ShapeInv, SteerDecide \/ SteerCommit PROVE TurnStep
<1> USE LaneShaped
<1>1. UNCHANGED current BY DEF SteerDecide, SteerCommit
<1>2. lane.op = "steer" BY DEF SteerDecide, SteerCommit
<1>3. KeptLog
  <2>1. CASE UNCHANGED log BY <2>1 DEF KeptLog
  <2>2. CASE Write(Msg("input", lane.id, lane.head)) BY <2>2, WrittenKeeps
  <2> QED BY <2>1, <2>2 DEF SteerDecide, SteerCommit
<1>4. KeptLane
  <2>1. CASE Release BY <2>1, ReleaseContinues
  <2>2. ASSUME NEW at, lane' = [lane EXCEPT !.at = at] PROVE KeptLane
    BY <1>2, <1>3, <2>2, AtContinues
  <2> QED BY <2>1, <2>2 DEF SteerDecide, SteerCommit
<1>5. KeptTasks
  <2>1. CASE UNCHANGED task BY <1>3, <2>1, StillContinues
  <2>2. CASE BackToReading(lane.task) BY <1>3, <2>2, GoOnContinues DEF BackToReading
  <2> QED BY <2>1, <2>2 DEF SteerDecide, SteerCommit
<1> QED BY <1>1, <1>3, <1>4, <1>5, SlotContinues DEF TurnStep

\* An input that nothing follows waits, if every finished output was followed by
\* input.
LEMMA LastInputWaits ==
  ASSUME LogInv, Reopened, NEW s \in 1..Len(log), log[s].type = "input", ~SourceChanged(s)
  PROVE  Waits
<1>1. Len(log) \in Nat /\ Len(log) \in 0..Len(log) BY DEF LogInv
<1>2. PICK f : f = FoldedState(Len(log)) OBVIOUS
<1>3. /\ f \in State
      /\ f.latest # 0 => f.latest \in 1..Len(log) /\ log[f.latest].type = "input"
      /\ \A n \in 1..Len(log) : log[n].type = "input" => n <= f.latest
      /\ f.boundary # 0 =>
           \E n \in 1..Len(log) : \/ (log[n].type = "complete" /\ f.boundary = n)
                                  \/ (log[n].type = "abandon" /\ f.boundary = log[n].through)
      /\ f.paused # 0 =>
           \E n \in 1..Len(log) : log[n].type \in {"pause", "failure"} /\ f.paused = log[n].through
  BY <1>1, <1>2, FoldShaped DEF FoldShape
<1>4. f.latest \in Nat /\ f.boundary \in Nat /\ f.paused \in Nat BY <1>3 DEF State
<1>5. \A n \in 1..Len(log) : log[n].type \in {"input"} \union ControlTypes => n <= s
  BY <1>1 DEF SourceChanged, Seqs, SourceHead
<1>6. f.latest = s
  <2>1. s <= f.latest /\ f.latest # 0 BY <1>3, <1>4
  <2>2. f.latest <= s BY <1>3, <1>5, <2>1
  <2> QED BY <1>4, <2>1, <2>2
<1>7. \A n \in 1..Len(log) : log[n].type \in ControlTypes => log[n].through < s
  <2> SUFFICES ASSUME NEW n \in 1..Len(log), log[n].type \in ControlTypes
               PROVE  log[n].through < s
    OBVIOUS
  <2>1. log[n] \in Message BY DEF LogInv
  <2>2. log[n].through \in Nat BY <2>1 DEF Message
  <2>3. log[n].through < n BY DEF LogInv, LooksBack
  <2>4. n <= s BY <1>5
  <2> QED BY <2>2, <2>3, <2>4
<1>8. f.boundary < s
  <2>1. CASE f.boundary = 0 BY <2>1
  <2>2. ASSUME NEW n \in 1..Len(log), log[n].type = "complete", f.boundary = n
        PROVE  f.boundary < s
    <3>1. PICK i \in 1..Len(log) : i > n /\ log[i].type = "input" BY <2>2 DEF Reopened
    <3>2. i <= s BY <1>5, <3>1
    <3> QED BY <2>2, <3>1, <3>2
  <2>3. ASSUME NEW n \in 1..Len(log), log[n].type = "abandon", f.boundary = log[n].through
        PROVE  f.boundary < s
    BY <1>7, <2>3 DEF ControlTypes
  <2> QED BY <1>3, <2>1, <2>2, <2>3
<1>9. f.paused < s
  <2>1. CASE f.paused = 0 BY <2>1
  <2>2. ASSUME NEW n \in 1..Len(log), log[n].type \in {"pause", "failure"},
               f.paused = log[n].through
        PROVE  f.paused < s
    BY <1>7, <2>2 DEF ControlTypes
  <2> QED BY <1>3, <2>1, <2>2
<1> QED BY <1>2, <1>4, <1>6, <1>8, <1>9 DEF Waits, SourceHead, IsPending, Larger

\* The holder's boundary moves to its own steer, which waits if nothing followed.
LEMMA NotifyTurns ==
  ASSUME TypeInv, TypeInv', ShapeInv, TurnInv, SteerNotify PROVE TurnStep
<1> USE LaneShaped
<1>1. /\ UNCHANGED <<log, current>> /\ Release
      /\ task' = [task EXCEPT ![lane.task] = IF @.st = "steering"
                    THEN [@ EXCEPT !.st = "reading", !.hint = SeqOf(lane.id)] ELSE @]
      /\ lane.op = "steer" /\ lane.at = "notify"
  BY DEF SteerNotify
<1>2. KeptLog /\ KeptLane BY <1>1, ReleaseContinues DEF KeptLog
<1>3. KeptTasks
  <2>1. CASE task' = task BY <1>2, <2>1, StillContinues
  <2>2. CASE task' # task
    <3>1. PICK t \in TaskIds : t = lane.task /\ task[t].st = "steering"
      BY <1>1, <2>2 DEF TypeInv, TypeOK
    <3>2. PICK s \in 1..Len(log) : s = SeqOf(lane.id) /\ log[s].id = lane.id
      BY <1>1 DEF TypeInv, SteerWritten, Recorded, SeqOf
    <3>3. log[s].type = "input" /\ s \in Nat /\ s > 0 /\ s <= Len(log)
      BY <1>1, <3>2 DEF ShapeInv, InputIds, Admits
    <3>4. task[t] \in Task BY DEF TypeInv, TypeOK
    <3>5. /\ task'[t].st = "reading" /\ task'[t].hint = s /\ task'[t].read = task[t].read
          /\ task'[t].active = task[t].active /\ task'[t].for = task[t].for
      BY <1>1, <3>1, <3>2, <3>4 DEF Task
    <3>6. \A u \in TaskIds \ {t} : task'[u] = task[u] BY <1>1, <3>1
    <3>7. task[t].for = NoId BY <3>1 DEF ShapeInv, Placed, CompletionStates
    <3>8. TurnOpen(t)'
      <4> SUFFICES ASSUME task[t].active
                   PROVE  Reopened' /\ (~SourceChanged(task[t].hint)' => Waits')
        BY <3>5, <3>7 DEF TurnOpen
      <4>1. Reopened BY <3>1, <3>7 DEF TurnInv, TurnOpen
      <4>2. Reopened' BY <1>1, <4>1 DEF Reopened
      <4>3. SourceChanged(task[t].hint)' <=> SourceChanged(s)
        BY <1>1, <3>5 DEF SourceChanged, Seqs, SourceHead
      <4>4. ~SourceChanged(s) => Waits BY <3>3, <4>1, LastInputWaits, LogShaped
      <4> QED BY <1>1, <4>2, <4>3, <4>4, WaitsStays
    <3>9. Renewed(t)
      BY <1>1, <3>3, <3>5, <3>7, <3>8 DEF Renewed, ShapeInv, Placed, SourceHead
    <3> QED BY <1>2, <3>6, <3>9, UntouchedContinues DEF KeptTasks
  <2> QED BY <2>1, <2>2
<1> QED BY <1>1, <1>2, <1>3, SlotContinues DEF TurnStep

\* A task's own failure is decided and written.
LEMMA FailTurns ==
  ASSUME TypeInv, TypeInv', ShapeInv, FailDecide \/ FailCommit PROVE TurnStep
<1> USE LaneShaped
<1>1. UNCHANGED current BY DEF FailDecide, FailCommit
<1>2. lane.op = "fail" BY DEF FailDecide, FailCommit
<1>3. KeptLog
  <2>1. CASE UNCHANGED log BY <2>1 DEF KeptLog
  <2>2. CASE Write(Msg("failure", NoId, lane.through)) BY <2>2, WrittenKeeps DEF ControlTypes
  <2> QED BY <2>1, <2>2 DEF FailDecide, FailCommit
<1>4. KeptLane
  <2>1. CASE Release BY <2>1, ReleaseContinues
  <2>2. CASE lane' = [lane EXCEPT !.at = "commit"] BY <1>2, <1>3, <2>2, AtContinues
  <2> QED BY <2>1, <2>2 DEF FailDecide, FailCommit
<1>5. KeptTasks
  <2>1. CASE UNCHANGED task BY <1>3, <2>1, StillContinues
  <2>2. CASE GoOn(lane.task, "failing", "failed") BY <1>3, <2>2, GoOnContinues
  <2> QED BY <2>1, <2>2 DEF FailDecide, FailCommit
<1> QED BY <1>1, <1>3, <1>4, <1>5, SlotContinues DEF TurnStep

\* The slot's holder yields, and goes on like one that lost its right.
LEMMA YieldedContinues ==
  ASSUME TypeInv, TypeInv', ShapeInv, KeptLog
  PROVE  \A t \in TaskIds : Yielded[t] = task[t] \/ Continues(task[t], Yielded[t])
<1>1. CASE Yielded = task BY <1>1
<1>2. CASE Yielded # task
  <2>1. current \in TaskIds BY <1>2 DEF Yielded, MustYield, TypeInv, TypeOK
  <2>2. Yielded = [task EXCEPT ![current] = Superseded(task[current])]
    BY <1>2 DEF Yielded
  <2>3. /\ Yielded[current] = Superseded(task[current])
        /\ \A t \in TaskIds \ {current} : Yielded[t] = task[t]
    BY <2>1, <2>2 DEF TypeInv, TypeOK
  <2>4. Continues(task[current], Superseded(task[current])) BY <2>1, RevokedContinues
  <2> QED BY <2>3, <2>4
<1> QED BY <1>1, <1>2

\* A fold without input has nothing that waits, and a reply is bound to one.
LEMMA PendingHasInput ==
  ASSUME TypeInv, ShapeInv, Waits
  PROVE  Len(log) > 0 /\ Reopened
<1>1. LogInv /\ Len(log) \in Nat /\ Len(log) \in 0..Len(log) BY LogShaped
<1>2. PICK f : f = FoldedState(Len(log)) OBVIOUS
<1>3. /\ f \in State
      /\ f.latest # 0 => f.latest \in 1..Len(log) /\ log[f.latest].type = "input"
      /\ \A n \in 1..Len(log) : log[n].type = "complete" => n <= f.boundary
  BY <1>1, <1>2, FoldShaped DEF FoldShape
<1>4. f.latest > f.boundary /\ f.latest \in Nat /\ f.boundary \in Nat
  BY <1>2, <1>3 DEF Waits, SourceHead, IsPending, Larger, State
<1>5. f.latest \in 1..Len(log) /\ log[f.latest].type = "input" BY <1>3, <1>4
<1>6. Reopened BY <1>3, <1>4, <1>5 DEF Reopened
<1> QED BY <1>1, <1>5, <1>6

\* The parts of a new task.
LEMMA NewTaskShape ==
  ASSUME NEW hint \in Nat, NEW for
  PROVE  LET tk == NewTask(hint, for)
         IN /\ tk.hint = hint /\ tk.read = 0 /\ tk.for = for /\ tk.active
            /\ tk.st = IF for = NoId THEN "reading" ELSE "working"
BY DEF NewTask

\* The follower starts a reply: its input waits at the head it is bound to.
LEMMA StartTurns ==
  ASSUME TypeInv, TypeInv', ShapeInv, NEW t \in TaskIds, StartTask(t) PROVE TurnStep
<1> USE LaneShaped
<1>1. /\ UNCHANGED log /\ Release /\ current' = t /\ lane.op = "start"
      /\ task' = [Yielded EXCEPT ![t] = NewTask(lane.head, NoId)]
      /\ Pending(lane.head) /\ lane.head = SourceHead
  BY DEF StartTask, Undisturbed, HeadMoved
<1>2. KeptLog /\ KeptLane BY <1>1, ReleaseContinues DEF KeptLog
<1>3. Waits BY <1>1, PendingWaits
<1>4. Yielded \in [TaskIds -> Task]
  BY RevokedTyped, EntryTyped DEF Yielded, MustYield, TypeInv, TypeOK
<1>5. /\ task'[t] = NewTask(lane.head, NoId)
      /\ \A u \in TaskIds \ {t} : task'[u] = Yielded[u]
  BY <1>1, <1>4
<1>6. /\ task'[t].hint = Len(log) /\ task'[t].read = 0 /\ task'[t].for = NoId
      /\ task'[t].st = "reading"
  BY <1>1, <1>5, NewTaskShape DEF SourceHead
<1>7. TurnOpen(t)'
  <2>1. Reopened' BY <1>1, <1>3, PendingHasInput DEF Reopened
  <2>2. Waits' BY <1>1, <1>3, WaitsStays
  <2> QED BY <1>6, <2>1, <2>2 DEF TurnOpen
<1>8. Renewed(t)
  BY <1>1, <1>3, <1>6, <1>7, PendingHasInput DEF Renewed, Placed
<1>9. ASSUME NEW u \in TaskIds \ {t} PROVE Continues(task[u], task'[u])
  BY <1>2, <1>5, YieldedContinues, UntouchedContinues
<1>10. KeptTasks BY <1>8, <1>9 DEF KeptTasks
<1> QED BY <1>1, <1>2, <1>8, <1>10 DEF TurnStep, KeptSlot

\* A completion starts: no input waits at the head it is bound to.
LEMMA CompletionTurns ==
  ASSUME TypeInv, TypeInv', ShapeInv, TurnInv, NEW t \in TaskIds, CompleteStart(t) PROVE TurnStep
<1> USE LaneShaped
<1>1. /\ UNCHANGED log /\ Release /\ current' = t /\ lane.op = "complete" /\ ~HeadMoved
      /\ task' = [task EXCEPT ![t] = NewTask(lane.head, lane.id)]
  BY DEF CompleteStart
<1>2. KeptLog /\ KeptLane BY <1>1, ReleaseContinues DEF KeptLog
<1>3. ~Waits BY <1>1 DEF TurnInv, CompletionIdle
<1>4. /\ task'[t] = NewTask(lane.head, lane.id)
      /\ \A u \in TaskIds \ {t} : task'[u] = task[u]
  BY <1>1
<1>5. lane.id # NoId BY <1>1, SlotAssumption DEF TypeInv, CompletionNamed
<1>6. /\ task'[t].hint = Len(log) /\ task'[t].read = 0 /\ task'[t].for # NoId
      /\ task'[t].st = "working"
  BY <1>1, <1>4, <1>5, NewTaskShape DEF SourceHead, HeadMoved
<1>7. TurnOpen(t)'
  <2>1. ~Waits' BY <1>1, <1>3, WaitsStays
  <2> QED BY <1>6, <2>1 DEF TurnOpen
<1>8. Renewed(t) BY <1>1, <1>6, <1>7 DEF Renewed, Placed, CompletionStates
<1>9. KeptTasks BY <1>2, <1>4, <1>8, UntouchedContinues DEF KeptTasks
<1> QED BY <1>1, <1>2, <1>8, <1>9 DEF TurnStep, KeptSlot

\* A start that finds nothing to do or no room.
LEMMA NoStartTurns ==
  ASSUME TypeInv, TypeInv', ShapeInv, StartNothing \/ StartFull PROVE TurnStep
<1>1. UNCHANGED log /\ Release /\ task' = Yielded /\ current' \in {current, NoTask}
  BY DEF StartNothing, StartFull
<1>2. KeptLog /\ KeptLane BY <1>1, ReleaseContinues DEF KeptLog
<1>3. KeptTasks BY <1>1, <1>2, YieldedContinues, UntouchedContinues DEF KeptTasks
<1> QED BY <1>1, <1>2, <1>3, SlotContinues DEF TurnStep

\* The admission.
LEMMA LaneTurns ==
  ASSUME TypeInv, TypeInv', ShapeInv, TurnInv, LaneStep PROVE TurnStep
BY WritersTurn, DecidersTurn, CommittedTurns, SteerTurns, NotifyTurns, FailTurns, StartTurns,
   CompletionTurns, NoStartTurns DEF LaneStep

\* The follower's drive.
LEMMA DriveTurns == ASSUME TypeInv, TypeInv', ShapeInv, DriveStep PROVE TurnStep
<1>1. UNCHANGED <<log, current>>
  BY DEF DriveStep, DriveBegin, StartActive, StartYield, StartBegin, DriveDetach, ReportBegin
<1>2. KeptLog BY <1>1 DEF KeptLog
<1>3. KeptLane
  <2>1. CASE lane' = lane BY <2>1 DEF KeptLane
  <2>2. CASE StartBegin BY <1>1, <2>2, LaneContinues DEF StartBegin
  <2>3. CASE ReportBegin /\ lane' # lane
    <3>1. /\ lane'.op = "report" /\ lane'.head = SourceHead
          /\ lane'.through = IF drive.boundary < SourceHead THEN drive.boundary ELSE SourceHead
      BY <2>3 DEF ReportBegin
    <3>2. Len(log) \in Nat /\ drive.boundary \in Nat BY DEF TypeInv, TypeOK, Drive
    <3> QED BY <1>1, <3>1, <3>2 DEF KeptLane, Admits, SourceHead
  <2> QED
    BY <2>1, <2>2, <2>3
       DEF DriveStep, DriveBegin, StartActive, StartYield, DriveDetach
<1>4. KeptTasks
  <2>1. CASE task' = task BY <1>2, <2>1, StillContinues
  <2>2. CASE task' # task
    <3>1. task' = [task EXCEPT ![drive.task] = Revoked(@)]
      BY <2>2
         DEF DriveStep, DriveBegin, StartActive, StartYield, StartBegin, DriveDetach, ReportBegin
    <3>2. PICK t \in TaskIds : t = drive.task BY <2>2, <3>1 DEF TypeInv, TypeOK
    <3>3. task' = [task EXCEPT ![t] = Revoked(task[t])] BY <3>1, <3>2
    <3> QED BY <1>2, <3>3, RevokedContinues, EntryContinues
  <2> QED BY <2>1, <2>2
<1> QED BY <1>1, <1>2, <1>3, <1>4, SlotContinues DEF TurnStep

\* A reply task that reads the whole log and moves on.
LEMMA ReadContinues ==
  ASSUME TypeInv, TypeInv', ShapeInv, KeptLog, NEW t \in TaskIds, NEW st \in TaskStates,
         task' = [task EXCEPT ![t].read = Len(log'), ![t].st = st],
         task[t].st \notin CompletionStates, st # "working"
  PROVE  /\ KeptTasks
         /\ task'[t].st = st /\ task'[t].for = NoId /\ task'[t].active = task[t].active
<1> DEFINE tk == [task[t] EXCEPT !.read = Len(log'), !.st = st]
<1>1. task[t] \in Task BY DEF TypeInv, TypeOK
<1>2. /\ tk.st = st /\ tk.for = task[t].for /\ tk.hint = task[t].hint
      /\ tk.read = Len(log') /\ tk.active = task[t].active
  BY <1>1 DEF Task
<1>3. task' = [task EXCEPT ![t] = tk] OBVIOUS
<1>4. task[t].hint \in Nat BY <1>1 DEF Task
<1>5. Placed(task[t], Len(log)) /\ task[t].for = NoId BY DEF ShapeInv, Placed, SourceHead
<1> HIDE DEF tk
<1>6. Placed(tk, Len(log')) BY <1>2, <1>4, <1>5, KeptLonger DEF Placed
<1>7. Continues(task[t], tk)
  BY <1>2, <1>5, <1>6, KeptLonger DEF Continues, CompletionStates
<1>8. KeptTasks BY <1>3, <1>7, EntryContinues
<1>9. task'[t] = tk BY <1>3 DEF TypeInv, TypeOK
<1> QED BY <1>2, <1>5, <1>8, <1>9

\* An output of a reply: its input waits, and a finished one ends its turn.
LEMMA CommitTurns ==
  ASSUME TypeInv, TypeInv', SlotInv, SlotInv', ShapeInv, TurnInv,
         NEW t \in TaskIds, NEW finish \in OutputTypes, Commit(t, finish)
  PROVE  TurnStep
<1> USE LaneShaped
<1>1. /\ log' = Append(log, Msg(finish, NoId, task[t].read))
      /\ UNCHANGED <<lane, current>>
      /\ task[t].st = "thinking" /\ task[t].active /\ ~SourceChanged(task[t].hint)
  BY DEF Commit, Write, MayCommit, SourceHeld
<1>2. PICK st \in TaskStates : /\ st = IF finish = "continue" THEN "tools" ELSE "finished"
                               /\ st # "working"
  BY DEF TaskStates
<1>3. Len(log') = SourceHead + 1 BY <1>1, AppendedTyped DEF SourceHead
<1>4. task' = [task EXCEPT ![t].read = Len(log'), ![t].st = st] BY <1>2, <1>3 DEF Commit
<1>5. task[t].st \notin CompletionStates /\ task[t].for = NoId
  BY <1>1 DEF CompletionStates, ShapeInv, Placed
<1>6. Waits BY <1>1, <1>5 DEF TurnInv, TurnOpen
<1>7. finish = "complete" => Closed
  <2> SUFFICES ASSUME finish = "complete" PROVE Closed OBVIOUS
  <2>1. t = current /\ t # NoTask BY <1>1, SlotAssumption DEF SlotInv, HolderInSlot
  <2>2. lane'.op # "complete" BY <1>1, <2>1 DEF SlotInv, SlotReserved
  <2>3. task'[t].st = "finished" /\ task'[t].for = NoId
    <3>1. task[t] \in Task BY DEF TypeInv, TypeOK
    <3> QED BY <1>2, <1>4, <1>5, <3>1 DEF Task
  <2>4. \A u \in TaskIds : task'[u].active => u = t
    BY <1>1, <2>1 DEF SlotInv, HolderInSlot
  <2> QED BY <2>2, <2>3, <2>4 DEF Closed
<1>8. KeptLog
  <2> DEFINE m == Msg(finish, NoId, task[t].read)
  <2>1. m.type = finish /\ m.id = NoId /\ finish \notin ControlTypes
    BY DEF Msg, OutputTypes, ControlTypes
  <2>2. log' = Append(log, m) BY <1>1
  <2> HIDE DEF m
  <2> QED BY <1>6, <1>7, <2>1, <2>2 DEF KeptLog
<1>9. KeptTasks BY <1>2, <1>4, <1>5, <1>8, ReadContinues
<1> QED BY <1>1, <1>8, <1>9, SlotContinues DEF TurnStep, KeptLane

\* A tool's result may be written at any time.
LEMMA ResultKeeps ==
  ASSUME TypeInv, ShapeInv, NEW n, Write(Msg("result", NoId, n)) PROVE KeptLog
<1> DEFINE m == Msg("result", NoId, n)
<1>1. m.type = "result" /\ m.id = NoId /\ log' = Append(log, m) BY DEF Msg, Write
<1>2. "result" \notin ControlTypes \union OutputTypes BY DEF ControlTypes, OutputTypes
<1> HIDE DEF m
<1> QED BY <1>1, <1>2, LaneShaped DEF KeptLog

\* The other steps of a task.
LEMMA TaskTurns ==
  ASSUME TypeInv, TypeInv', SlotInv, SlotInv', ShapeInv, TurnInv, NEW t \in TaskIds, TaskStep(t)
  PROVE  TurnStep
<1> USE LaneShaped
<1>1. task[t] \in Task /\ Placed(task[t], Len(log))
  BY DEF TypeInv, TypeOK, ShapeInv, SourceHead
<1>2. ASSUME NEW n \in 1..SourceHead, SettleCall(t, n) PROVE TurnStep
  <2>1. KeptLog BY <1>2, ResultKeeps DEF SettleCall
  <2> QED BY <1>2, <2>1, StillContinues, SlotContinues DEF SettleCall, TurnStep, KeptLane
<1>3. CASE Read(t)
  <2> DEFINE st == IF Steps(SourceHead) >= MaxSteps THEN "limit" ELSE "preparing"
  <2>1. st \in TaskStates /\ st # "working" BY DEF TaskStates
  <2>2. KeptLog /\ UNCHANGED <<lane, current>> BY <1>3 DEF Read, KeptLog
  <2>3. task' = [task EXCEPT ![t].read = Len(log'), ![t].st = st] BY <1>3 DEF Read, SourceHead
  <2>4. task[t].st \notin CompletionStates BY <1>3 DEF Read, CompletionStates
  <2> HIDE DEF st
  <2>5. KeptTasks BY <2>1, <2>2, <2>3, <2>4, ReadContinues
  <2> QED BY <2>2, <2>5, SlotContinues DEF TurnStep, KeptLane
<1>4. CASE Prepare(t) \/ CommitRefused(t) \/ Deliver(t) \/ CloseCheck(t)
  <2>1. KeptLog /\ UNCHANGED <<lane, current>>
    BY <1>4 DEF Prepare, CommitRefused, Deliver, CloseCheck, KeptLog
  <2>2. KeptTasks
    <3>1. CASE Prepare(t)
      BY <1>1, <2>1, <3>1, StepContinues DEF Prepare, Placed, CompletionStates
    <3>2. CASE CommitRefused(t)
      BY <1>1, <2>1, <3>2, StepContinues DEF CommitRefused, Placed, CompletionStates
    <3>3. CASE Deliver(t)
      BY <1>1, <2>1, <3>3, StepContinues DEF Deliver, CompletionStates
    <3>4. CASE CloseCheck(t)
      BY <1>1, <2>1, <3>4, StepContinues DEF CloseCheck, Placed, CompletionStates
    <3> QED BY <1>4, <3>1, <3>2, <3>3, <3>4
  <2> QED BY <2>1, <2>2, SlotContinues DEF TurnStep, KeptLane
<1>5. ASSUME NEW finish \in OutputTypes, Commit(t, finish) PROVE TurnStep
  BY <1>5, CommitTurns
<1>6. CASE ToolFinish(t)
  <2>1. KeptLog
    <3>1. CASE UNCHANGED log BY <3>1 DEF KeptLog
    <3> QED BY <1>6, <3>1, ResultKeeps DEF ToolFinish
  <2>2. KeptTasks
    BY <1>1, <1>6, <2>1, StepContinues DEF ToolFinish, Placed, CompletionStates
  <2> QED BY <1>6, <2>1, <2>2, SlotContinues DEF ToolFinish, TurnStep, KeptLane
<1>7. CASE CloseHead(t)
  <2>1. KeptLog /\ UNCHANGED <<lane, current>> BY <1>7 DEF CloseHead, KeptLog
  <2>2. task' = [task EXCEPT ![t].read = Len(log'), ![t].st = "abandoning"]
    BY <1>7 DEF CloseHead, SourceHead
  <2>3. /\ task[t].st \notin CompletionStates /\ "abandoning" \in TaskStates
        /\ "abandoning" # "working"
    BY <1>7 DEF CloseHead, CompletionStates, TaskStates
  <2>4. KeptTasks BY <2>1, <2>2, <2>3, ReadContinues
  <2> QED BY <2>1, <2>4, SlotContinues DEF TurnStep, KeptLane
<1>8. CASE CloseCommit(t)
  <2>1. KeptLog
    <3>1. CASE UNCHANGED log BY <3>1 DEF KeptLog
    <3>2. CASE Write(Msg("abandon", NoId, task[t].read))
      <4>1. task[t].read \in Nat /\ task[t].read <= Len(log) BY <1>1 DEF Task, Placed
      <4> QED BY <3>2, <4>1, WrittenKeeps DEF ControlTypes
    <3> QED BY <1>8, <3>1, <3>2 DEF CloseCommit, Write
  <2>2. Step(t, "finished") \/ Step(t, "failing") BY <1>8 DEF CloseCommit
  <2>3. KeptTasks
    BY <1>1, <1>8, <2>1, <2>2, StepContinues DEF CloseCommit, Placed, CompletionStates
  <2> QED BY <1>8, <2>1, <2>3, SlotContinues DEF CloseCommit, TurnStep, KeptLane
<1>9. CASE FailBegin(t)
  <2>1. KeptLog /\ UNCHANGED <<log, current>> BY <1>9 DEF FailBegin, KeptLog
  <2>2. KeptLane
    <3>1. CASE UNCHANGED lane BY <3>1 DEF KeptLane
    <3>2. CASE Hold("fail", "decide", NoId, t) BY <2>1, <3>2, LaneContinues
    <3> QED BY <1>9, <3>1, <3>2 DEF FailBegin
  <2>3. KeptTasks
    <3>1. CASE UNCHANGED task BY <2>1, <3>1, StillContinues
    <3>2. CASE Step(t, "failed")
      BY <1>9, <2>1, <3>2, StepContinues DEF FailBegin, CompletionStates
    <3> QED BY <1>9, <3>1, <3>2 DEF FailBegin
  <2> QED BY <2>1, <2>2, <2>3, SlotContinues DEF TurnStep
<1>10. CASE TaskEnd(t)
  <2>1. /\ KeptLog /\ KeptLane /\ current' \in {current, NoTask}
        /\ task' = [task EXCEPT ![t] = FreeTask]
    BY <1>10 DEF TaskEnd, KeptLog, KeptLane
  <2>2. Continues(task[t], FreeTask)
    BY <2>1, KeptLonger DEF Continues, Placed, FreeTask
  <2> QED BY <2>1, <2>2, EntryContinues, SlotContinues DEF TurnStep
<1> QED BY <1>2, <1>3, <1>4, <1>5, <1>6, <1>7, <1>8, <1>9, <1>10 DEF TaskStep

\* Steers, failing programs, withdrawn rights, crashes and the restart gate.
LEMMA DisturbTurns == ASSUME TypeInv, TypeInv', ShapeInv, Disturb PROVE TurnStep
<1> USE LaneShaped
<1>1. UNCHANGED log /\ KeptLog /\ current' \in {current, NoTask}
  BY DEF Disturb, SteerBegin, ProgramFail, OwnerCancel, Crash, GateClose, GateOpen, KeptLog
<1>2. ASSUME NEW t \in TaskIds, NEW i \in Inputs, SteerBegin(t, i) PROVE TurnStep
  <2>1. KeptLane BY <1>1, <1>2, LaneContinues DEF SteerBegin
  <2>2. Step(t, "steering") /\ task[t].st = "reading" BY <1>2 DEF SteerBegin, Step
  <2>3. task[t].for = NoId BY <2>2 DEF ShapeInv, Placed, CompletionStates
  <2>4. KeptTasks BY <1>1, <2>2, <2>3, StepContinues
  <2> QED BY <1>1, <2>1, <2>4, SlotContinues DEF TurnStep
<1>3. ASSUME NEW t \in TaskIds, ProgramFail(t) PROVE TurnStep
  <2>1. KeptTasks BY <1>1, <1>3, StepContinues DEF ProgramFail, CompletionStates
  <2> QED BY <1>1, <1>3, <2>1, SlotContinues DEF ProgramFail, TurnStep, KeptLane
<1>4. ASSUME NEW t \in TaskIds, OwnerCancel(t) PROVE TurnStep
  <2>1. task' = [task EXCEPT ![t] = Revoked(task[t])] BY <1>4 DEF OwnerCancel
  <2>2. KeptTasks BY <1>1, <2>1, RevokedContinues, EntryContinues
  <2> QED BY <1>1, <1>4, <2>2, SlotContinues DEF OwnerCancel, TurnStep, KeptLane
<1>5. CASE Crash
  <2>1. KeptLane BY <1>5, ReleaseContinues DEF Crash, Release
  <2>2. ASSUME NEW t \in TaskIds PROVE Continues(task[t], task'[t])
    <3>1. task'[t] = FreeTask BY <1>5 DEF Crash
    <3> QED BY <1>1, <3>1, KeptLonger DEF Continues, Placed, FreeTask
  <2> QED BY <1>1, <2>1, <2>2, SlotContinues DEF TurnStep, KeptTasks
<1>6. CASE GateClose \/ GateOpen
  <2>1. UNCHANGED <<lane, task>> BY <1>6 DEF GateClose, GateOpen
  <2> QED BY <1>1, <2>1, StillContinues, SlotContinues DEF TurnStep, KeptLane
<1> QED BY <1>2, <1>3, <1>4, <1>5, <1>6 DEF Disturb

\* Whatever happens is such a step.
LEMMA EveryStepTurns ==
  ASSUME TypeInv, SlotInv, ShapeInv, TurnInv, [Next]_vars
  PROVE  TypeInv' /\ SlotInv' /\ TurnStep
<1>1. TypeInv' /\ SlotInv' BY NextTyped, SlotStep
<1>2. CASE UNCHANGED vars
  <2>1. KeptLog /\ KeptLane /\ UNCHANGED <<task, current>> BY <1>2 DEF vars, KeptLog, KeptLane
  <2> QED BY <1>1, <2>1, StillContinues, SlotContinues DEF TurnStep
<1> QED BY <1>1, <1>2, UserTurns, LaneTurns, DriveTurns, TaskTurns, DisturbTurns DEF Next

\* The turns of a source, with what the proofs need of its types and slot.
TurnSafe == TypeInv /\ SlotInv /\ ShapeInv /\ TurnInv

\* Turns are opened and closed as they should in every reachable state.
LEMMA TurnAlways == Spec => []TurnSafe
<1>1. Init => ShapeInv
  BY DEF Init, ShapeInv, LooksBack, InputIds, Admits, Placed, SlotBound, FreeLane, FreeTask,
         SourceHead
<1>2. Init => TurnInv
  BY DEF Init, TurnInv, CompletionIdle, TurnOpen, FreeLane, FreeTask
<1>3. ASSUME TypeInv, SlotInv, ShapeInv, TurnInv, [Next]_vars PROVE ShapeInv' /\ TurnInv'
  BY <1>3, EveryStepTurns, ShapeStep, TurnKept
<1> QED BY <1>1, <1>2, <1>3, SlotAlways, PTL DEF Spec, TurnSafe

-----------------------------------------------------------------------------
(* The theorems.                                                           *)

\* What the reader finds by index is what the fold over every message finds,
\* on a log of any length (_read_state): no control covers what follows it, so
\* nothing before the latest input can stop or answer it.
THEOREM ReadersAgreeAlways == Spec => []ReadersAgree
<1>1. TurnSafe => ReadersAgree
  <2> SUFFICES ASSUME TypeInv, ShapeInv PROVE ReadersAgree BY DEF TurnSafe
  <2>1. LogInv /\ Len(log) \in 0..Len(log) BY LogShaped
  <2> QED BY <2>1, ReadAsFolded DEF ReadersAgree, SourceHead
<1> QED BY <1>1, TurnAlways, PTL

\* An appended output was waited for.
LEMMA AnswersPendingStep ==
  ASSUME TypeInv, TypeInv', AnswersArePending, KeptLog PROVE AnswersArePending'
<1>1. Len(log) \in Nat BY DEF TypeInv, TypeOK
<1>2. PICK k \in Nat : k = Len(log) BY <1>1
<1>3. \A n \in 1..k : log[n].type \in OutputTypes => IsPending(FoldedState(n - 1))
  BY <1>2 DEF AnswersArePending, Seqs, SourceHead
<1>4. CASE UNCHANGED log
  <2>1. \A n \in 0..k : FoldedState(n)' = FoldedState(n) BY <1>2, <1>4, FoldStays
  <2> SUFFICES ASSUME NEW n \in 1..Len(log'), log'[n].type \in OutputTypes
               PROVE  IsPending(FoldedState(n - 1)')
    BY DEF AnswersArePending, Seqs, SourceHead
  <2>2. n \in 1..k /\ n - 1 \in 0..k /\ log[n].type \in OutputTypes BY <1>2, <1>4
  <2> QED BY <1>3, <2>1, <2>2
<1>5. ASSUME NEW m, log' = Append(log, m), m.type \in OutputTypes => Waits
      PROVE  AnswersArePending'
  <2>1. /\ Len(log') = Len(log) + 1 /\ log'[Len(log) + 1] = m
        /\ \A n \in 1..Len(log) : log'[n] = log[n]
    BY <1>5, AppendedTyped
  <2>2. \A n \in 0..k : FoldedState(n)' = FoldedState(n) BY <1>2, <1>5, FoldAppended
  <2> SUFFICES ASSUME NEW n \in 1..Len(log'), log'[n].type \in OutputTypes
               PROVE  IsPending(FoldedState(n - 1)')
    BY DEF AnswersArePending, Seqs, SourceHead
  <2>3. n - 1 \in 0..k BY <1>2, <2>1
  <2>4. CASE n \in 1..k BY <1>2, <1>3, <2>1, <2>2, <2>3, <2>4
  <2>5. CASE n = k + 1
    <3>1. Waits BY <1>2, <1>5, <2>1, <2>5
    <3>2. n - 1 = k BY <2>5
    <3>3. IsPending(FoldedState(k)) BY <1>2, <3>1 DEF Waits, SourceHead
    <3> QED BY <2>2, <2>3, <3>2, <3>3
  <2> QED BY <1>2, <2>1, <2>4, <2>5
<1> QED BY <1>4, <1>5 DEF KeptLog

\* Nothing is answered that was not waiting: whatever stopped, closed or
\* answered a turn, no output of that turn follows (session.start,
\* check_source and react's commit), for any number of tasks and commands.
THEOREM AnswersArePendingAlways == Spec => []AnswersArePending
<1>1. Init => AnswersArePending BY DEF Init, AnswersArePending, Seqs, SourceHead
<1>2. TurnSafe /\ AnswersArePending /\ [Next]_vars => AnswersArePending'
  BY EveryStepTurns, AnswersPendingStep DEF TurnSafe, TurnStep
<1> QED BY <1>1, <1>2, TurnAlways, PTL DEF Spec

\* The user goes first: a completion, even one admitted before the input came,
\* delivers only while no input waits (session.complete).
THEOREM DeliveriesYieldAlways == Spec => DeliveriesYield
<1>1. ASSUME TypeInv, SlotInv, ShapeInv, TurnInv, [Next]_vars,
             NEW t \in TaskIds, task[t].st = "working", task'[t].st = "finished"
      PROVE  ~IsPending(FoldedState(SourceHead))
  <2>1. Continues(task[t], task'[t]) BY <1>1, EveryStepTurns DEF TurnStep, KeptTasks, Renewed
  <2>2. task[t].active /\ ~SourceChanged(task[t].hint) BY <1>1, <2>1 DEF Continues
  <2>3. task[t].for # NoId BY <1>1 DEF ShapeInv, Placed
  <2> QED BY <1>1, <2>2, <2>3 DEF TurnInv, TurnOpen, Waits
<1>2. TurnSafe /\ [Next]_vars
        => [\A t \in TaskIds : task[t].st = "working" /\ task'[t].st = "finished"
              => ~IsPending(FoldedState(SourceHead))]_vars
  BY <1>1 DEF TurnSafe
<1> QED BY <1>2, TurnAlways, PTL DEF Spec, DeliveriesYield

\* A stop that is about to be written either finds a turn that knows all input,
\* or leaves out an input that the turn does not know.
PauseKnows ==
  lane.op = "pause" /\ lane.at = "commit" /\ ~HeadMoved
  /\ current # NoTask /\ task[current].for = NoId
    => InputsKnown(current) \/ \E n \in Seqs({"input"}, 0, SourceHead) : n > lane.through

\* What is proved of the runs without a steer that is sent again.
PauseCovered == spent["resend"] = 0 => PauseKnows

\* The stop is decided: it covers the head unless a revoked turn has input behind it.
LEMMA PauseDecided ==
  ASSUME TypeInv, SlotInv, ShapeInv, CoverInv, PauseDecide, ~HeadMoved,
         NEW t \in TaskIds, t = current, task[t].for = NoId
  PROVE  InputsKnown(t) \/ \E n \in Seqs({"input"}, 0, SourceHead) : n > PauseThrough
<1>1. Len(log) \in Nat /\ task[t].hint \in Nat /\ task[t].read \in Nat /\ t # NoTask
  BY SlotAssumption DEF TypeInv, TypeOK, Task
<1>2. lane.head = SourceHead BY DEF HeadMoved
<1>3. task[t].hint > 0 BY <1>1 DEF ShapeInv, SlotBound
<1>4. CASE task[t].active
  <2>1. ~Announcing BY DEF PauseDecide, Announcing
  <2> QED BY <1>4, <2>1 DEF CoverInv, HolderKnows
<1>5. CASE ~task[t].active
  <2> DEFINE S == Seqs({"input"}, 0, SourceHead)
  <2>1. LatestInput(lane.head) = Latest(S) BY <1>2 DEF LatestInput
  <2>2. S \in SUBSET (1..Len(log)) BY DEF Seqs
  <2> HIDE DEF S
  <2>3. /\ Latest(S) \in Nat
        /\ S # {} => Latest(S) \in S
        /\ S = {} => Latest(S) = 0
        /\ \A n \in S : n <= Latest(S)
    BY <1>1, <2>2, LatestOf
  <2>4. CASE Latest(S) > task[t].hint
    <3>1. PauseThrough = task[t].hint BY <1>1, <1>3, <1>5, <2>1, <2>4 DEF PauseThrough
    <3>2. Latest(S) \in S BY <1>1, <2>3, <2>4
    <3> QED BY <2>4, <3>1, <3>2 DEF S
  <2>5. CASE ~(Latest(S) > task[t].hint)
    <3>1. \A n \in S : n <= task[t].hint BY <1>1, <2>2, <2>3, <2>5
    <3>2. \A n \in S : n <= Known(t) BY <1>1, <2>2, <3>1 DEF Known, Larger
    <3> QED BY <3>2 DEF InputsKnown, S
  <2> QED BY <2>4, <2>5
<1> QED BY <1>4, <1>5

\* What a stop knows does not change before it is written.
LEMMA PauseStep ==
  ASSUME TypeInv, SlotInv, ShapeInv, TurnInv, Covered, PauseCovered, [Next]_vars
  PROVE  PauseCovered'
<1> SUFFICES ASSUME spent'["resend"] = 0, lane'.op = "pause", lane'.at = "commit", ~HeadMoved',
                    current' # NoTask, task'[current'].for = NoId
             PROVE  \/ InputsKnown(current)'
                    \/ \E n \in Seqs({"input"}, 0, SourceHead)' : n > lane'.through
  BY DEF PauseCovered, PauseKnows
<1>1. TypeInv' /\ SlotInv' /\ TurnStep BY EveryStepTurns
<1>2. CoverInv /\ PauseKnows BY ResendStays DEF Covered, PauseCovered
<1>3. PICK t \in TaskIds : current' = t /\ (t = current \/ Renewed(t))
  BY <1>1 DEF TurnStep, KeptSlot
<1>4. InputsKnown(current)' <=> InputsKnown(t)' BY <1>3 DEF InputsKnown, Known
<1>5. Len(log) \in Nat /\ Len(log') \in Nat /\ Len(log') >= Len(log)
  BY <1>1, KeptLonger DEF TurnStep
<1>6. CASE lane' = lane
  <2>1. lane.head \in Nat /\ lane.head <= Len(log) BY LaneShaped
  <2>2. UNCHANGED log /\ ~HeadMoved
    <3>1. Len(log') = Len(log) BY <1>5, <1>6, <2>1 DEF HeadMoved, SourceHead
    <3>2. \A m : log' # Append(log, m) BY <1>1, <1>5, <3>1, AppendedTyped
    <3> QED BY <1>1, <1>6, <3>1, <3>2 DEF TurnStep, KeptLog, HeadMoved, SourceHead
  <2>3. t = current /\ t # NoTask BY <1>3, <1>6, SlotAssumption DEF Renewed
  <2>4. Continues(task[t], task'[t]) BY <1>1, <1>6 DEF TurnStep, KeptTasks, Renewed
  <2>5. task'[t].st # "free" BY <1>1, <1>3, <2>3 DEF SlotInv, SlotOccupied
  <2>6. /\ task'[t].for = task[t].for /\ task'[t].hint = task[t].hint
        /\ task'[t].read = task[t].read \/ task'[t].read >= Len(log)
    BY <2>4, <2>5 DEF Continues
  <2>7. CASE InputsKnown(t)
    <3>1. task'[t].hint \in Nat /\ task'[t].read \in Nat BY <1>1 DEF TypeInv, TypeOK, Task
    <3>2. KeepsKnown(t) BY <2>6, <3>1 DEF KeepsKnown
    <3>3. NoNewInput BY <2>2 DEF NoNewInput
    <3> QED BY <1>1, <1>4, <2>7, <3>2, <3>3, KnownStays
  <2>8. CASE ~InputsKnown(t)
    <3>1. task[t].for = NoId BY <1>3, <2>6
    <3>2. \E n \in Seqs({"input"}, 0, SourceHead) : n > lane.through
      BY <1>2, <1>6, <2>2, <2>3, <2>8, <3>1 DEF PauseKnows, InputsKnown, Known
    <3> QED BY <1>6, <2>2, <3>2 DEF Seqs, SourceHead
  <2> QED BY <2>7, <2>8
<1>7. CASE lane' # lane
  <2>1. PauseDecide BY <1>1, <1>7 DEF TurnStep, KeptLane
  <2>2. UNCHANGED <<log, task, current>> /\ lane'.head = lane.head /\ lane'.through = PauseThrough
    BY <2>1, LaneShaped DEF PauseDecide, Lane
  <2>3. ~HeadMoved BY <2>2 DEF HeadMoved, SourceHead
  <2>4. t = current /\ task[t].for = NoId BY <1>3, <2>2
  <2>5. InputsKnown(t) \/ \E n \in Seqs({"input"}, 0, SourceHead) : n > PauseThrough
    BY <1>2, <2>1, <2>3, <2>4, PauseDecided
  <2>6. InputsKnown(t) => InputsKnown(t)' BY <2>2 DEF InputsKnown, Known, Seqs, SourceHead
  <2> QED BY <1>4, <2>2, <2>5, <2>6 DEF Seqs, SourceHead
<1> QED BY <1>6, <1>7

\* A stop leaves waiting what comes after the prefix it covers.
LEMMA PauseLeavesWaiting ==
  ASSUME TypeInv, TypeInv', ShapeInv, Waits, PauseCommit,
         NEW n \in Seqs({"input"}, 0, SourceHead), n > lane.through
  PROVE  Waits'
<1>1. LogInv /\ Len(log) \in Nat /\ Len(log) \in 0..Len(log) BY LogShaped
<1>2. PICK k \in Nat : k = Len(log) BY <1>1
<1> DEFINE m == Msg("pause", lane.id, lane.through)
<1>3. log' = Append(log, m) /\ m.type = "pause" /\ m.through = lane.through
  BY DEF PauseCommit, Write, Msg
<1> HIDE DEF m
<1>4. Len(log') = Len(log) + 1 /\ log'[Len(log) + 1] = m BY <1>3, AppendedTyped
<1>5. PICK f : f = FoldedState(k) OBVIOUS
<1>6. /\ f \in State
      /\ \A i \in 1..Len(log) : log[i].type = "input" => i <= f.latest
  BY <1>1, <1>2, <1>5, FoldShaped DEF FoldShape
<1>7. f.latest \in Nat /\ f.boundary \in Nat /\ f.paused \in Nat BY <1>6 DEF State
<1>8. lane.through \in Nat /\ lane.through < f.latest
  <2>1. n \in 1..Len(log) /\ log[n].type = "input" BY DEF Seqs
  <2> QED BY <1>6, <1>7, <2>1, LaneShaped
<1>9. FoldedState(SourceHead)' = [f EXCEPT !.paused = Larger(f.paused, lane.through)]
  <2>1. /\ FoldedState(SourceHead)' = AddMessage(FoldedState(k), k + 1)'
        /\ FoldedState(k)' = FoldedState(k)
    BY <1>2, <1>3, FoldAppended
  <2>2. log'[k + 1].type = "pause" /\ log'[k + 1].through = lane.through
    BY <1>2, <1>3, <1>4
  <2>3. AddMessage(FoldedState(k), k + 1)'
          = [FoldedState(k)' EXCEPT !.paused = Larger(FoldedState(k)'.paused, lane.through)]
    BY <2>2 DEF AddMessage, AddControl, Larger
  <2> QED BY <1>5, <2>1, <2>3
<1>10. f.latest > f.boundary /\ f.latest > f.paused
  BY <1>2, <1>5, <1>7 DEF Waits, SourceHead, IsPending, Larger
<1> QED BY <1>6, <1>7, <1>8, <1>9, <1>10 DEF Waits, IsPending, Larger, State

\* /stop ends the turn that runs and leaves an input that queued behind it
\* pending, whatever was written, read or revoked between its decision and its
\* write (session.pause).  It is about turns that began with an input, without
\* re-sent steers.
THEOREM PauseKeepsQueuedAlways == Spec => PauseKeepsQueuedInput
<1>1. ASSUME TypeInv, SlotInv, ShapeInv, TurnInv, PauseCovered, [Next]_vars,
             spent["resend"] = 0, PauseCommit, current # NoTask, task[current].for = NoId,
             LatestInput(SourceHead) > Known(current), Pending(SourceHead)
      PROVE  Pending(SourceHead)'
  <2>1. TypeInv' /\ SlotInv' /\ TurnStep BY <1>1, EveryStepTurns
  <2>2. ShapeInv' BY <1>1, <2>1, ShapeStep
  <2>3. Waits BY <1>1, PendingWaits
  <2>4. PICK t \in TaskIds : t = current BY <1>1 DEF TypeInv, TypeOK
  <2>5. ~InputsKnown(t)
    <3> SUFFICES ASSUME InputsKnown(t) PROVE FALSE OBVIOUS
    <3>1. Known(t) \in Nat BY <1>1 DEF TypeInv, TypeOK, Task, Known, Larger
    <3>2. Seqs({"input"}, 0, SourceHead) \in SUBSET Nat BY DEF Seqs
    <3>3. Latest(Seqs({"input"}, 0, SourceHead)) <= Known(t)
      BY <3>1, <3>2, LatestBounded DEF InputsKnown
    <3>4. Latest(Seqs({"input"}, 0, SourceHead)) \in Nat
      <4>1. Len(log) \in Nat BY <1>1 DEF TypeInv, TypeOK
      <4>2. Seqs({"input"}, 0, SourceHead) \in SUBSET (1..Len(log)) BY DEF Seqs
      <4> QED BY <4>1, <4>2, LatestOf
    <3> QED BY <1>1, <2>4, <3>1, <3>3, <3>4 DEF LatestInput
  <2>6. PICK n \in Seqs({"input"}, 0, SourceHead) : n > lane.through
    BY <1>1, <2>4, <2>5 DEF PauseCovered, PauseKnows, PauseCommit
  <2>7. Waits' BY <1>1, <2>1, <2>3, <2>6, PauseLeavesWaiting
  <2>8. (TypeInv /\ ShapeInv => (Pending(SourceHead) <=> Waits))' BY PendingWaits, PTL
  <2> QED BY <2>1, <2>2, <2>7, <2>8
<1>2. TurnSafe /\ PauseCovered /\ [Next]_vars
        => [spent["resend"] = 0 /\ PauseCommit
            /\ current # NoTask /\ task[current].for = NoId /\ ~task[current].active
            /\ LatestInput(SourceHead) > Known(current) /\ Pending(SourceHead)
              => Pending(SourceHead)']_vars
  BY <1>1 DEF TurnSafe
<1>3. Init => PauseCovered BY DEF Init, FreeLane, PauseCovered, PauseKnows
<1>4. TurnSafe /\ Covered /\ PauseCovered /\ [Next]_vars => PauseCovered'
  BY PauseStep DEF TurnSafe
<1>5. Init => Covered
  BY DEF Init, FreeTask, FreeLane, Covered, CoverInv, HolderKnows, SteererWaits, SteerIsLatest,
         FailerKnows
<1>6. TurnSafe /\ Covered /\ [Next]_vars => Covered' BY CoverStep DEF TurnSafe
<1> QED BY <1>2, <1>3, <1>4, <1>5, <1>6, TurnAlways, PTL DEF Spec, PauseKeepsQueuedInput

-----------------------------------------------------------------------------
(* The source keeps its promise.                                           *)

\* A retry or an abandon is about the whole log it was decided on, and as long
\* as that log stands a retry finds its turn stopped.
ControlStands ==
  lane.op \in {"abandon", "resume"} /\ lane.at # "notify" =>
    /\ lane.through = lane.head
    /\ lane.op = "resume" /\ ~HeadMoved => Resumable(SourceHead)

\* What is written as a retry or an abandon.
Written(m) ==
  /\ log' = Append(log, m)
  /\ m.type \in {"abandon", "resume"} => m.through = Len(log)
  /\ m.type = "resume" => Resumable(SourceHead)

\* While the log stays, so does whether a retry may be written.
LEMMA ResumableStays == ASSUME UNCHANGED log PROVE Resumable(SourceHead)' <=> Resumable(SourceHead)
BY DEF Resumable, Abandonable, LatestInput, Latest, Seqs, SourceHead

\* Retries and abandons are written by their command, or by a task that is out
\* of steps.
LEMMA ControlsWritten ==
  ASSUME TypeInv, ControlStands, [Next]_vars
  PROVE  UNCHANGED log \/ \E m : Written(m)
<1> USE DEF Written, Write, Msg, OutputTypes
<1>1. CASE UserStep
  BY <1>1 DEF UserStep, AcceptBegin, PauseBegin, AbandonBegin, ResumeBegin, CompleteBegin
<1>2. CASE LaneStep
  <2>1. CASE AcceptCommit BY <2>1 DEF AcceptCommit
  <2>2. CASE PauseCommit BY <2>2 DEF PauseCommit
  <2>3. CASE ControlCommit BY <2>3 DEF ControlCommit, ControlStands, HeadMoved, SourceHead
  <2>4. CASE SteerCommit BY <2>4 DEF SteerCommit
  <2>5. CASE FailCommit BY <2>5 DEF FailCommit
  <2>6. CASE ReportCommit BY <2>6 DEF ReportCommit
  <2> QED
    BY <1>2, <2>1, <2>2, <2>3, <2>4, <2>5, <2>6
       DEF LaneStep, PauseDecide, PauseRetry, ControlDecide, Committed, SteerDecide,
           AdmissionDrop, SteerNotify, FailDecide, ReportConflict, StartRetry, StartResidual,
           StartNothing, StartFull, CompleteRetry, CompleteFull, StartTask, CompleteStart
<1>3. CASE DriveStep
  BY <1>3 DEF DriveStep, DriveBegin, StartActive, StartYield, StartBegin, DriveDetach, ReportBegin
<1>4. ASSUME NEW t \in TaskIds, TaskStep(t) PROVE UNCHANGED log \/ \E m : Written(m)
  <2>1. ASSUME NEW n \in 1..SourceHead, SettleCall(t, n) PROVE \E m : Written(m)
    BY <2>1 DEF SettleCall
  <2>2. ASSUME NEW finish \in OutputTypes, Commit(t, finish) PROVE \E m : Written(m)
    BY <2>2 DEF Commit
  <2>3. CASE ToolFinish(t) BY <2>3 DEF ToolFinish
  <2>4. CASE CloseCommit(t) BY <2>4 DEF CloseCommit, SourceHead
  <2> QED
    BY <1>4, <2>1, <2>2, <2>3, <2>4
       DEF TaskStep, Read, Prepare, CommitRefused, Deliver, CloseCheck, CloseHead, FailBegin, TaskEnd
<1>5. CASE Disturb
  BY <1>5 DEF Disturb, SteerBegin, ProgramFail, OwnerCancel, Crash, GateClose, GateOpen
<1>6. CASE UNCHANGED vars BY <1>6 DEF vars
<1> QED BY <1>1, <1>2, <1>3, <1>4, <1>5, <1>6 DEF Next

\* Whose admission a step leaves alone, and who decides on a retry or an abandon.
LEMMA WhoControls ==
  ASSUME TypeInv, [Next]_vars
  PROVE  \/ UNCHANGED lane
         \/ lane'.op \in {"abandon", "resume"} => lane'.at = "notify"
         \/ \E i \in Abandons : AbandonBegin(i)
         \/ \E i \in Retries : ResumeBegin(i)
         \/ ControlDecide /\ lane' = [lane EXCEPT !.at = "commit"]
<1> DEFINE Other == lane'.op \in {"abandon", "resume"} => lane'.at = "notify"
<1> USE DEF Hold, Release, FreeLane
<1>1. lane \in Lane BY DEF TypeInv, TypeOK
<1>2. ASSUME NEW at, lane' = [lane EXCEPT !.at = at] PROVE lane'.op = lane.op /\ lane'.at = at
  BY <1>1, <1>2 DEF Lane
<1>3. ASSUME UserStep, ~\E i \in Abandons : AbandonBegin(i), ~\E i \in Retries : ResumeBegin(i)
      PROVE  Other
  BY <1>3 DEF UserStep, AcceptBegin, PauseBegin, CompleteBegin
<1>4. ASSUME LaneStep, ~ControlDecide PROVE UNCHANGED lane \/ Other
  <2>1. CASE AcceptCommit \/ PauseCommit \/ ControlCommit
    BY <1>2, <2>1 DEF AcceptCommit, PauseCommit, ControlCommit
  <2>2. CASE PauseDecide
    <3>1. lane'.op = "pause" BY <1>1, <2>2 DEF PauseDecide, At, Lane
    <3> QED BY <3>1
  <2>3. CASE SteerDecide \/ SteerCommit \/ FailDecide
    <3>1. lane.op \in {"steer", "fail"} BY <2>3 DEF SteerDecide, SteerCommit, FailDecide, At
    <3> QED BY <1>2, <2>3, <3>1 DEF SteerDecide, SteerCommit, FailDecide
  <2>4. ASSUME NEW t \in TaskIds, StartTask(t) \/ CompleteStart(t) PROVE Other
    BY <2>4 DEF StartTask, CompleteStart
  <2> QED
    BY <1>4, <2>1, <2>2, <2>3, <2>4
       DEF LaneStep, PauseRetry, Committed, AdmissionDrop, SteerNotify, FailCommit, ReportCommit,
           ReportConflict, StartRetry, StartResidual, StartNothing, StartFull, CompleteRetry,
           CompleteFull
<1>5. ASSUME DriveStep PROVE UNCHANGED lane \/ Other
  BY <1>5 DEF DriveStep, DriveBegin, StartActive, StartYield, StartBegin, DriveDetach, ReportBegin
<1>6. ASSUME NEW t \in TaskIds, TaskStep(t) PROVE UNCHANGED lane \/ Other
  BY <1>6 DEF TaskStep, SettleCall, Read, Prepare, Commit, CommitRefused, Deliver, ToolFinish,
              CloseCheck, CloseHead, CloseCommit, FailBegin, TaskEnd
<1>7. ASSUME Disturb PROVE UNCHANGED lane \/ Other
  BY <1>7 DEF Disturb, SteerBegin, ProgramFail, OwnerCancel, Crash, GateClose, GateOpen
<1>8. ASSUME ControlDecide PROVE lane' = [lane EXCEPT !.at = "commit"] \/ Other
  BY <1>8 DEF ControlDecide
<1> QED BY <1>3, <1>4, <1>5, <1>6, <1>7, <1>8 DEF Next, vars

LEMMA ControlStep ==
  ASSUME TypeInv, TypeInv', ShapeInv, KeptLog, ControlStands, [Next]_vars
  PROVE  ControlStands'
<1>1. CASE UNCHANGED lane
  <2>1. CASE UNCHANGED log
    BY <1>1, <2>1, ResumableStays DEF ControlStands, HeadMoved, SourceHead
  <2>2. CASE ~UNCHANGED log
    <3>1. Len(log') > lane.head /\ lane.head \in Nat
      BY <2>2, AppendedTyped, LaneShaped DEF KeptLog
    <3>2. HeadMoved' BY <1>1, <3>1 DEF HeadMoved, SourceHead
    <3> QED BY <1>1, <3>2 DEF ControlStands
  <2> QED BY <2>1, <2>2
<1>2. CASE lane'.op \in {"abandon", "resume"} => lane'.at = "notify"
  BY <1>2 DEF ControlStands
<1>3. ASSUME NEW i, AbandonBegin(i) PROVE ControlStands'
  BY <1>3 DEF AbandonBegin, Hold, ControlStands
<1>4. ASSUME NEW i, ResumeBegin(i) PROVE ControlStands'
  <2>1. UNCHANGED log /\ Resumable(SourceHead) BY <1>4 DEF ResumeBegin
  <2>2. Resumable(SourceHead)' BY <2>1, ResumableStays
  <2> QED BY <1>4, <2>2 DEF ResumeBegin, Hold, ControlStands
<1>5. CASE ControlDecide /\ lane' = [lane EXCEPT !.at = "commit"]
  <2>1. UNCHANGED log /\ lane.at # "notify" BY <1>5 DEF ControlDecide
  <2>2. /\ lane'.op = lane.op /\ lane'.head = lane.head /\ lane'.through = lane.through
    BY <1>5, LaneShaped DEF Lane
  <2> QED BY <2>1, <2>2, ResumableStays DEF ControlStands, HeadMoved, SourceHead
<1> QED BY <1>1, <1>2, <1>3, <1>4, <1>5, WhoControls

\* The state folded from the log, and what it says of the person's messages.
InputsNow == Seqs({"input"}, 0, SourceHead)

\* A failure or a stop holds until it is taken back.
LEMMA PausedStays ==
  ASSUME LogInv, NEW p \in 1..Len(log), log[p].type \in {"pause", "failure"},
         \A n \in 1..Len(log) : n > p => log[n].type \notin ControlTypes
  PROVE  FoldedState(Len(log)).paused >= log[p].through
<1> DEFINE S == {k \in Nat : k <= Len(log) => FoldedState(k).paused >= log[p].through}
<1>1. /\ log \in Seq(Message) /\ Len(log) \in Nat /\ p \in Nat /\ p - 1 \in 0..Len(log)
      /\ log[p].through \in Nat
  <2>1. log \in Seq(Message) /\ Len(log) \in Nat BY DEF LogInv
  <2>2. log[p] \in Message BY <2>1
  <2> QED BY <2>1, <2>2 DEF Message
<1>2. p \in S
  <2>1. PICK s \in State : s = FoldedState(p - 1) BY <1>1, FoldShaped DEF FoldShape
  <2>2. FoldedState(p) = AddMessage(s, p)
    <3>1. p - 1 \in Nat /\ (p - 1) + 1 = p BY <1>1
    <3> QED BY <2>1, <3>1, FoldStep DEF FoldEquation
  <2>3. FoldedState(p).paused = Larger(s.paused, log[p].through) BY <1>1, <2>2, AddedMessage
  <2>4. s.paused \in Nat BY DEF State
  <2> QED BY <1>1, <2>3, <2>4 DEF Larger
<1>3. ASSUME NEW k \in Nat, k >= p, k \in S PROVE k + 1 \in S
  <2> SUFFICES ASSUME k + 1 <= Len(log) PROVE FoldedState(k + 1).paused >= log[p].through OBVIOUS
  <2>1. PICK s \in State : s = FoldedState(k) BY <1>1, FoldShaped DEF FoldShape
  <2>2. PICK n \in 1..Len(log) : n = k + 1 BY <1>1
  <2>3. FoldedState(k + 1) = AddMessage(s, n) BY <2>1, <2>2, FoldStep DEF FoldEquation
  <2>4. log[n].type \notin {"pause", "failure", "resume"} BY <1>3, <2>2 DEF ControlTypes
  <2>5. FoldedState(k + 1).paused = s.paused BY <1>1, <2>3, <2>4, AddedMessage
  <2>6. s.paused >= log[p].through BY <1>3, <2>1
  <2> QED BY <2>5, <2>6
<1> HIDE DEF S
<1>4. \A k \in Nat : k >= p => k \in S BY <1>1, <1>2, <1>3, AllNumbers
<1>5. Len(log) \in S BY <1>1, <1>4
<1> QED BY <1>1, <1>5 DEF S

\* Where a retry is allowed the latest input is stopped and was not closed.
LEMMA ResumableIsStopped ==
  ASSUME LogInv, Resumable(SourceHead)
  PROVE  LET s == FoldedState(SourceHead)
         IN s.latest \in InputsNow /\ s.boundary < s.latest /\ s.latest <= s.paused
<1>1. PICK k \in Nat : k = Len(log) BY DEF LogInv
<1>2. PICK s \in State : s = FoldedState(k) /\ FoldShape(k) BY <1>1, FoldShaped DEF FoldShape
<1>3. s.latest \in Nat /\ s.boundary \in Nat /\ s.paused \in Nat BY DEF State
<1>4. PICK l : l = LatestInput(k) BY <1>1
<1>5. l \in 1..k /\ log[l].type = "input" /\ \A n \in 1..k : log[n].type = "input" => n <= l
  <2>1. Seqs({"input"}, 0, k) \in SUBSET (1..k) BY <1>1 DEF Seqs
  <2>2. l > 0 BY <1>1, <1>4 DEF Resumable, Abandonable, SourceHead
  <2>3. l \in Seqs({"input"}, 0, k) BY <1>4, <2>1, <2>2, LatestOf DEF LatestInput
  <2>4. \A n \in Seqs({"input"}, 0, k) : n <= l BY <1>4, <2>1, LatestOf DEF LatestInput
  <2> QED BY <1>1, <2>3, <2>4 DEF Seqs
<1>6. s.latest = l
  <2>1. l <= s.latest BY <1>2, <1>5 DEF FoldShape
  <2>2. s.latest \in 1..k /\ log[s.latest].type = "input" BY <1>2, <1>3, <1>5, <2>1 DEF FoldShape
  <2> QED BY <1>3, <1>5, <2>1, <2>2
<1>7. s.boundary < l
  <2>1. /\ \A n \in 1..k : log[n].type = "complete" => n <= l
        /\ \A n \in 1..k : log[n].type = "abandon" /\ n > l => log[n].through < l
    BY <1>1, <1>4, <1>5 DEF Resumable, Abandonable, SourceHead, Seqs
  <2>2. CASE s.boundary = 0 BY <1>5, <2>2
  <2>3. ASSUME NEW n \in 1..k, log[n].type = "complete", s.boundary = n PROVE s.boundary < l
    <3>1. n <= l /\ n # l BY <1>5, <2>1, <2>3
    <3> QED BY <1>5, <2>3, <3>1
  <2>4. ASSUME NEW n \in 1..k, log[n].type = "abandon", s.boundary = log[n].through
        PROVE  s.boundary < l
    <3>1. log[n].through < n BY <1>1, <2>4 DEF LogInv, LooksBack, ControlTypes
    <3>2. n # l BY <1>5, <2>4
    <3>3. CASE n > l BY <2>1, <2>4, <3>3
    <3> QED BY <1>3, <1>5, <2>4, <3>1, <3>2, <3>3
  <2> QED BY <1>2, <2>2, <2>3, <2>4 DEF FoldShape
<1>8. l <= s.paused
  <2>1. Seqs(ControlTypes, 0, k) \in SUBSET (1..k) BY <1>1 DEF Seqs
  <2>2. PICK p : p = Latest(Seqs(ControlTypes, 0, k)) BY <1>1
  <2>3. p > 0 /\ log[p].type \in {"failure", "pause"} /\ log[p].through >= l
    BY <1>1, <1>4, <2>2 DEF Resumable, SourceHead
  <2>4. p \in Seqs(ControlTypes, 0, k) /\ \A n \in Seqs(ControlTypes, 0, k) : n <= p
    BY <2>1, <2>2, <2>3, LatestOf
  <2>5. p \in 1..k /\ \A n \in 1..k : n > p => log[n].type \notin ControlTypes
    BY <1>1, <2>4 DEF Seqs
  <2>6. s.paused >= log[p].through BY <1>1, <1>2, <2>3, <2>5, PausedStays
  <2>7. log[p].through \in Nat
    <3>1. log[p] \in Message BY <1>1, <2>5 DEF LogInv
    <3> QED BY <3>1 DEF Message
  <2> QED BY <1>3, <1>5, <2>3, <2>6, <2>7
<1>9. l \in InputsNow BY <1>1, <1>5 DEF InputsNow, Seqs, SourceHead
<1> QED BY <1>1, <1>2, <1>6, <1>7, <1>8, <1>9 DEF SourceHead

OutputsNow == Seqs(OutputTypes, 0, SourceHead)

\* What became of the input n in a folded state.
Became(s, n) ==
  IF n <= s.boundary THEN "closed" ELSE IF n <= s.paused THEN "stopped" ELSE "open"

\* What one more message does to the folded state and to the numbers of inputs
\* and outputs.
LEMMA FoldGrows ==
  ASSUME TypeInv, TypeInv', ShapeInv, NEW m, log' = Append(log, m),
         NEW k \in Nat, k = Len(log), NEW s \in State, s = FoldedState(k)
  PROVE  /\ FoldedState(SourceHead)'.latest \in Nat
         /\ FoldedState(SourceHead)'.boundary =
              IF m.type = "complete" THEN k + 1
              ELSE IF m.type = "abandon" THEN Larger(s.boundary, m.through) ELSE s.boundary
         /\ FoldedState(SourceHead)'.paused =
              IF m.type \in {"pause", "failure"} THEN Larger(s.paused, m.through)
              ELSE IF m.type = "resume" /\ m.through >= s.paused THEN 0 ELSE s.paused
         /\ InputsNow' = InputsNow \union (IF m.type = "input" THEN {k + 1} ELSE {})
         /\ OutputsNow' = OutputsNow \union (IF m.type \in OutputTypes THEN {k + 1} ELSE {})
<1>1. /\ m \in Message /\ Len(log') = k + 1 /\ log'[k + 1] = m
      /\ \A n \in 1..k : log'[n] = log[n]
  BY AppendedTyped
<1>2. /\ FoldedState(SourceHead)' = AddMessage(FoldedState(k), k + 1)'
      /\ FoldedState(k)' = s
  BY FoldAppended
<1>3. m.through \in Nat BY <1>1 DEF Message
<1>4. s.latest \in Nat /\ s.boundary \in Nat /\ s.paused \in Nat BY DEF State
<1>5. PICK r : r = FoldedState(SourceHead)' OBVIOUS
<1>6. r = CASE m.type = "input" -> [s EXCEPT !.latest = k + 1]
            [] m.type = "complete" -> [s EXCEPT !.boundary = k + 1]
            [] OTHER -> AddControl(s, m)
  BY <1>1, <1>2, <1>5 DEF AddMessage, AddControl
<1>7. /\ r.latest \in Nat
      /\ r.boundary = IF m.type = "complete" THEN k + 1
                      ELSE IF m.type = "abandon" THEN Larger(s.boundary, m.through) ELSE s.boundary
      /\ r.paused = IF m.type \in {"pause", "failure"} THEN Larger(s.paused, m.through)
                    ELSE IF m.type = "resume" /\ m.through >= s.paused THEN 0 ELSE s.paused
  <2>1. CASE m.type = "input"
    <3>1. r = [s EXCEPT !.latest = k + 1] BY <1>6, <2>1
    <3> QED BY <1>4, <2>1, <3>1 DEF State
  <2>2. CASE m.type = "complete"
    <3>1. r = [s EXCEPT !.boundary = k + 1] BY <1>6, <2>2
    <3> QED BY <1>4, <2>2, <3>1 DEF State
  <2>3. CASE m.type \notin {"input", "complete"}
    <3>1. r = AddControl(s, m) BY <1>6, <2>3
    <3> QED BY <1>1, <1>4, <2>3, <3>1, AddedControl
  <2> QED BY <2>1, <2>2, <2>3
<1>8. \A n : n \in 1..(k + 1) <=> n \in 1..k \/ n = k + 1 OBVIOUS
<1>9. InputsNow' = InputsNow \union (IF m.type = "input" THEN {k + 1} ELSE {})
  BY <1>1, <1>8 DEF InputsNow, Seqs, SourceHead
<1>10. OutputsNow' = OutputsNow \union (IF m.type \in OutputTypes THEN {k + 1} ELSE {})
  BY <1>1, <1>8 DEF OutputsNow, Seqs, SourceHead
<1> QED BY <1>5, <1>7, <1>9, <1>10

\* Every write is a step of the promise.
LEMMA PromiseStep ==
  ASSUME TypeInv, TypeInv', ShapeInv, KeptLog, UNCHANGED log \/ \E m : Written(m)
  PROVE  Promise!PromiseNext \/ UNCHANGED Promise!pvars
<1> USE DEF Promise!pvars
<1>1. CASE UNCHANGED log
  <2>1. FoldedState(Len(log))' = FoldedState(Len(log))
    <3>1. Len(log) \in Nat BY DEF TypeInv, TypeOK
    <3> QED BY <1>1, <3>1, FoldStays
  <2> QED BY <1>1, <2>1 DEF Fate, Seqs, SourceHead
<1>2. ASSUME NEW m, Written(m), m.type \in OutputTypes => Waits
      PROVE  Promise!PromiseNext \/ UNCHANGED Promise!pvars
  <2>1. PICK k \in Nat : k = Len(log) BY DEF TypeInv, TypeOK
  <2>2. LogInv BY LogShaped
  <2>3. PICK s \in State : s = FoldedState(k) /\ FoldShape(k) BY <2>1, <2>2, FoldShaped DEF FoldShape
  <2>4. /\ s.latest \in Nat /\ s.boundary \in Nat /\ s.paused \in Nat
        /\ s.boundary <= k /\ s.paused <= k
    BY <2>3 DEF State, FoldShape
  <2>5. PICK I : I = InputsNow OBVIOUS
  <2>6. PICK O : O = OutputsNow OBVIOUS
  <2>7. I \in SUBSET (1..k) /\ O \in SUBSET (1..k)
    BY <2>1, <2>5, <2>6 DEF InputsNow, OutputsNow, Seqs
  <2>8. /\ s.latest # 0 => s.latest \in I
        /\ \A n \in I : n <= s.latest
    BY <2>1, <2>3, <2>4, <2>5 DEF FoldShape, InputsNow, Seqs, SourceHead
  <2>9. PICK r : r = FoldedState(SourceHead)' OBVIOUS
  <2>10. log' = Append(log, m) /\ m \in Message /\ m.type \in MessageTypes /\ m.through \in Nat
    BY <1>2, AppendedTyped DEF Written, Message
  <2>11. /\ r.boundary = IF m.type = "complete" THEN k + 1
                         ELSE IF m.type = "abandon" THEN Larger(s.boundary, m.through)
                         ELSE s.boundary
         /\ r.paused = IF m.type \in {"pause", "failure"} THEN Larger(s.paused, m.through)
                       ELSE IF m.type = "resume" /\ m.through >= s.paused THEN 0 ELSE s.paused
         /\ InputsNow' = I \union (IF m.type = "input" THEN {k + 1} ELSE {})
         /\ OutputsNow' = O \union (IF m.type \in OutputTypes THEN {k + 1} ELSE {})
    BY <2>1, <2>3, <2>5, <2>6, <2>9, <2>10, FoldGrows
  <2>12. Fate = [n \in I |-> Became(s, n)]
    BY <2>1, <2>3, <2>5 DEF Fate, Became, InputsNow, SourceHead
  <2>13. Fate' = [n \in InputsNow' |-> Became(r, n)]
    BY <2>9 DEF Fate, Became, InputsNow
  <2>14. /\ Promise!Asked = I /\ DOMAIN Fate' = InputsNow'
         /\ Seqs(OutputTypes, 0, SourceHead) = O /\ Seqs(OutputTypes, 0, SourceHead)' = OutputsNow'
    BY <2>6, <2>12, <2>13 DEF Promise!Asked, OutputsNow
  <2>15. Promise!Last(k + 1) /\ k + 1 \notin I \union O
    BY <2>7, <2>14 DEF Promise!Last
  <2>16. Waits => Promise!Some("open")
    <3> SUFFICES ASSUME Waits PROVE \E n \in I : Became(s, n) = "open"
      BY <2>12, <2>14 DEF Promise!Some
    <3>1. s.latest > Larger(s.boundary, s.paused) BY <2>1, <2>3 DEF Waits, IsPending, SourceHead
    <3>2. s.latest # 0 /\ s.latest > s.boundary /\ s.latest > s.paused
      BY <2>4, <3>1 DEF Larger
    <3>3. Became(s, s.latest) = "open" BY <2>4, <3>2 DEF Became
    <3> QED BY <2>8, <3>2, <3>3
  <2>17. CASE m.type = "input"
    <3>1. r.boundary = s.boundary /\ r.paused = s.paused /\ InputsNow' = I \union {k + 1} /\ OutputsNow' = O
      BY <2>11, <2>17 DEF OutputTypes
    <3>2. Became(r, k + 1) = "open" BY <2>4, <3>1 DEF Became
    <3>3. \A n \in I : Became(r, n) = Fate[n] BY <2>12, <3>1 DEF Became
    <3>4. Fate' = [n \in I \union {k + 1} |-> IF n = k + 1 THEN "open" ELSE Fate[n]]
      BY <2>13, <2>15, <3>1, <3>2, <3>3
    <3>5. Promise!PAsk(k + 1) BY <2>14, <2>15, <3>1, <3>4 DEF Promise!PAsk
    <3>6. k + 1 \in DOMAIN Fate' \ Promise!Asked BY <2>14, <2>15, <3>1
    <3> QED BY <3>5, <3>6 DEF Promise!PromiseNext
  <2>18. CASE m.type \in OutputTypes
    <3>1. InputsNow' = I /\ OutputsNow' = O \union {k + 1} /\ r.paused = s.paused
      BY <2>11, <2>18 DEF OutputTypes
    <3>2. UNCHANGED Fate \/ Promise!AllClosed
      <4>1. CASE m.type = "continue"
        <5>1. r.boundary = s.boundary BY <2>11, <4>1
        <5>2. \A n \in I : Became(r, n) = Became(s, n) BY <3>1, <5>1 DEF Became
        <5> QED BY <2>12, <2>13, <3>1, <5>2
      <4>2. CASE m.type = "complete"
        <5>1. r.boundary = k + 1 BY <2>11, <4>2
        <5>2. \A n \in I : Became(r, n) = "closed" BY <2>7, <5>1 DEF Became
        <5> QED BY <2>13, <2>14, <3>1, <5>2 DEF Promise!AllClosed
      <4> QED BY <2>18, <4>1, <4>2 DEF OutputTypes
    <3>3. Promise!PSay(k + 1) BY <1>2, <2>14, <2>15, <2>16, <2>18, <3>1, <3>2 DEF Promise!PSay
    <3>4. k + 1 \in OutputsNow' \ O BY <2>15, <3>1
    <3> QED BY <2>14, <3>3, <3>4 DEF Promise!PromiseNext
  <2>19. CASE m.type \notin {"input"} \union OutputTypes
    <3>1. InputsNow' = I /\ OutputsNow' = O BY <2>11, <2>19
    <3>2. CASE m.type = "abandon"
      <4>1. r.boundary = Larger(s.boundary, k) BY <1>2, <2>1, <2>11, <3>2 DEF Written
      <4>2. r.boundary = k BY <2>4, <4>1 DEF Larger
      <4>3. \A n \in I : Became(r, n) = "closed" BY <2>7, <4>2 DEF Became
      <4>4. Promise!PAbandon
        BY <2>13, <2>14, <3>1, <4>3 DEF Promise!PAbandon, Promise!AllClosed
      <4> QED BY <4>4 DEF Promise!PromiseNext
    <3>3. CASE m.type \in {"pause", "failure"}
      <4>1. r.boundary = s.boundary /\ r.paused = Larger(s.paused, m.through)
        BY <2>11, <3>3 DEF OutputTypes
      <4> DEFINE S == {n \in I : n <= m.through}
      <4>2. PICK l : l = Latest(S) OBVIOUS
      <4>3. S \in SUBSET (1..k) BY <2>7
      <4>4. \A n \in I : n <= m.through <=> n <= l /\ l # 0
        <5>1. \A n \in S : n <= l BY <4>2, <4>3, LatestOf
        <5>2. l = 0 \/ l \in S BY <4>2, <4>3, LatestOf
        <5>3. \A n \in I : n \in Nat /\ n # 0 BY <2>7
        <5> QED BY <2>10, <5>1, <5>2, <5>3
      <4>5. \A n \in I : Became(r, n) = IF n <= l /\ l # 0 /\ Fate[n] = "open" THEN "stopped"
                                        ELSE Fate[n]
        <5> SUFFICES ASSUME NEW n \in I
                     PROVE  Became(r, n) = IF n <= l /\ l # 0 /\ Fate[n] = "open" THEN "stopped"
                                           ELSE Fate[n]
          OBVIOUS
        <5>1. Fate[n] = Became(s, n) /\ n \in Nat BY <2>7, <2>12
        <5> QED BY <2>4, <2>10, <4>1, <4>4, <5>1 DEF Became, Larger
      <4>6. CASE l = 0
        <5>1. Fate' = Fate BY <2>12, <2>13, <3>1, <4>5, <4>6
        <5> QED BY <2>14, <3>1, <5>1
      <4>7. CASE l # 0
        <5>1. l \in I BY <4>2, <4>3, <4>7, LatestOf
        <5>2. Promise!PStop(l) BY <2>13, <2>14, <3>1, <4>5, <4>7 DEF Promise!PStop
        <5> QED BY <2>14, <5>1, <5>2 DEF Promise!PromiseNext
      <4> QED BY <4>6, <4>7
    <3>4. CASE m.type = "resume"
      <4>1. m.through = k /\ Resumable(SourceHead) BY <1>2, <2>1, <3>4 DEF Written
      <4>2. r.boundary = s.boundary /\ r.paused = 0 BY <2>4, <2>11, <3>4, <4>1
      <4>3. s.latest \in I /\ s.boundary < s.latest /\ s.latest <= s.paused
        BY <2>1, <2>2, <2>3, <2>5, <4>1, ResumableIsStopped DEF SourceHead
      <4>4. Became(s, s.latest) = "stopped" BY <2>4, <4>3 DEF Became
      <4>5. \A n \in I : Became(s, n) # "open"
        BY <2>4, <2>7, <2>8, <4>3 DEF Became
      <4>6. Promise!Some("stopped") /\ ~Promise!Some("open")
        BY <2>12, <2>14, <4>3, <4>4, <4>5 DEF Promise!Some
      <4>7. \A n \in I : Became(r, n) = IF Fate[n] = "stopped" THEN "open" ELSE Fate[n]
        <5> SUFFICES ASSUME NEW n \in I
                     PROVE  Became(r, n) = IF Fate[n] = "stopped" THEN "open" ELSE Fate[n]
          OBVIOUS
        <5>1. Fate[n] = Became(s, n) /\ n \in Nat /\ n # 0 BY <2>7, <2>12
        <5> QED BY <2>4, <4>2, <4>5, <5>1 DEF Became
      <4>8. Promise!PRetry BY <2>13, <2>14, <3>1, <4>6, <4>7 DEF Promise!PRetry
      <4> QED BY <4>8 DEF Promise!PromiseNext
    <3>5. CASE m.type = "result"
      <4>1. r.boundary = s.boundary /\ r.paused = s.paused BY <2>11, <3>5
      <4>2. \A n \in I : Became(r, n) = Became(s, n) BY <4>1 DEF Became
      <4> QED BY <2>12, <2>13, <2>14, <3>1, <4>2
    <3> QED BY <2>10, <2>19, <3>2, <3>3, <3>4, <3>5 DEF MessageTypes, ControlTypes
  <2> QED BY <2>17, <2>18, <2>19
<1>3. ASSUME NEW m, log' = Append(log, m), m.type \in OutputTypes => Waits, NEW w, Written(w)
      PROVE  w.type \in OutputTypes => Waits
  <2>1. log'[Len(log) + 1] = m BY <1>3, AppendedTyped
  <2>2. log' = Append(log, w) BY <1>3 DEF Written
  <2>3. log'[Len(log) + 1] = w BY <2>2, AppendedTyped
  <2>4. m = w BY <2>1, <2>3
  <2> QED BY <1>3, <2>4
<1>4. ASSUME ~UNCHANGED log PROVE Promise!PromiseNext \/ UNCHANGED Promise!pvars
  <2>1. PICK m : log' = Append(log, m) /\ (m.type \in OutputTypes => Waits) BY <1>4 DEF KeptLog
  <2>2. PICK w : Written(w) BY <1>4
  <2> QED BY <1>2, <1>3, <2>1, <2>2
<1> QED BY <1>1, <1>4

\* The source keeps its promise to the person: whatever the coroutines behind
\* it do between a reading and a write, every write answers, stops, gives up
\* or restores just what the promise allows at that moment (session.start,
\* check_source, react's narrow transaction, session.resume).
THEOREM KeepsPromise == Spec => ImplementsPromise
<1>1. Init => Promise!PromiseInit
  BY DEF Init, Promise!PromiseInit, Promise!Asked, Fate, Seqs, SourceHead
<1>2. Init => ControlStands BY DEF Init, ControlStands, FreeLane
<1>3. TurnSafe /\ ControlStands /\ [Next]_vars
        => ControlStands' /\ (Promise!PromiseNext \/ UNCHANGED Promise!pvars)
  <2> SUFFICES ASSUME TypeInv, SlotInv, ShapeInv, TurnInv, ControlStands, [Next]_vars
               PROVE  ControlStands' /\ (Promise!PromiseNext \/ UNCHANGED Promise!pvars)
    BY DEF TurnSafe
  <2>1. TypeInv' /\ KeptLog BY EveryStepTurns DEF TurnStep
  <2> QED BY <2>1, ControlStep, ControlsWritten, PromiseStep
<1>4. (Promise!PromiseNext \/ UNCHANGED Promise!pvars)
        => [UNCHANGED log \/ Promise!PromiseNext \/ UNCHANGED Promise!pvars]_vars
  OBVIOUS
<1> QED BY <1>1, <1>2, <1>3, <1>4, TurnAlways, PTL DEF Spec, ImplementsPromise

\* So it is an implementation of SourcePromise, step for step.
THEOREM RefinesPromise == Spec => Promise!PromiseSpec
<1>1. Init => Promise!PromiseInit
  BY DEF Init, Promise!PromiseInit, Promise!Asked, Fate, Seqs, SourceHead
<1>2. UNCHANGED log => UNCHANGED Promise!pvars
  BY DEF Promise!pvars, Fate, FoldedState, AddMessage, AddControl, Seqs, SourceHead, EmptyState
<1>3. [UNCHANGED log \/ Promise!PromiseNext \/ UNCHANGED Promise!pvars]_vars
        => [Promise!PromiseNext]_(Promise!pvars)
  BY <1>2 DEF vars
<1> QED BY <1>1, <1>3, KeepsPromise, PTL DEF ImplementsPromise, Promise!PromiseSpec

=============================================================================
