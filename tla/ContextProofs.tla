---------------------------- MODULE ContextProofs ----------------------------
(***************************************************************************)
(* The safety properties of Context, for any number of contexts.           *)
(***************************************************************************)
EXTENDS Context, TLAPS

\* Tokens and lineages: a context's token is in its lineage, which holds its parent's
\* and, with a token, all that is above the token.
LineageInv ==
    /\ \A c \in Made :
          /\ token[c] \in lineage[c] /\ lineage[c] \subseteq Made
          /\ parent[c] \in 0..count
          /\ parent[c] # 0 => lineage[parent[c]] \subseteq lineage[c]
    /\ \A c, u \in Made : token[u] \in lineage[c] => lineage[u] \subseteq lineage[c]

\* A token under a cancelled one is cancelled.
CancelInv ==
    /\ cancelled \subseteq Made
    /\ \A c \in Made : lineage[c] \cap cancelled # {} => token[c] \in cancelled

\* What sleeps is the timer of a context that has a deadline.
TimerInv == \A c \in timers : c \in Made /\ deadline[c] # None

ContextInv ==
    TypeOK /\ LineageInv /\ CancelInv /\ TimerInv /\ DeadlineNarrows /\ CancelledForReason

------------------------------------------------------------------------------
(***************************************************************************)
(* A new context                                                           *)
(***************************************************************************)

\* Make leaves the contexts that there are alone and gives the new one its fields.
LEMMA MakeAdds ==
  ASSUME TypeOK,
         NEW p \in 0..MaxContexts, NEW d \in Time \cup {None},
         NEW t \in 1..(count + 1), NEW l \in SUBSET (1..(count + 1)),
         Make(p, d, t, l)
  PROVE  /\ count' = count + 1 /\ count + 1 \in Contexts
         /\ Made' = Made \cup {count + 1} /\ count + 1 \notin Made
         /\ Made \subseteq Contexts
         /\ \A c \in Made : /\ parent'[c] = parent[c] /\ deadline'[c] = deadline[c]
                            /\ token'[c] = token[c] /\ lineage'[c] = lineage[c]
         /\ parent'[count + 1] = p /\ deadline'[count + 1] = d
         /\ token'[count + 1] = t /\ lineage'[count + 1] = l
         /\ parent' \in [Contexts -> 0..MaxContexts]
         /\ deadline' \in [Contexts -> Time \cup {None}]
         /\ token' \in [Contexts -> Contexts]
         /\ lineage' \in [Contexts -> SUBSET Contexts]
         /\ now' = now /\ runs' = runs /\ asked' = asked
  <1>1. count \in Nat /\ count < MaxContexts /\ MaxContexts \in Nat
    BY ContextAssumption DEF TypeOK, Make
  <1>2. count + 1 \in Contexts /\ Made \subseteq Contexts /\ count + 1 \notin Made
    BY <1>1 DEF Contexts, Made
  <1>3. Made' = Made \cup {count + 1}
    BY <1>1 DEF Made, Make
  <1>4. t \in Contexts /\ l \in SUBSET Contexts
    BY <1>1 DEF Contexts
  <1> QED
    BY <1>1, <1>2, <1>3, <1>4 DEF TypeOK, Make

\* A new context keeps the invariant when its token is new or that of a context it
\* copies, its lineage that of its parent with its token, and its cancellation that
\* of its lineage.
LEMMA MakeKeepsInv ==
  ASSUME ContextInv,
         NEW p \in 0..count, NEW d \in Time \cup {None},
         NEW t \in 1..(count + 1), NEW l \in SUBSET (1..(count + 1)),
         Make(p, d, t, l),
         t \in l,
         p # 0 => lineage[p] \subseteq l,
         p # 0 /\ deadline[p] # None => d # None /\ d <= deadline[p],
         \A u \in Made : token[u] \in l => lineage[u] \subseteq l,
         \A c \in Made : t \in lineage[c] => l \subseteq lineage[c],
         cancelled \subseteq cancelled', cancelled' \subseteq cancelled \cup {count + 1},
         l \cap cancelled' # {} => t \in cancelled',
         t \in cancelled' => \/ l \cap asked # {}
                             \/ \E a \in Made : token[a] \in l /\ Passed(a)
                             \/ t = count + 1 /\ d # None /\ d <= now,
         timers \subseteq timers', timers' \subseteq timers \cup {count + 1},
         count + 1 \in timers' => d # None
  PROVE  ContextInv'
  <1>0. PICK n : n = count + 1
    OBVIOUS
  <1>1. p \in 0..MaxContexts /\ count \in Nat
    BY ContextAssumption DEF ContextInv, TypeOK
  <1>2. /\ count' = n /\ n \in Contexts
        /\ Made' = Made \cup {n} /\ n \notin Made /\ Made \subseteq Contexts
        /\ \A c \in Made : /\ parent'[c] = parent[c] /\ deadline'[c] = deadline[c]
                           /\ token'[c] = token[c] /\ lineage'[c] = lineage[c]
        /\ parent'[n] = p /\ deadline'[n] = d /\ token'[n] = t /\ lineage'[n] = l
        /\ parent' \in [Contexts -> 0..MaxContexts]
        /\ deadline' \in [Contexts -> Time \cup {None}]
        /\ token' \in [Contexts -> Contexts]
        /\ lineage' \in [Contexts -> SUBSET Contexts]
        /\ now' = now /\ runs' = runs /\ asked' = asked
    BY <1>0, <1>1, MakeAdds DEF ContextInv
  <1>3. p # 0 => p \in Made
    BY <1>1 DEF Made
  <1>4. l \subseteq Made'
    BY <1>1, <1>2 DEF Made
  <1>5. \A c \in Made : parent[c] # 0 => parent[c] \in Made
    BY <1>1 DEF ContextInv, LineageInv, Made
  <1>6. TypeOK'
    <2>1. count' \in 0..MaxContexts
      BY <1>2, ContextAssumption DEF Contexts
    <2> QED
      BY <1>0, <1>2, <2>1 DEF ContextInv, TypeOK, Contexts, Time
  <1>7. LineageInv'
    <2>1. ASSUME NEW c \in Made'
          PROVE  /\ token'[c] \in lineage'[c] /\ lineage'[c] \subseteq Made'
                 /\ parent'[c] \in 0..count'
                 /\ parent'[c] # 0 => lineage'[parent'[c]] \subseteq lineage'[c]
      <3>1. CASE c = n
        <4>1. p \in 0..count'
          BY <1>0, <1>1, <1>2
        <4>2. p # 0 => lineage'[p] \subseteq lineage'[n]
          BY <1>2, <1>3
        <4> QED
          BY <1>2, <1>4, <3>1, <4>1, <4>2
      <3>2. CASE c \in Made
        <4>1. parent[c] \in 0..count'
          BY <1>0, <1>1, <1>2, <3>2 DEF ContextInv, LineageInv
        <4> QED
          BY <1>2, <1>5, <3>2, <4>1 DEF ContextInv, LineageInv
      <3> QED
        BY <1>2, <3>1, <3>2
    <2>2. ASSUME NEW c \in Made', NEW u \in Made', token'[u] \in lineage'[c]
          PROVE  lineage'[u] \subseteq lineage'[c]
      <3>1. CASE c = n /\ u = n
        BY <3>1
      <3>2. CASE c = n /\ u \in Made
        BY <1>2, <2>2, <3>2
      <3>3. CASE c \in Made /\ u = n
        BY <1>2, <2>2, <3>3
      <3>4. CASE c \in Made /\ u \in Made
        BY <1>2, <2>2, <3>4 DEF ContextInv, LineageInv
      <3> QED
        BY <1>2, <3>1, <3>2, <3>3, <3>4
    <2> QED
      BY <2>1, <2>2 DEF LineageInv
  <1>8. CancelInv'
    <2>1. cancelled' \subseteq Made'
      BY <1>0, <1>2 DEF ContextInv, CancelInv
    <2>2. ASSUME NEW c \in Made', lineage'[c] \cap cancelled' # {}
          PROVE  token'[c] \in cancelled'
      <3>1. CASE c = n
        BY <1>2, <2>2, <3>1
      <3>2. CASE c \in Made
        <4>1. lineage[c] \subseteq Made
          BY <3>2 DEF ContextInv, LineageInv
        <4>2. lineage[c] \cap cancelled # {}
          BY <1>0, <1>2, <2>2, <3>2, <4>1
        <4> QED
          BY <1>2, <3>2, <4>2 DEF ContextInv, CancelInv
      <3> QED
        BY <1>2, <3>1, <3>2
    <2> QED
      BY <2>1, <2>2 DEF CancelInv
  <1>9. TimerInv'
    BY <1>0, <1>2 DEF ContextInv, TimerInv
  <1>10. DeadlineNarrows'
    <2> SUFFICES ASSUME NEW c \in Made', parent'[c] # 0, deadline'[parent'[c]] # None
                 PROVE  deadline'[c] # None /\ deadline'[c] <= deadline'[parent'[c]]
      BY DEF DeadlineNarrows
    <2>1. CASE c = n
      BY <1>2, <1>3, <2>1
    <2>2. CASE c \in Made
      BY <1>2, <1>5, <2>2 DEF ContextInv, DeadlineNarrows
    <2> QED
      BY <1>2, <2>1, <2>2
  <1>11. CancelledForReason'
    <2> SUFFICES ASSUME NEW c \in Made', IsCancelled(c)'
                 PROVE  \/ (lineage[c] \cap asked # {})'
                        \/ \E a \in Made' : (token[a] \in lineage[c] /\ Passed(a))'
      BY DEF CancelledForReason
    <2>1. token'[c] \in cancelled'
      BY DEF IsCancelled
    <2>2. \A a \in Made : Passed(a) => Passed(a)'
      BY <1>2 DEF Passed
    <2>3. CASE c = n
      <3>1. CASE l \cap asked # {}
        BY <1>2, <2>3, <3>1
      <3>2. CASE \E a \in Made : token[a] \in l /\ Passed(a)
        BY <1>2, <2>2, <2>3, <3>2
      <3>3. CASE t = count + 1 /\ d # None /\ d <= now
        <4>1. Passed(n)'
          BY <1>0, <1>2, <3>3 DEF Passed
        <4> QED
          BY <1>2, <2>3, <4>1
      <3> QED
        BY <1>2, <2>1, <2>3, <3>1, <3>2, <3>3
    <2>4. CASE c \in Made
      <3>1. token[c] \in Made
        BY <2>4 DEF ContextInv, LineageInv
      <3>2. token[c] \in cancelled
        BY <1>0, <1>2, <2>1, <2>4, <3>1
      <3>3. \/ lineage[c] \cap asked # {}
            \/ \E a \in Made : token[a] \in lineage[c] /\ Passed(a)
        BY <2>4, <3>2 DEF ContextInv, CancelledForReason, IsCancelled
      <3> QED
        BY <1>2, <2>2, <2>4, <3>3
    <2> QED
      BY <1>2, <2>3, <2>4
  <1> QED
    BY <1>6, <1>7, <1>8, <1>9, <1>10, <1>11 DEF ContextInv

------------------------------------------------------------------------------
(***************************************************************************)
(* A cancellation                                                          *)
(***************************************************************************)

\* Cancelling a token with all below it, for a reason, keeps the invariant.
LEMMA CancelKeepsInv ==
  ASSUME ContextInv, NEW c \in Made,
         cancelled' = cancelled \cup Below(token[c]),
         asked \subseteq asked', asked' \subseteq asked \cup {token[c]},
         token[c] \in asked' \/ Passed(c),
         timers' \subseteq timers,
         UNCHANGED <<now, count, tree, runs>>
  PROVE  ContextInv'
  <1>1. Made' = Made /\ Made \subseteq Contexts /\ count \in Nat
    BY ContextAssumption DEF Made, Contexts, ContextInv, TypeOK
  <1>2. \A x \in Made : token[x] \in Made /\ token[x] \in lineage[x]
    BY DEF ContextInv, LineageInv
  <1>3. \A x, y \in Made : token[y] \in lineage[x] => lineage[y] \subseteq lineage[x]
    BY DEF ContextInv, LineageInv
  <1>4. \A x \in Below(token[c]) :
           \E u \in Made : x = token[u] /\ token[c] \in lineage[u]
    BY DEF Below
  <1>5. \A u \in Made : token[c] \in lineage[u] => token[u] \in Below(token[c])
    BY DEF Below
  <1>6. TypeOK'
    BY <1>1, <1>2, <1>4 DEF ContextInv, TypeOK, tree
  <1>7. LineageInv' /\ DeadlineNarrows' /\ TimerInv'
    <2>1. LineageInv'
      BY <1>1 DEF ContextInv, LineageInv, tree
    <2>2. DeadlineNarrows'
      BY <1>1 DEF ContextInv, DeadlineNarrows, tree
    <2>3. TimerInv'
      BY <1>1 DEF ContextInv, TimerInv, tree
    <2> QED
      BY <2>1, <2>2, <2>3
  <1>8. CancelInv'
    <2>1. cancelled' \subseteq Made'
      BY <1>1, <1>2, <1>4 DEF ContextInv, CancelInv
    <2>2. ASSUME NEW v \in Made, lineage[v] \cap cancelled' # {}
          PROVE  token[v] \in cancelled'
      <3>1. CASE lineage[v] \cap cancelled # {}
        BY <3>1 DEF ContextInv, CancelInv
      <3>2. CASE \E x \in Below(token[c]) : x \in lineage[v]
        <4>1. PICK u \in Made : token[u] \in lineage[v] /\ token[c] \in lineage[u]
          BY <1>4, <3>2
        <4>2. token[c] \in lineage[v]
          BY <1>3, <4>1
        <4> QED
          BY <1>5, <4>2
      <3> QED
        BY <2>2, <3>1, <3>2
    <2> QED
      BY <1>1, <2>1, <2>2 DEF CancelInv, tree
  <1>9. CancelledForReason'
    <2> SUFFICES ASSUME NEW v \in Made, token[v] \in cancelled'
                 PROVE  \/ lineage[v] \cap asked' # {}
                        \/ \E a \in Made : token[a] \in lineage[v] /\ Passed(a)
      BY <1>1 DEF CancelledForReason, IsCancelled, Passed, tree
    <2>1. CASE token[v] \in cancelled
      BY <2>1 DEF ContextInv, CancelledForReason, IsCancelled
    <2>2. CASE token[v] \in Below(token[c])
      <3>1. PICK u \in Made : token[v] = token[u] /\ token[c] \in lineage[u]
        BY <1>4, <2>2
      <3>2. token[c] \in lineage[v]
        BY <1>2, <1>3, <3>1
      <3> QED
        BY <3>2
    <2> QED
      BY <2>1, <2>2
  <1> QED
    BY <1>6, <1>7, <1>8, <1>9 DEF ContextInv

------------------------------------------------------------------------------
(***************************************************************************)
(* Every step                                                              *)
(***************************************************************************)

\* No context there is yet has a token or a lineage with the number of the next one.
LEMMA NextIsFresh ==
  ASSUME ContextInv
  PROVE  /\ count \in Nat /\ count + 1 \notin Made
         /\ \A c \in Made : /\ token[c] \in Made /\ lineage[c] \subseteq Made
                            /\ token[c] \in lineage[c] /\ parent[c] \in 0..count
         /\ \A c \in Made : token[c] # count + 1 /\ count + 1 \notin lineage[c]
         /\ cancelled \subseteq Made /\ Made \subseteq 1..(count + 1)
         /\ timers \subseteq Made /\ Made \subseteq Contexts
  <1>1. count \in Nat /\ count + 1 \notin Made /\ Made \subseteq 1..(count + 1)
        /\ Made \subseteq Contexts
    BY ContextAssumption DEF ContextInv, TypeOK, Made, Contexts
  <1> QED
    BY <1>1 DEF ContextInv, LineageInv, CancelInv, TimerInv

LEMMA RootStep == ContextInv /\ Root => ContextInv'
  <1> SUFFICES ASSUME ContextInv, Root PROVE ContextInv'
    OBVIOUS
  <1>1. /\ count \in Nat /\ count + 1 \notin Made
        /\ \A c \in Made : token[c] # count + 1 /\ count + 1 \notin lineage[c]
        /\ cancelled \subseteq Made
    BY NextIsFresh
  <1>2. Make(0, None, count + 1, {count + 1}) /\ UNCHANGED <<cancelled, timers>>
    BY DEF Root
  <1>3. 0 \in 0..count /\ None \in Time \cup {None} /\ count + 1 \in 1..(count + 1)
        /\ {count + 1} \in SUBSET (1..(count + 1))
    BY <1>1
  <1>4. {count + 1} \cap cancelled' = {} /\ count + 1 \notin cancelled'
        /\ count + 1 \notin timers'
    BY <1>1, <1>2, NextIsFresh
  <1> QED
    BY <1>1, <1>2, <1>3, <1>4, MakeKeepsInv

\* A child of p, whose deadline e is p's or an earlier one.
LEMMA ChildKeepsInv ==
  ASSUME ContextInv, NEW p \in Made, NEW e \in Time \cup {None},
         Make(p, e, count + 1, ChildLineage(p)),
         deadline[p] # None => e # None /\ e <= deadline[p],
         \/ cancelled' = WithChildToken(p)
         \/ cancelled' = cancelled \cup {count + 1} /\ e # None /\ e <= now,
         timers' = timers \/ (e # None /\ timers' = timers \cup {count + 1})
  PROVE  ContextInv'
  <1>1. /\ count \in Nat /\ count + 1 \notin Made
        /\ \A c \in Made : /\ token[c] \in Made /\ lineage[c] \subseteq Made
                           /\ token[c] \in lineage[c] /\ parent[c] \in 0..count
        /\ \A c \in Made : token[c] # count + 1 /\ count + 1 \notin lineage[c]
        /\ cancelled \subseteq Made /\ Made \subseteq 1..(count + 1)
        /\ timers \subseteq Made
    BY NextIsFresh
  <1> DEFINE l == lineage[p] \cup {count + 1}
  <1>2. ChildLineage(p) = l /\ count + 1 \in l /\ lineage[p] \subseteq l
    BY DEF ChildLineage
  <1>3. p \in 0..count /\ count + 1 \in 1..(count + 1) /\ l \in SUBSET (1..(count + 1))
    BY <1>1 DEF Made
  <1>4. \A u \in Made : token[u] \in l => lineage[u] \subseteq l
    BY <1>1 DEF ContextInv, LineageInv
  <1>5. \A c \in Made : count + 1 \in lineage[c] => l \subseteq lineage[c]
    BY <1>1
  <1>6. cancelled \subseteq cancelled' /\ cancelled' \subseteq cancelled \cup {count + 1}
    BY DEF WithChildToken
  <1>7. lineage[p] \cap cancelled # {} => token[p] \in cancelled
    BY DEF ContextInv, CancelInv
  <1>8. l \cap cancelled' # {} => count + 1 \in cancelled'
    BY <1>1, <1>7 DEF WithChildToken, IsCancelled
  <1>9. token[p] \in cancelled =>
           \/ l \cap asked # {}
           \/ \E a \in Made : token[a] \in l /\ Passed(a)
    BY DEF ContextInv, CancelledForReason, IsCancelled
  <1>10. count + 1 \in cancelled' =>
            \/ l \cap asked # {}
            \/ \E a \in Made : token[a] \in l /\ Passed(a)
            \/ count + 1 = count + 1 /\ e # None /\ e <= now
    BY <1>1, <1>9 DEF WithChildToken, IsCancelled
  <1>11. timers \subseteq timers' /\ timers' \subseteq timers \cup {count + 1}
         /\ (count + 1 \in timers' => e # None)
    BY <1>1
  <1>12. Make(p, e, count + 1, l)
    BY <1>2
  <1>13. p # 0 => lineage[p] \subseteq l
    BY <1>2
  <1>14. count + 1 \in l
    BY <1>2
  <1> HIDE DEF l
  <1> QED
    BY <1>3, <1>4, <1>5, <1>6, <1>8, <1>10, <1>11, <1>12, <1>13, <1>14, MakeKeepsInv

LEMMA ChildStep == ContextInv /\ Child => ContextInv'
  <1> SUFFICES ASSUME ContextInv, Child PROVE ContextInv'
    OBVIOUS
  <1>1. PICK p \in Made : /\ Make(p, deadline[p], count + 1, ChildLineage(p))
                          /\ cancelled' = WithChildToken(p)
    BY DEF Child
  <1>2. deadline[p] \in Time \cup {None} /\ timers' = timers
    BY NextIsFresh DEF ContextInv, TypeOK, Child
  <1>3. deadline[p] # None => deadline[p] # None /\ deadline[p] <= deadline[p]
    BY <1>2, ContextAssumption DEF Time
  <1> QED
    BY <1>1, <1>2, <1>3, ChildKeepsInv

LEMMA WithDeadlineStep == ContextInv /\ WithDeadline => ContextInv'
  <1> SUFFICES ASSUME ContextInv, NEW p \in Made, NEW d \in Time,
                      NEW e, e = Effective(p, d),
                      Make(p, e, count + 1, ChildLineage(p)),
                      \/ /\ e <= now
                         /\ cancelled' = cancelled \cup {count + 1}
                         /\ UNCHANGED timers
                      \/ /\ e > now
                         /\ cancelled' = WithChildToken(p)
                         /\ timers' = timers \cup NewTimer(p)
               PROVE  ContextInv'
    BY DEF WithDeadline
  <1>1. deadline[p] \in Time \cup {None}
    BY NextIsFresh DEF ContextInv, TypeOK
  <1>2. e \in Time /\ e # None /\ (deadline[p] # None => e <= deadline[p])
    BY <1>1, ContextAssumption DEF Effective, Time
  <1>3. timers' = timers \/ timers' = timers \cup {count + 1}
    BY DEF NewTimer
  <1> QED
    BY <1>2, <1>3, ChildKeepsInv

LEMMA CopyStep == ContextInv /\ CopyWithData => ContextInv'
  <1> SUFFICES ASSUME ContextInv, CopyWithData PROVE ContextInv'
    OBVIOUS
  <1>1. PICK c \in Made : Make(parent[c], deadline[c], token[c], lineage[c])
    BY DEF CopyWithData
  <1>2. UNCHANGED <<cancelled, timers>>
    BY DEF CopyWithData
  <1>3. /\ count \in Nat /\ count + 1 \notin Made
        /\ token[c] \in Made /\ lineage[c] \subseteq Made
        /\ token[c] \in lineage[c] /\ parent[c] \in 0..count
        /\ cancelled \subseteq Made /\ Made \subseteq 1..(count + 1)
        /\ timers \subseteq Made /\ Made \subseteq Contexts
    BY NextIsFresh
  <1> DEFINE p == parent[c]
             d == deadline[c]
             t == token[c]
             l == lineage[c]
  <1>4. /\ p \in 0..count /\ d \in Time \cup {None}
        /\ t \in 1..(count + 1) /\ l \in SUBSET (1..(count + 1)) /\ t \in l
    BY <1>3 DEF ContextInv, TypeOK
  <1>5. p # 0 => lineage[p] \subseteq l
    BY DEF ContextInv, LineageInv
  <1>6. p # 0 /\ deadline[p] # None => d # None /\ d <= deadline[p]
    BY DEF ContextInv, DeadlineNarrows
  <1>7. /\ \A u \in Made : token[u] \in l => lineage[u] \subseteq l
        /\ \A v \in Made : t \in lineage[v] => l \subseteq lineage[v]
    BY DEF ContextInv, LineageInv
  <1>8. l \cap cancelled' # {} => t \in cancelled'
    BY <1>2 DEF ContextInv, CancelInv
  <1>9. t \in cancelled' => \/ l \cap asked # {}
                            \/ \E a \in Made : token[a] \in l /\ Passed(a)
    BY <1>2 DEF ContextInv, CancelledForReason, IsCancelled
  <1>10. count + 1 \notin timers'
    BY <1>2, <1>3
  <1>11. Make(p, d, t, l)
    BY <1>1
  <1> HIDE DEF p, d, t, l
  <1> QED
    BY <1>2, <1>4, <1>5, <1>6, <1>7, <1>8, <1>9, <1>10, <1>11, MakeKeepsInv

\* What touches neither the forest nor what is cancelled, and lets time pass, keeps the
\* invariant.
LEMMA QuietStep ==
  ASSUME ContextInv, TypeOK', now' >= now,
         UNCHANGED <<count, tree, cancelled, timers, asked>>
  PROVE  ContextInv'
  <1>1. Made' = Made /\ Made \subseteq Contexts
    BY NextIsFresh DEF Made
  <1>2. \A a \in Made : Passed(a) => Passed(a)'
    BY <1>1, ContextAssumption DEF Passed, tree, ContextInv, TypeOK, Time
  <1>3. LineageInv' /\ CancelInv' /\ TimerInv' /\ DeadlineNarrows'
    <2>1. LineageInv'
      BY <1>1 DEF ContextInv, LineageInv, tree
    <2>2. CancelInv'
      BY <1>1 DEF ContextInv, CancelInv, tree
    <2>3. TimerInv'
      BY <1>1 DEF ContextInv, TimerInv, tree
    <2>4. DeadlineNarrows'
      BY <1>1 DEF ContextInv, DeadlineNarrows, tree
    <2> QED
      BY <2>1, <2>2, <2>3, <2>4
  <1>4. CancelledForReason'
    BY <1>1, <1>2 DEF ContextInv, CancelledForReason, IsCancelled, tree
  <1> QED
    BY <1>3, <1>4 DEF ContextInv

LEMMA InitInv == Init => ContextInv
  <1> SUFFICES ASSUME Init PROVE ContextInv
    OBVIOUS
  <1>1. Made = {}
    BY DEF Init, Made
  <1>2. TypeOK
    BY ContextAssumption DEF Init, TypeOK, Time, Contexts
  <1> QED
    BY <1>1, <1>2 DEF Init, ContextInv, LineageInv, CancelInv, TimerInv, DeadlineNarrows,
                      CancelledForReason

LEMMA NextInv == ContextInv /\ [Next]_vars => ContextInv'
  <1> SUFFICES ASSUME ContextInv, [Next]_vars PROVE ContextInv'
    OBVIOUS
  <1> USE NextIsFresh
  <1>1. CASE Root
    BY <1>1, RootStep
  <1>2. CASE Child
    BY <1>2, ChildStep
  <1>3. CASE WithDeadline
    BY <1>3, WithDeadlineStep
  <1>4. CASE CopyWithData
    BY <1>4, CopyStep
  <1>5. CASE Cancel
    <2>1. PICK c \in Made : /\ cancelled' = cancelled \cup Below(token[c])
                            /\ asked' = asked \cup {token[c]}
      BY <1>5 DEF Cancel
    <2> QED
      BY <1>5, <2>1, CancelKeepsInv DEF Cancel
  <1>6. ASSUME NEW c \in Made, TimerFires(c) PROVE ContextInv'
    <2>1. c \in timers /\ deadline[c] # None /\ deadline[c] <= now
      BY <1>6 DEF TimerFires, ContextInv, TimerInv
    <2>2. Passed(c)
      BY <2>1 DEF Passed
    <2> QED
      BY <1>6, <2>2, CancelKeepsInv DEF TimerFires
  <1>7. CASE StartRun \/ FutureEnds \/ \E c \in Made : StopRun(c)
    <2>1. PICK c \in Contexts, r \in {"some", "none", "running"} : RunBecomes(c, r)
      BY <1>7 DEF StartRun, FutureEnds, StopRun
    <2>2. now \in Nat
      BY ContextAssumption DEF ContextInv, TypeOK, Time
    <2>3. TypeOK'
      BY <2>1 DEF RunBecomes, ContextInv, TypeOK, tree
    <2> QED
      BY <2>1, <2>2, <2>3, QuietStep DEF RunBecomes
  <1>8. CASE Tick
    <2>1. now \in Time /\ now' = now + 1 /\ now < MaxTime
          /\ UNCHANGED <<count, tree, cancelled, timers, runs, asked>>
      BY <1>8 DEF Tick, ContextInv, TypeOK
    <2>2. now' \in Time /\ now' >= now
      BY <2>1, ContextAssumption DEF Time
    <2>3. TypeOK'
      BY <2>1, <2>2 DEF ContextInv, TypeOK, tree
    <2> QED
      BY <2>1, <2>2, <2>3, QuietStep
  <1>9. CASE UNCHANGED vars
    <2>1. now' = now /\ now \in Nat
      BY <1>9, ContextAssumption DEF vars, ContextInv, TypeOK, Time
    <2>2. TypeOK'
      BY <1>9 DEF vars, ContextInv, TypeOK
    <2> QED
      BY <1>9, <2>1, <2>2, QuietStep DEF vars, tree
  <1> QED
    BY <1>1, <1>2, <1>3, <1>4, <1>5, <1>6, <1>7, <1>8, <1>9 DEF Next

LEMMA InvHolds == Spec => []ContextInv
  BY InitInv, NextInv, PTL DEF Spec

------------------------------------------------------------------------------
(***************************************************************************)
(* The theorems                                                            *)
(***************************************************************************)

\* The types of the forest hold for any bounds.
THEOREM TypeCorrect == Spec => []TypeOK
  <1>1. ContextInv => TypeOK
    BY DEF ContextInv
  <1> QED
    BY <1>1, InvHolds, PTL

\* with_deadline never gives a context more time than those above it have.
THEOREM DeadlinesNarrow == Spec => []DeadlineNarrows
  <1>1. ContextInv => DeadlineNarrows
    BY DEF ContextInv
  <1> QED
    BY <1>1, InvHolds, PTL

\* cancel, or a timer, cancels the children of what it cancels.
THEOREM CancellationDescends == Spec => []CancelReachesChildren
  <1>1. ContextInv => CancelReachesChildren
    <2> SUFFICES ASSUME ContextInv, NEW c \in Made, parent[c] # 0, IsCancelled(parent[c])
                 PROVE  IsCancelled(c)
      BY DEF CancelReachesChildren
    <2>1. parent[c] \in Made
      BY NextIsFresh DEF Made
    <2>2. token[parent[c]] \in lineage[c]
      BY <2>1 DEF ContextInv, LineageInv
    <2>3. lineage[c] \cap cancelled # {}
      BY <2>2 DEF IsCancelled
    <2> QED
      BY <2>3 DEF ContextInv, CancelInv, IsCancelled
  <1> QED
    BY <1>1, InvHolds, PTL

\* Nothing is cancelled by what happens below it or beside it.
THEOREM CancellationHasReason == Spec => []CancelledForReason
  <1>1. ContextInv => CancelledForReason
    BY DEF ContextInv
  <1> QED
    BY <1>1, InvHolds, PTL

==============================================================================
