-------------------------- MODULE TransactionsProofs --------------------------
(***************************************************************************)
(* Theorems about Transactions and Writes, for every number of Databases,  *)
(* connections, guards and transactions.                                   *)
(***************************************************************************)
EXTENDS Writes, HandlesProofs

-----------------------------------------------------------------------------
(* The invariant.                                                          *)

\* Transactions are numbered as they start, and a guard's is one that has started.
Numbered ==
    /\ \A t \in TxIds : fate[t] = "none" <=> started < t
    /\ \A g \in Guards : begun[g] <= started

\* No two connections have one transaction.
Apart == \A k, l \in Connections : tx[k] # 0 /\ tx[k] = tx[l] => k = l

\* Until something is taken from under a guard, the Database that it points to is
\* there, and in the transaction the guard began.
Standing ==
    ~breached => \A g \in Guards : txDb[g] # NoDb =>
        dbConn[txDb[g]] # NoConn /\ tx[ConnOf(txDb[g])] = begun[g]

\* A transaction was begun by one guard only that still has a pointer, also after that.
BegunOnce ==
    \A g, h \in guards :
        txDb[g] # NoDb /\ txDb[h] # NoDb /\ begun[g] = begun[h] => g = h

TxInv ==
    /\ HandlesInv /\ TxTypeOK
    /\ Numbered /\ Apart /\ Standing
    /\ BegunOnce /\ NoStrayTransaction /\ DurableIffCommitReturned /\ DestructorsAreSafe

\* Until then a write is made under the guard of the transaction that it is made in.
WritesKnown ==
    ~breached => \A w \in writes :
        /\ w.inside \in 0..started
        /\ w.under = IF w.inside = 0 THEN {} ELSE {w.inside}
-----------------------------------------------------------------------------
(* The handles under the guards.                                           *)

\* A query leaves the handles alone.
LEMMA QueriedKeeps ==
    ASSUME HandlesInv, NEW res \in Answers, Queried(res)
    PROVE  HandlesInv' /\ TypeOK' /\ UNCHANGED connVars
<1>1. Types'
  BY DEF Queried, Returns, connVars, stmtVars, cmdVars, HandlesInv, Types, Ops
<1>2. HandlesInv'
  BY <1>1, InvQuiet DEF Queried
<1>. QED BY <1>2 DEF Queried, HandlesInv, TypeOK

\* What a program does with Databases here is what it does there.
LEMMA HandlesKeep ==
    ASSUME HandlesInv, [Next]_vars
    PROVE  HandlesInv' /\ TypeOK'
BY InvNext DEF HandlesInv, TypeOK

\* On an open connection one Database has it, and only an open one has a transaction.
LEMMA OneDatabase ==
    ASSUME TxInv, NEW d \in Databases, NEW e \in Databases,
           dbConn[d] # NoConn, tx[ConnOf(d)] # 0, dbConn[e] = dbConn[d]
    PROVE  d = e
<1>1. dbConn[d] \in Connections /\ sl3db[dbConn[d]] = "open"
  BY DEF TxInv, TxTypeOK, HandlesInv, Types, ConnOf
<1>. QED BY <1>1 DEF TxInv, HandlesInv, OneOwner

-----------------------------------------------------------------------------
(* The steps of the guards.                                                *)

LEMMA BeginKeeps ==
    ASSUME TxInv, NEW g \in Guards, NEW d \in Databases, BeginTransaction(g, d)
    PROVE  TxInv'
<1>. DEFINE k == ConnOf(d)
           t == started + 1
<1>1. HandlesInv' /\ TypeOK' /\ UNCHANGED connVars
  BY QueriedKeeps DEF BeginTransaction, TxInv, Answers
<1>2. /\ k \in Connections /\ tx[k] = 0 /\ sl3db[k] = "open" /\ dbConn[d] # NoConn
      /\ t \in TxIds /\ started' = t /\ fate[t] = "none"
      /\ txDb[g] = NoDb
  BY TransactionsAssumption DEF BeginTransaction, TxInv, TxTypeOK, HandlesInv, Types, ConnOf, Numbered, TxIds
<1>3. /\ \A h \in Guards : txDb'[h] = (IF h = g THEN d ELSE txDb[h]) /\ begun'[h] = (IF h = g THEN t ELSE begun[h])
      /\ \A l \in Connections : tx'[l] = IF l = k THEN t ELSE tx[l]
      /\ \A u \in TxIds : fate'[u] = IF u = t THEN "active" ELSE fate[u]
      /\ guards' = guards \cup {g} /\ UNCHANGED <<promised, terminated, undefined, refused, breached, dbConn, sl3db>>
  BY <1>1, <1>2 DEF BeginTransaction, TxInv, TxTypeOK, endVars, connVars
<1>4. TxTypeOK'
  BY <1>1, <1>2, <1>3, TransactionsAssumption DEF BeginTransaction, TxInv, TxTypeOK, TxIds
<1>5. Numbered' /\ Apart'
  <2>0. started \in Nat /\ MaxTx \in Nat /\ \A h \in Guards : begun[h] \in Nat
    BY TransactionsAssumption DEF TxInv, TxTypeOK
  <2>1. Numbered'
    <3>1. \A u \in TxIds : fate'[u] = "none" <=> started' < u
      <4>. SUFFICES ASSUME NEW u \in TxIds PROVE fate'[u] = "none" <=> started' < u
        OBVIOUS
      <4>1. u \in Nat /\ (fate[u] = "none" <=> started < u)
        BY TransactionsAssumption DEF TxInv, Numbered, TxIds
      <4>. QED BY <1>2, <1>3, <2>0, <4>1
    <3>2. \A h \in Guards : begun'[h] <= started'
      BY <1>2, <1>3, <2>0 DEF TxInv, Numbered
    <3>. QED BY <3>1, <3>2 DEF Numbered
  <2>2. \A l \in Connections : tx[l] # t
    BY <1>2, TransactionsAssumption DEF TxInv, TxTypeOK, TxIds
  <2>3. Apart'
    BY <1>2, <1>3, <2>2 DEF TxInv, Apart
  <2>. QED BY <2>1, <2>3
<1>6. Standing'
  BY <1>2, <1>3, OneDatabase DEF TxInv, TxTypeOK, Standing, ConnOf, HandlesInv, Types
<1>7. BegunOnce'
  BY <1>2, <1>3 DEF TxInv, TxTypeOK, BegunOnce, Numbered
<1>8. NoStrayTransaction'
  <2> SUFFICES ASSUME ~breached, NEW u \in TxIds, fate'[u] = "active"
               PROVE  \E h \in guards' : /\ begun'[h] = u /\ txDb'[h] # NoDb
                                         /\ dbConn'[txDb'[h]] # NoConn /\ tx'[dbConn'[txDb'[h]]] = u
    BY <1>3 DEF NoStrayTransaction, ConnOf
  <2>1. CASE u = t
    BY <1>2, <1>3, <2>1, TransactionsAssumption DEF ConnOf
  <2>2. CASE u # t
    <3>1. PICK h \in guards : /\ begun[h] = u /\ txDb[h] # NoDb
                              /\ dbConn[txDb[h]] # NoConn /\ tx[dbConn[txDb[h]]] = u
      BY <1>3, <2>2 DEF TxInv, NoStrayTransaction, ConnOf
    <3>2. h # g /\ h \in Guards /\ dbConn[txDb[h]] # k
      BY <1>2, <3>1 DEF TxInv, TxTypeOK, TxIds
    <3>. QED BY <1>3, <3>1, <3>2 DEF TxInv, TxTypeOK, HandlesInv, Types
  <2>. QED BY <2>1, <2>2
<1>9. DurableIffCommitReturned' /\ DestructorsAreSafe'
  BY <1>2, <1>3 DEF TxInv, DurableIffCommitReturned, DestructorsAreSafe
<1>. QED BY <1>1, <1>4, <1>5, <1>6, <1>7, <1>8, <1>9 DEF TxInv

\* A call that leaves guards, transactions and connections as they are.
LEMMA QuietKeeps ==
    ASSUME TxInv, HandlesInv', UNCHANGED <<connVars, guardVars, txVars, endVars>>
    PROVE  TxInv'
<1>1. TypeOK'
  BY DEF HandlesInv, TypeOK
<1>. QED
  BY <1>1 DEF connVars, guardVars, txVars, endVars, TxInv, TxTypeOK, Numbered, Apart, Standing,
              BegunOnce, NoStrayTransaction, DurableIffCommitReturned,
              DestructorsAreSafe, ConnOf

LEMMA MoveGuardKeeps ==
    ASSUME TxInv, NEW g \in Guards, NEW h \in Guards, MoveGuard(g, h)
    PROVE  TxInv'
<1>1. /\ g \in guards /\ h \notin guards /\ guards' = guards \cup {h} /\ guards \subseteq Guards
      /\ txDb[h] = NoDb
      /\ \A x \in Guards :
            /\ txDb'[x] = (IF x = h THEN txDb[g] ELSE IF x = g THEN NoDb ELSE txDb[x])
            /\ begun'[x] = (IF x = h THEN begun[g] ELSE IF x = g THEN 0 ELSE begun[x])
  BY DEF MoveGuard, TxInv, TxTypeOK
<1>2. UNCHANGED <<dbConn, sl3db, tx, fate, started, promised, terminated, undefined, refused, breached>>
  BY DEF MoveGuard, vars, txVars, endVars
<1>3. HandlesInv' /\ TypeOK'
  BY HandlesKeep DEF MoveGuard, TxInv
<1>4. TxTypeOK'
  BY <1>1, <1>2, <1>3, TransactionsAssumption DEF MoveGuard, TxInv, TxTypeOK
<1>5. Numbered' /\ Apart' /\ Standing' /\ BegunOnce'
  BY <1>1, <1>2, TransactionsAssumption
     DEF TxInv, TxTypeOK, Numbered, Apart, Standing, BegunOnce, ConnOf
<1>6. NoStrayTransaction'
  <2> SUFFICES ASSUME ~breached, NEW u \in TxIds, fate[u] = "active"
               PROVE  \E x \in guards' : /\ begun'[x] = u /\ txDb'[x] # NoDb
                                         /\ dbConn[txDb'[x]] # NoConn /\ tx[dbConn[txDb'[x]]] = u
    BY <1>2 DEF NoStrayTransaction, ConnOf
  <2>1. PICK x \in guards : /\ begun[x] = u /\ txDb[x] # NoDb
                            /\ dbConn[txDb[x]] # NoConn /\ tx[dbConn[txDb[x]]] = u
    BY DEF TxInv, NoStrayTransaction, ConnOf
  <2>2. CASE x = g
    BY <1>1, <2>1, <2>2
  <2>3. CASE x # g
    BY <1>1, <2>1, <2>3
  <2>. QED BY <2>2, <2>3
<1>7. DurableIffCommitReturned' /\ DestructorsAreSafe'
  BY <1>2 DEF TxInv, DurableIffCommitReturned, DestructorsAreSafe
<1>. QED BY <1>3, <1>4, <1>5, <1>6, <1>7 DEF TxInv

LEMMA DestroyIdleGuardKeeps ==
    ASSUME TxInv, NEW g \in Guards, DestroyIdleGuard(g)
    PROVE  TxInv'
<1>1. /\ guards' = guards \ {g} /\ txDb[g] = NoDb
      /\ \A x \in Guards : /\ txDb'[x] = txDb[x]
                            /\ begun'[x] = (IF x = g THEN 0 ELSE begun[x])
  BY DEF DestroyIdleGuard, Gone, TxInv, TxTypeOK
<1>2. UNCHANGED <<dbConn, sl3db, tx, fate, started, promised, terminated, undefined, refused, breached>>
  BY DEF DestroyIdleGuard, vars, txVars, endVars
<1>3. HandlesInv' /\ TypeOK'
  BY HandlesKeep DEF DestroyIdleGuard, TxInv
<1>4. TxTypeOK'
  BY <1>1, <1>2, <1>3, TransactionsAssumption DEF DestroyIdleGuard, Gone, TxInv, TxTypeOK
<1>5. Numbered' /\ Apart' /\ Standing' /\ BegunOnce'
  BY <1>1, <1>2, TransactionsAssumption
     DEF TxInv, TxTypeOK, Numbered, Apart, Standing, BegunOnce, ConnOf
<1>6. NoStrayTransaction'
  BY <1>1, <1>2 DEF TxInv, TxTypeOK, NoStrayTransaction, ConnOf
<1>7. DurableIffCommitReturned' /\ DestructorsAreSafe'
  BY <1>2 DEF TxInv, DurableIffCommitReturned, DestructorsAreSafe
<1>. QED BY <1>3, <1>4, <1>5, <1>6, <1>7 DEF TxInv

\* The end of the transaction of connection k leaves the others as they are.
LEMMA EndsOne ==
    ASSUME TxInv, NEW k \in Connections, tx[k] # 0, sl3db[k] = "open",
           NEW how \in {"committed", "rolledback"}, Ends(k, how)
    PROVE  /\ tx' \in [Connections -> 0..MaxTx]
           /\ fate' \in [TxIds -> {"none", "active", "committed", "rolledback"}]
           /\ started' = started
           /\ \A l \in Connections : tx'[l] = (IF l = k THEN 0 ELSE tx[l])
           /\ tx[k] \in TxIds /\ fate[tx[k]] = "active"
           /\ \A u \in TxIds : fate'[u] = (IF u = tx[k] THEN how ELSE fate[u])
           /\ \A l \in Connections : tx'[l] # 0 =>
                 l # k /\ tx'[l] = tx[l] /\ sl3db[l] = "open" /\ fate'[tx[l]] = "active"
           /\ \A u \in TxIds : fate'[u] = "none" <=> started < u
           /\ Apart'
<1>1. tx[k] \in TxIds /\ fate[tx[k]] = "active"
  BY TransactionsAssumption DEF TxInv, TxTypeOK, TxIds
<1>2. /\ tx' \in [Connections -> 0..MaxTx]
      /\ fate' \in [TxIds -> {"none", "active", "committed", "rolledback"}]
      /\ started' = started
      /\ \A l \in Connections : tx'[l] = (IF l = k THEN 0 ELSE tx[l])
      /\ \A u \in TxIds : fate'[u] = (IF u = tx[k] THEN how ELSE fate[u])
  <2>1. 0 \in 0..MaxTx
    BY TransactionsAssumption
  <2>. QED BY <1>1, <2>1 DEF Ends, TxInv, TxTypeOK
<1>3. \A l \in Connections : tx'[l] # 0 =>
         l # k /\ tx'[l] = tx[l] /\ sl3db[l] = "open" /\ fate'[tx[l]] = "active"
  BY <1>1, <1>2, TransactionsAssumption DEF TxInv, TxTypeOK, TxIds, Apart
<1>4. \A u \in TxIds : fate'[u] = "none" <=> started < u
  BY <1>1, <1>2 DEF TxInv, Numbered
<1>5. Apart'
  BY <1>2 DEF TxInv, Apart
<1>. QED BY <1>1, <1>2, <1>3, <1>4, <1>5

LEMMA CommitReturnsKeeps ==
    ASSUME TxInv, NEW g \in Guards, CommitReturns(g)
    PROVE  TxInv'
<1>. DEFINE k == ConnOf(txDb[g])
           t == tx[k]
<1>1. HandlesInv' /\ TypeOK' /\ UNCHANGED connVars
  BY QueriedKeeps DEF CommitReturns, TxInv, Answers
<1>2. /\ k \in Connections /\ tx[k] # 0 /\ sl3db[k] = "open" /\ Ends(k, "committed")
      /\ g \in guards /\ txDb[g] # NoDb /\ begun[g] \in TxIds
  BY TransactionsAssumption DEF CommitReturns, TxInv, TxTypeOK, HandlesInv, Types, ConnOf, TxIds
<1>3. /\ \A h \in Guards : txDb'[h] = (IF h = g THEN NoDb ELSE txDb[h])
      /\ promised' = promised \cup {begun[g]}
      /\ UNCHANGED <<guards, begun, terminated, undefined, refused, breached, dbConn, sl3db>>
  BY <1>1 DEF CommitReturns, TxInv, TxTypeOK, endVars, connVars
<1>4. /\ started' = started
      /\ \A l \in Connections : tx'[l] = (IF l = k THEN 0 ELSE tx[l])
      /\ t \in TxIds /\ fate[t] = "active"
      /\ \A u \in TxIds : fate'[u] = (IF u = t THEN "committed" ELSE fate[u])
      /\ \A u \in TxIds : fate'[u] = "none" <=> started < u
  <2>. HIDE DEF k
  <2>. QED BY <1>2, EndsOne
<1>5. TxTypeOK'
  <2>1. /\ tx' \in [Connections -> 0..MaxTx]
        /\ fate' \in [TxIds -> {"none", "active", "committed", "rolledback"}]
        /\ \A l \in Connections : tx'[l] # 0 =>
              l # k /\ tx'[l] = tx[l] /\ sl3db[l] = "open" /\ fate'[tx[l]] = "active"
    <3>. HIDE DEF k
    <3>. QED BY <1>2, EndsOne
  <2>. QED BY <1>1, <1>2, <1>3, <1>4, <2>1 DEF CommitReturns, TxInv, TxTypeOK
<1>6. Numbered' /\ Apart'
  <2>1. Apart'
    <3>. HIDE DEF k
    <3>. QED BY <1>2, EndsOne
  <2>. QED BY <1>3, <1>4, <2>1 DEF TxInv, Numbered
<1>7. ~breached => t = begun[g]
  BY <1>2 DEF TxInv, Standing
<1>8. Standing'
  <2> SUFFICES ASSUME ~breached, NEW h \in Guards, h # g, txDb[h] # NoDb
               PROVE  dbConn[txDb[h]] # NoConn /\ tx'[dbConn[txDb[h]]] = begun[h]
    BY <1>3 DEF Standing, ConnOf
  <2>1. h \in guards /\ txDb[h] \in Databases /\ dbConn[txDb[h]] # NoConn /\ tx[dbConn[txDb[h]]] = begun[h]
    BY DEF TxInv, TxTypeOK, Standing, ConnOf
  <2>2. dbConn[txDb[h]] # k
    BY <1>2, <1>7, <2>1 DEF TxInv, BegunOnce
  <2>. QED BY <1>4, <2>1, <2>2 DEF TxInv, HandlesInv, Types
<1>9. BegunOnce'
  BY <1>3 DEF TxInv, TxTypeOK, BegunOnce
<1>10. NoStrayTransaction'
  <2> SUFFICES ASSUME ~breached, NEW u \in TxIds, u # t, fate[u] = "active"
               PROVE  \E h \in guards : /\ begun[h] = u /\ txDb'[h] # NoDb
                                        /\ dbConn[txDb'[h]] # NoConn /\ tx'[dbConn[txDb'[h]]] = u
    BY <1>3, <1>4 DEF NoStrayTransaction, ConnOf
  <2>1. PICK h \in guards : /\ begun[h] = u /\ txDb[h] # NoDb
                            /\ dbConn[txDb[h]] # NoConn /\ tx[dbConn[txDb[h]]] = u
    BY DEF TxInv, NoStrayTransaction, ConnOf
  <2>2. h \in Guards /\ h # g /\ txDb[h] \in Databases /\ dbConn[txDb[h]] # k
    BY <1>7, <2>1 DEF TxInv, TxTypeOK
  <2>. QED BY <1>3, <1>4, <2>1, <2>2 DEF TxInv, HandlesInv, Types
<1>11. DurableIffCommitReturned' /\ DestructorsAreSafe'
  BY <1>2, <1>3, <1>4, <1>7 DEF TxInv, DurableIffCommitReturned, DestructorsAreSafe
<1>. QED BY <1>1, <1>5, <1>6, <1>8, <1>9, <1>10, <1>11 DEF TxInv

LEMMA DestroyGuardKeeps ==
    ASSUME TxInv, NEW g \in Guards, DestroyGuard(g)
    PROVE  TxInv'
<1>. DEFINE k == ConnOf(txDb[g])
           t == tx[k]
<1>1. HandlesInv' /\ TypeOK' /\ UNCHANGED connVars
  BY QueriedKeeps DEF DestroyGuard, TxInv, Answers
<1>2. /\ k \in Connections /\ tx[k] # 0 /\ sl3db[k] = "open" /\ Ends(k, "rolledback")
      /\ g \in guards /\ txDb[g] # NoDb /\ begun[g] \in TxIds
  BY TransactionsAssumption DEF DestroyGuard, Gone, TxInv, TxTypeOK, HandlesInv, Types, ConnOf, TxIds
<1>3. /\ \A h \in Guards : /\ txDb'[h] = (IF h = g THEN NoDb ELSE txDb[h])
                            /\ begun'[h] = (IF h = g THEN 0 ELSE begun[h])
      /\ guards' = guards \ {g}
      /\ UNCHANGED <<promised, terminated, undefined, refused, breached, dbConn, sl3db>>
  BY <1>1 DEF DestroyGuard, Gone, TxInv, TxTypeOK, endVars, connVars
<1>4. /\ started' = started
      /\ \A l \in Connections : tx'[l] = (IF l = k THEN 0 ELSE tx[l])
      /\ t \in TxIds /\ fate[t] = "active"
      /\ \A u \in TxIds : fate'[u] = (IF u = t THEN "rolledback" ELSE fate[u])
      /\ \A u \in TxIds : fate'[u] = "none" <=> started < u
      /\ Apart'
      /\ tx' \in [Connections -> 0..MaxTx]
      /\ fate' \in [TxIds -> {"none", "active", "committed", "rolledback"}]
      /\ \A l \in Connections : tx'[l] # 0 =>
            l # k /\ tx'[l] = tx[l] /\ sl3db[l] = "open" /\ fate'[tx[l]] = "active"
  <2>. HIDE DEF k
  <2>. QED BY <1>2, EndsOne
<1>5. TxTypeOK'
  BY <1>1, <1>2, <1>3, <1>4, TransactionsAssumption DEF DestroyGuard, Gone, TxInv, TxTypeOK
<1>6. Numbered'
  BY <1>3, <1>4, TransactionsAssumption DEF TxInv, TxTypeOK, Numbered
<1>7. ~breached => t = begun[g]
  BY <1>2 DEF TxInv, Standing
<1>8. Standing'
  <2> SUFFICES ASSUME ~breached, NEW h \in Guards, h # g, txDb[h] # NoDb
               PROVE  dbConn[txDb[h]] # NoConn /\ tx'[dbConn[txDb[h]]] = begun[h]
    BY <1>3 DEF Standing, ConnOf
  <2>1. h \in guards /\ txDb[h] \in Databases /\ dbConn[txDb[h]] # NoConn /\ tx[dbConn[txDb[h]]] = begun[h]
    BY DEF TxInv, TxTypeOK, Standing, ConnOf
  <2>2. dbConn[txDb[h]] # k
    BY <1>2, <1>7, <2>1 DEF TxInv, BegunOnce
  <2>. QED BY <1>4, <2>1, <2>2 DEF TxInv, HandlesInv, Types
<1>9. BegunOnce'
  BY <1>3 DEF TxInv, TxTypeOK, BegunOnce
<1>10. NoStrayTransaction'
  <2> SUFFICES ASSUME ~breached, NEW u \in TxIds, u # t, fate[u] = "active"
               PROVE  \E h \in guards : /\ h # g /\ begun[h] = u /\ txDb[h] # NoDb
                                        /\ dbConn[txDb[h]] # NoConn /\ tx'[dbConn[txDb[h]]] = u
    BY <1>3, <1>4 DEF NoStrayTransaction, ConnOf, TxInv, TxTypeOK
  <2>1. PICK h \in guards : /\ begun[h] = u /\ txDb[h] # NoDb
                            /\ dbConn[txDb[h]] # NoConn /\ tx[dbConn[txDb[h]]] = u
    BY DEF TxInv, NoStrayTransaction, ConnOf
  <2>2. h \in Guards /\ h # g /\ txDb[h] \in Databases /\ dbConn[txDb[h]] # k
    BY <1>7, <2>1 DEF TxInv, TxTypeOK
  <2>. QED BY <1>4, <2>1, <2>2 DEF TxInv, HandlesInv, Types
<1>11. DurableIffCommitReturned' /\ DestructorsAreSafe'
  BY <1>2, <1>3, <1>4, <1>7 DEF TxInv, DurableIffCommitReturned, DestructorsAreSafe
<1>. QED BY <1>1, <1>4, <1>5, <1>6, <1>8, <1>9, <1>10, <1>11 DEF TxInv

\* A guard whose Database is gone, or whose transaction is, has been breached.
LEMMA OnlyBreached ==
    ASSUME TxInv, NEW g \in Guards, DestroyGuardThrows(g) \/ UseDeadDatabase(g)
    PROVE  /\ breached \/ refused'
           /\ UseDeadDatabase(g) => breached
<1>1. ASSUME DestroyGuardThrows(g) PROVE breached \/ refused'
  BY <1>1 DEF DestroyGuardThrows, TxInv, TxTypeOK, HandlesInv, Types, Standing, ConnOf
<1>2. ASSUME UseDeadDatabase(g) PROVE breached
  BY <1>2 DEF UseDeadDatabase, TxInv, Standing
<1>. QED BY <1>1, <1>2

LEMMA DestructorFailureKeeps ==
    ASSUME TxInv, NEW g \in Guards, DestroyGuardThrows(g) \/ UseDeadDatabase(g)
    PROVE  TxInv'
<1>1. breached' = breached
  BY DEF DestroyGuardThrows, UseDeadDatabase
<1>2. HandlesInv' /\ TypeOK'
  BY HandlesKeep DEF DestroyGuardThrows, UseDeadDatabase, TxInv
<1>3. UNCHANGED <<dbConn, sl3db, guards, txDb, begun, tx, fate, started, promised>>
  BY DEF DestroyGuardThrows, UseDeadDatabase, vars, connVars, guardVars, txVars
<1>4. /\ terminated' \in BOOLEAN /\ undefined' \in BOOLEAN /\ refused' \in BOOLEAN
      /\ refused => refused'
  BY DEF DestroyGuardThrows, UseDeadDatabase, TxInv, TxTypeOK
<1>5. TxTypeOK'
  BY <1>1, <1>2, <1>3, <1>4 DEF TxInv, TxTypeOK
<1>6. DestructorsAreSafe'
  <2>1. CASE DestroyGuardThrows(g)
    <3>1. breached => breached'
      BY <1>1, Zenon
    <3>2. undefined' => undefined
      BY <2>1, Zenon DEF DestroyGuardThrows
    <3>3. undefined => breached
      BY DEF TxInv, DestructorsAreSafe
    <3>4. breached \/ refused'
      BY OnlyBreached, Zenon
    <3>. QED BY <3>1, <3>2, <3>3, <3>4, Zenon DEF DestructorsAreSafe
  <2>2. CASE UseDeadDatabase(g)
    BY <1>1, <2>2, OnlyBreached DEF DestructorsAreSafe
  <2>. QED BY <2>1, <2>2
<1>. QED
  BY <1>1, <1>2, <1>3, <1>5, <1>6
     DEF TxInv, Numbered, Apart, Standing, ConnOf, BegunOnce, NoStrayTransaction,
         DurableIffCommitReturned

-----------------------------------------------------------------------------
(* The steps under the guards.                                             *)

LEMMA AutoRollbackKeeps ==
    ASSUME TxInv, NEW k \in Connections, AutoRollback(k)
    PROVE  TxInv'
<1>1. HandlesInv' /\ TypeOK' /\ UNCHANGED connVars
  BY QueriedKeeps DEF AutoRollback, TxInv, Answers
<1>2. /\ started' = started
      /\ \A u \in TxIds : fate'[u] = "none" <=> started < u
      /\ Apart'
      /\ tx' \in [Connections -> 0..MaxTx]
      /\ fate' \in [TxIds -> {"none", "active", "committed", "rolledback"}]
      /\ \A l \in Connections : tx'[l] # 0 =>
            l # k /\ tx'[l] = tx[l] /\ sl3db[l] = "open" /\ fate'[tx[l]] = "active"
  BY EndsOne DEF AutoRollback
<1>3. breached' = TRUE /\ UNCHANGED <<guards, txDb, begun, sl3db, promised, terminated, undefined, refused>>
  BY <1>1 DEF AutoRollback, guardVars, connVars
<1>4. TxTypeOK'
  BY <1>1, <1>2, <1>3 DEF TxInv, TxTypeOK
<1>. QED
  BY <1>1, <1>2, <1>3, <1>4
     DEF TxInv, Numbered, Standing, BegunOnce, NoStrayTransaction,
         DurableIffCommitReturned, DestructorsAreSafe

LEMMA OpenKeeps ==
    ASSUME TxInv, NEW d \in Databases, NEW k \in Connections, Open(d, k)
    PROVE  TxInv'
<1>1. HandlesInv' /\ TypeOK'
  BY HandlesKeep DEF Open, TxInv, Next, DatabaseNext
<1>2. /\ dbConn[d] = NoConn /\ tx[k] = 0
      /\ \A e \in Databases : e # d => dbConn'[e] = dbConn[e]
      /\ \A l \in Connections : l # k => sl3db'[l] = sl3db[l]
  BY DEF Open, OpenDatabase, TxInv, TxTypeOK, HandlesInv, Types
<1>3. UNCHANGED <<guards, txDb, begun, tx, fate, started, promised, terminated, undefined, refused, breached>>
  BY DEF Open, guardVars, txVars, endVars
<1>4. TxTypeOK'
  BY <1>1, <1>2, <1>3 DEF TxInv, TxTypeOK
<1>5. Standing'
  BY <1>2, <1>3 DEF TxInv, TxTypeOK, Standing, ConnOf
<1>6. NoStrayTransaction'
  BY <1>2, <1>3 DEF TxInv, TxTypeOK, NoStrayTransaction, ConnOf
<1>. QED
  BY <1>1, <1>3, <1>4, <1>5, <1>6
     DEF TxInv, Numbered, Apart, BegunOnce, DurableIffCommitReturned, DestructorsAreSafe

\* What a guard points to is noticed when it is moved or closed.
LEMMA BreachIsNoticed ==
    ASSUME TxInv, NEW d \in Databases, breached' = (breached \/ Guarded(d))
    PROVE  /\ breached' \in BOOLEAN /\ (breached => breached')
           /\ ~breached' => ~breached /\ \A g \in Guards : txDb[g] # d
<1>1. \A g \in Guards : txDb[g] = d => g \in guards
  BY TransactionsAssumption DEF TxInv, TxTypeOK
<1>2. ~Guarded(d) => \A g \in Guards : txDb[g] # d
  BY <1>1 DEF Guarded
<1>3. breached \in BOOLEAN
  BY DEF TxInv, TxTypeOK
<1>4. breached' \in BOOLEAN
  BY <1>3, Zenon
<1>5. (breached => breached') /\ (~breached' => ~breached /\ ~Guarded(d))
  BY Zenon
<1>. QED BY <1>2, <1>4, <1>5

LEMMA MoveKeeps ==
    ASSUME TxInv, NEW d \in Databases, NEW e \in Databases, NEW k \in Connections, Move(d, e, k)
    PROVE  TxInv'
<1>1. HandlesInv' /\ TypeOK'
  BY HandlesKeep DEF Move, TxInv, Next, DatabaseNext
<1>2. /\ dbConn[e] = NoConn /\ tx[k] = 0
      /\ \A x \in Databases : x # d /\ x # e => dbConn'[x] = dbConn[x]
      /\ \A l \in Connections : l # k => sl3db'[l] = sl3db[l]
  BY DEF Move, MoveDatabase, TxInv, TxTypeOK, HandlesInv, Types
<1>3. UNCHANGED <<guards, txDb, begun, tx, fate, started, promised, terminated, undefined, refused>>
  BY DEF Move, guardVars, txVars
<1>4. /\ breached' \in BOOLEAN /\ (breached => breached')
      /\ ~breached' => ~breached /\ \A g \in Guards : txDb[g] # d
  BY BreachIsNoticed DEF Move, TxInv, TxTypeOK
<1>5. TxTypeOK'
  BY <1>1, <1>2, <1>3, <1>4 DEF TxInv, TxTypeOK
<1>6. Standing'
  BY <1>2, <1>3, <1>4 DEF TxInv, TxTypeOK, Standing, ConnOf
<1>7. NoStrayTransaction'
  BY <1>2, <1>3, <1>4 DEF TxInv, TxTypeOK, NoStrayTransaction, ConnOf
<1>. QED
  BY <1>1, <1>3, <1>4, <1>5, <1>6, <1>7
     DEF TxInv, Numbered, Apart, BegunOnce, DurableIffCommitReturned, DestructorsAreSafe

LEMMA CloseKeeps ==
    ASSUME TxInv, NEW d \in Databases, Close(d)
    PROVE  TxInv'
<1>. DEFINE k == dbConn[d]
<1>1. HandlesInv' /\ TypeOK'
  BY HandlesKeep DEF Close, TxInv, Next, DatabaseNext
<1>2. /\ k \in Connections
      /\ \A x \in Databases : x # d => dbConn'[x] = dbConn[x]
      /\ \A l \in Connections : l # k /\ sl3db[l] = "open" => sl3db'[l] = "open"
  <2>1. k \in Connections /\ \A x \in Databases : x # d => dbConn'[x] = dbConn[x]
    BY DEF Close, CloseDatabase, Release, TxInv, HandlesInv, Types
  <2>2. OpenSessions' = OpenSessions \ {k}
    BY CloseEndsOne DEF Close, TxInv
  <2>. QED BY <2>1, <2>2 DEF OpenSessions
<1>3. UNCHANGED <<guards, txDb, begun, started, promised, terminated, undefined, refused>>
  BY DEF Close, guardVars, Ends
<1>4. /\ breached' \in BOOLEAN /\ (breached => breached')
      /\ ~breached' => ~breached /\ \A g \in Guards : txDb[g] # d
  BY BreachIsNoticed DEF Close, TxInv, TxTypeOK
<1>5. /\ \A u \in TxIds : fate'[u] = "none" <=> started < u
      /\ Apart'
      /\ tx' \in [Connections -> 0..MaxTx]
      /\ fate' \in [TxIds -> {"none", "active", "committed", "rolledback"}]
      /\ \A l \in Connections : tx'[l] # 0 =>
            l # k /\ tx'[l] = tx[l] /\ sl3db[l] = "open" /\ fate'[tx[l]] = "active"
      /\ \A l \in Connections : l # k => tx'[l] = tx[l]
      /\ \A u \in TxIds : fate'[u] # fate[u] => u = tx[k] /\ fate[u] = "active" /\ fate'[u] = "rolledback"
  <2>1. CASE tx[k] # 0
    <3>1. sl3db[k] = "open" /\ Ends(k, "rolledback")
      BY <1>2, <2>1 DEF Close, ConnOf, TxInv, TxTypeOK
    <3>. HIDE DEF k
    <3>. QED BY <1>2, <2>1, <3>1, EndsOne
  <2>2. CASE tx[k] = 0
    <3>1. tx' = tx /\ fate' = fate
      BY <2>2 DEF Close, ConnOf
    <3>. QED BY <2>2, <3>1 DEF TxInv, TxTypeOK, Numbered, Apart
  <2>. QED BY <2>1, <2>2
<1>6. TxTypeOK'
  BY <1>1, <1>2, <1>3, <1>4, <1>5 DEF TxInv, TxTypeOK
<1>7. ASSUME ~breached', NEW g \in Guards, txDb[g] # NoDb
      PROVE  /\ txDb[g] # d /\ txDb[g] \in Databases
             /\ dbConn'[txDb[g]] = dbConn[txDb[g]] /\ dbConn[txDb[g]] \in Connections
             /\ dbConn[txDb[g]] # k /\ tx'[dbConn[txDb[g]]] = begun[g]
  <2>1. txDb[g] # d /\ txDb[g] \in Databases /\ dbConn'[txDb[g]] = dbConn[txDb[g]]
    BY <1>2, <1>4, <1>7 DEF TxInv, TxTypeOK
  <2>2. dbConn[txDb[g]] # NoConn /\ tx[dbConn[txDb[g]]] = begun[g] /\ begun[g] # 0
    BY <1>4, <1>7 DEF TxInv, TxTypeOK, Standing, ConnOf
  <2>3. dbConn[txDb[g]] # k
    BY <2>1, <2>2, OneDatabase DEF ConnOf
  <2>. QED BY <1>5, <2>1, <2>2, <2>3 DEF TxInv, HandlesInv, Types
<1>8. Standing'
  BY <1>3, <1>7, HandlesAssumption DEF Standing, ConnOf
<1>9. NoStrayTransaction'
  <2> SUFFICES ASSUME ~breached', NEW u \in TxIds, fate'[u] = "active"
               PROVE  \E g \in guards : /\ begun[g] = u /\ txDb[g] # NoDb
                                        /\ dbConn'[txDb[g]] # NoConn /\ tx'[dbConn'[txDb[g]]] = u
    BY <1>3 DEF NoStrayTransaction, ConnOf
  <2>1. PICK g \in guards : begun[g] = u /\ txDb[g] # NoDb
    BY <1>4, <1>5 DEF TxInv, NoStrayTransaction
  <2>. QED BY <1>7, <2>1, HandlesAssumption DEF TxInv, TxTypeOK
<1>10. DurableIffCommitReturned' /\ DestructorsAreSafe'
  BY <1>3, <1>4, <1>5 DEF TxInv, DurableIffCommitReturned, DestructorsAreSafe
<1>. QED
  BY <1>1, <1>3, <1>5, <1>6, <1>8, <1>9, <1>10
     DEF TxInv, Numbered, BegunOnce

-----------------------------------------------------------------------------
(* The invariant, and what it is there for.                                *)

LEMMA TxInvInit == TxInit => TxInv
<1> SUFFICES ASSUME TxInit PROVE TxInv
  OBVIOUS
<1>1. HandlesInv /\ TypeOK
  <2>1. Types
    BY HandlesAssumption DEF TxInit, Init, Types, Ops, Answers
  <2>. QED
    BY <2>1, HandlesAssumption
       DEF HandlesInv, TypeOK, TxInit, Init, Slots, OneOwner, Counted, Referenced, OwnStatement,
           StatementsDieFirst
<1>2. TxTypeOK
  <2>1. 0 \in 0..MaxTx
    BY TransactionsAssumption
  <2>. QED BY <1>1, <2>1 DEF TxInit, TxTypeOK
<1>3. Numbered /\ Apart /\ Standing
  BY TransactionsAssumption DEF TxInit, Numbered, Apart, Standing, TxIds
<1>4. BegunOnce /\ NoStrayTransaction /\ DurableIffCommitReturned /\ DestructorsAreSafe
  BY DEF TxInit, BegunOnce, NoStrayTransaction, DurableIffCommitReturned, DestructorsAreSafe
<1>. QED BY <1>1, <1>2, <1>3, <1>4 DEF TxInv

LEMMA TxInvNext == TxInv /\ [TxNext]_allVars => TxInv'
<1> SUFFICES ASSUME TxInv, [TxNext]_allVars PROVE TxInv'
  OBVIOUS
<1>1. ASSUME NEW g \in Guards, NEW d \in Databases, BeginFails(g, d) PROVE TxInv'
  BY <1>1, QueriedKeeps, QuietKeeps DEF BeginFails, TxInv, Answers
<1>2. ASSUME NEW g \in Guards, CommitThrows(g) PROVE TxInv'
  BY <1>2, QueriedKeeps, QuietKeeps DEF CommitThrows, TxInv, Answers
<1>3. CASE UNCHANGED allVars
  <2>1. HandlesInv'
    BY <1>3, HandlesKeep DEF allVars, TxInv
  <2>. QED BY <1>3, <2>1, QuietKeeps DEF allVars, vars, connVars
<1>4. CASE GuardNext
  BY <1>1, <1>2, <1>4, BeginKeeps, MoveGuardKeeps, CommitReturnsKeeps, DestroyIdleGuardKeeps,
     DestroyGuardKeeps, DestructorFailureKeeps DEF GuardNext
<1>5. CASE TxNext /\ ~GuardNext
  BY <1>5, AutoRollbackKeeps, OpenKeeps, MoveKeeps, CloseKeeps DEF TxNext
<1>. QED BY <1>3, <1>4, <1>5

\* A script leaves the guards alone.
LEMMA ScriptKeeps ==
    ASSUME TxInv, NEW d \in Databases, RunScript(d) \/ RunScriptRefused(d)
    PROVE  TxInv'
BY QueriedKeeps, QuietKeeps DEF RunScript, RunScriptRefused, TxInv, Answers

\* Transactions are counted up, and a breach is not undone.
LEMMA TxGrows ==
    ASSUME TxInv, [TxNext]_allVars
    PROVE  started <= started' /\ (breached => breached')
<1>0. started \in Nat
  BY DEF TxInv, TxTypeOK
<1>1. ASSUME NEW g \in Guards, NEW d \in Databases, BeginTransaction(g, d) \/ BeginFails(g, d)
      PROVE  started <= started' /\ (breached => breached')
  BY <1>0, <1>1 DEF BeginTransaction, BeginFails, txVars, endVars
<1>2. ASSUME NEW g \in Guards, NEW h \in Guards, MoveGuard(g, h)
      PROVE  started <= started' /\ (breached => breached')
  BY <1>0, <1>2 DEF MoveGuard, txVars, endVars
<1>3. ASSUME NEW g \in Guards,
             \/ CommitReturns(g) \/ CommitThrows(g) \/ DestroyIdleGuard(g)
             \/ DestroyGuard(g) \/ DestroyGuardThrows(g) \/ UseDeadDatabase(g)
      PROVE  started <= started' /\ (breached => breached')
  BY <1>0, <1>3 DEF CommitReturns, CommitThrows, DestroyIdleGuard, DestroyGuard, DestroyGuardThrows,
                    UseDeadDatabase, Ends, txVars, endVars
<1>4. ASSUME NEW k \in Connections, AutoRollback(k)
      PROVE  started <= started' /\ (breached => breached')
  BY <1>0, <1>4 DEF AutoRollback, Ends
<1>5. ASSUME NEW d \in Databases, NEW k \in Connections, Open(d, k)
      PROVE  started <= started' /\ (breached => breached')
  BY <1>0, <1>5 DEF Open, txVars, endVars
<1>6. ASSUME NEW d \in Databases, NEW e \in Databases, NEW k \in Connections, Move(d, e, k)
      PROVE  started <= started' /\ (breached => breached')
  BY <1>0, <1>6, BreachIsNoticed DEF Move, txVars
<1>7. ASSUME NEW d \in Databases, Close(d)
      PROVE  started <= started' /\ (breached => breached')
  BY <1>0, <1>7, BreachIsNoticed DEF Close, Ends
<1>8. CASE UNCHANGED allVars
  BY <1>0, <1>8 DEF allVars, txVars, endVars
<1>. QED
  BY <1>1, <1>2, <1>3, <1>4, <1>5, <1>6, <1>7, <1>8 DEF TxNext, GuardNext

\* While nothing is breached, a script runs inside a transaction exactly when a
\* guard for it points to the Database.
LEMMA ScriptUnderItsGuard ==
    ASSUME TxInv, ~breached, NEW d \in Databases, dbConn[d] # NoConn
    PROVE  /\ Write(d).inside \in 0..started
           /\ Write(d).under = IF Write(d).inside = 0 THEN {} ELSE {Write(d).inside}
<1>. DEFINE k == ConnOf(d)
<1>1. k \in Connections /\ tx[k] \in 0..MaxTx
  BY DEF ConnOf, TxInv, TxTypeOK, HandlesInv, Types
<1>2. tx[k] # 0 => tx[k] \in TxIds /\ fate[tx[k]] = "active"
  BY <1>1, TransactionsAssumption DEF TxInv, TxTypeOK, TxIds
<1>3. tx[k] \in 0..started
  BY <1>1, <1>2, TransactionsAssumption DEF TxInv, TxTypeOK, Numbered, TxIds
<1>4. ASSUME NEW g \in GuardsOver(d) PROVE begun[g] = tx[k] /\ tx[k] # 0
  BY <1>4, TransactionsAssumption DEF GuardsOver, ConnOf, TxInv, TxTypeOK, Standing
<1>5. ASSUME tx[k] # 0 PROVE \E g \in GuardsOver(d) : begun[g] = tx[k]
  <2>1. PICK g \in guards : /\ begun[g] = tx[k] /\ txDb[g] # NoDb
                            /\ dbConn[txDb[g]] # NoConn /\ tx[dbConn[txDb[g]]] = tx[k]
    BY <1>2, <1>5 DEF TxInv, NoStrayTransaction, ConnOf
  <2>2. txDb[g] \in Databases /\ dbConn[txDb[g]] \in Connections
    BY <2>1 DEF TxInv, TxTypeOK, HandlesInv, Types
  <2>3. dbConn[txDb[g]] = dbConn[d]
    BY <1>1, <1>5, <2>1, <2>2 DEF TxInv, Apart, ConnOf
  <2>4. txDb[g] = d
    BY <1>5, <2>2, <2>3, OneDatabase
  <2>. QED BY <2>1, <2>4 DEF GuardsOver
<1>6. {begun[g] : g \in GuardsOver(d)} = IF tx[k] = 0 THEN {} ELSE {tx[k]}
  BY <1>4, <1>5
<1>. QED BY <1>3, <1>6 DEF Write

LEMMA WritesKnownNext ==
    ASSUME TxInv, WritesKnown, [WritesNext]_writeVars
    PROVE  TxInv' /\ WritesKnown'
<1>1. CASE [TxNext]_allVars /\ UNCHANGED writes
  <2>1. started \in Nat /\ started' \in Nat /\ TxInv'
    BY <1>1, TxInvNext DEF TxInv, TxTypeOK
  <2>. QED BY <1>1, <2>1, TxGrows DEF WritesKnown
<1>2. ASSUME NEW d \in Databases, RunScript(d) \/ RunScriptRefused(d)
      PROVE  TxInv' /\ WritesKnown'
  <2>1. UNCHANGED <<started, breached>> /\ dbConn[d] # NoConn
    BY <1>2 DEF RunScript, RunScriptRefused, txVars, endVars
  <2>2. writes' \subseteq writes \cup {Write(d)}
    BY <1>2 DEF RunScript, RunScriptRefused
  <2>3. WritesKnown'
    BY <2>1, <2>2, ScriptUnderItsGuard DEF WritesKnown
  <2>. QED BY <1>2, <2>3, ScriptKeeps
<1>. QED BY <1>1, <1>2 DEF WritesNext, writeVars

\* In every reachable state the transactions that are open, the guards that will end
\* them and the Databases these point to belong together one to one, unless a
\* transaction or a Database was taken from under a guard.
THEOREM GuardsHold == WritesSpec => [](TxInv /\ WritesKnown)
<1>1. WritesInit => TxInv /\ WritesKnown
  BY TxInvInit DEF WritesInit, WritesKnown
<1>. QED BY <1>1, WritesKnownNext, PTL DEF WritesSpec

\* Every variable keeps to its type; only a guard whose BEGIN succeeded points to a
\* Database, and only an open connection is in a transaction.
THEOREM TransactionTypes == WritesSpec => []TxTypeOK
BY GuardsHold, PTL DEF TxInv

\* A guard ends the transaction it began and no other guard ends that one, however
\* often guards are moved (Transaction(Transaction&&)) and whatever commit() answered,
\* until a transaction or Database is taken from under a guard.
THEOREM GuardsAreUnique == WritesSpec => []OneGuardPerTransaction
<1>1. TxInv => OneGuardPerTransaction
  <2> SUFFICES ASSUME TxInv, ~breached, NEW g \in guards, txDb[g] # NoDb
               PROVE  /\ Reach(g) = begun[g]
                      /\ \A h \in guards : Reach(h) = begun[g] => h = g
    BY DEF OneGuardPerTransaction
  <2>1. \A h \in guards : txDb[h] # NoDb => Reach(h) = begun[h] /\ begun[h] # 0
    BY DEF TxInv, TxTypeOK, Standing, Reach
  <2>2. \A h \in guards : txDb[h] = NoDb => Reach(h) = 0
    BY DEF Reach
  <2>. QED BY <2>1, <2>2 DEF TxInv, BegunOnce
<1>. QED BY <1>1, GuardsHold, PTL

\* Failing calls of beginTransaction and commit leave no transaction behind that no
\* guard will end.
THEOREM NoTransactionStrays == WritesSpec => []NoStrayTransaction
BY GuardsHold, PTL DEF TxInv

\* What is committed is what Transaction::commit() returned for.
THEOREM CommitsAreAnswered == WritesSpec => []DurableIffCommitReturned
BY GuardsHold, PTL DEF TxInv

\* ~Transaction neither throws nor uses a Database that is gone, unless a transaction
\* or Database was taken from under its guard, or sqlite refuses the ROLLBACK.
THEOREM DestructorsNeedABreach == WritesSpec => []DestructorsAreSafe
BY GuardsHold, PTL DEF TxInv

\* A write made under a guard is kept exactly if that guard's commit() returned, and
\* any other is kept at once (Database::execute in the company of guards).
THEOREM WritesShareTheirGuardsFate == WritesSpec => []WritesFollowTheirGuard
<1>1. TxInv /\ WritesKnown => WritesFollowTheirGuard
  <2> SUFFICES ASSUME TxInv, WritesKnown, ~breached, NEW w \in writes
               PROVE  Durable(w) <=> w.under \subseteq promised
    BY DEF WritesFollowTheirGuard
  <2>1. CASE w.inside = 0
    BY <2>1 DEF WritesKnown, Durable
  <2>2. CASE w.inside # 0
    <3>1. w.inside \in TxIds /\ w.under = {w.inside}
      <4>1. w.inside \in 0..started /\ started \in 0..MaxTx /\ w.under = {w.inside}
        BY <2>2 DEF WritesKnown, TxInv, TxTypeOK
      <4>. QED BY <2>2, <4>1, TransactionsAssumption DEF TxIds
    <3>. QED BY <2>2, <3>1 DEF TxInv, DurableIffCommitReturned, Durable
  <2>. QED BY <2>1, <2>2
<1>. QED BY <1>1, GuardsHold, PTL

-----------------------------------------------------------------------------
(* Who ends the transaction of a guard.                                    *)

LEMMA StandsMeans ==
    ASSUME TxInv, NEW g \in Guards, Stands(g)
    PROVE  /\ g \in guards /\ txDb[g] # NoDb /\ txDb[g] \in Databases
           /\ dbConn[txDb[g]] # NoConn /\ dbConn[txDb[g]] \in Connections
           /\ tx[dbConn[txDb[g]]] = begun[g] /\ begun[g] # 0 /\ begun[g] \in TxIds
<1>1. g \in guards /\ txDb[g] # NoDb /\ txDb[g] \in Databases /\ begun[g] # 0 /\ begun[g] \in 0..MaxTx
  BY DEF Stands, TxInv, TxTypeOK
<1>2. dbConn[txDb[g]] # NoConn /\ tx[dbConn[txDb[g]]] = begun[g]
  BY <1>1 DEF Stands, Reach, ConnOf
<1>. QED BY <1>1, <1>2, TransactionsAssumption DEF TxInv, HandlesInv, Types, TxIds

LEMMA StandsOn ==
    ASSUME NEW g \in Guards, txDb'[g] # NoDb, dbConn'[txDb'[g]] # NoConn,
           tx'[dbConn'[txDb'[g]]] = begun'[g]
    PROVE  Stands(g)'
BY DEF Stands, Reach, ConnOf

\* Nothing is lost where guard, Database and transaction stay as they are.
LEMMA StandsStill ==
    ASSUME TxInv, NEW g \in Guards, Stands(g),
           txDb'[g] = txDb[g], begun'[g] = begun[g],
           dbConn'[txDb[g]] = dbConn[txDb[g]],
           tx'[dbConn[txDb[g]]] = tx[dbConn[txDb[g]]]
    PROVE  Stands(g)'
BY StandsMeans, StandsOn

\* COMMIT or ROLLBACK of guard h.
LEMMA WhoEnds ==
    ASSUME TxInv, NEW g \in Guards, NEW h \in Guards, Stands(g), ~Stands(g)',
           CommitReturns(h) \/ DestroyGuard(h)
    PROVE  LetsGo(g) \/ EndsAnothers(h, begun[g])
<1>. DEFINE k == dbConn[txDb[h]]
<1>1. /\ h \in guards /\ txDb[h] # NoDb /\ txDb[h] \in Databases /\ k # NoConn /\ k \in Connections
      /\ tx[k] # 0 /\ sl3db[k] = "open"
      /\ Ends(k, "committed") \/ Ends(k, "rolledback")
  BY DEF CommitReturns, DestroyGuard, Gone, ConnOf, TxInv, TxTypeOK, HandlesInv, Types
<1>2. /\ UNCHANGED dbConn /\ txDb'[h] = NoDb
      /\ \A x \in Guards : x # h => txDb'[x] = txDb[x] /\ begun'[x] = begun[x]
  BY DEF CommitReturns, DestroyGuard, Gone, Queried, connVars, TxInv, TxTypeOK
<1>3. /\ \A l \in Connections : l # k => tx'[l] = tx[l]
      /\ fate'[tx[k]] # "active"
  <2>. HIDE DEF k
  <2>. QED BY <1>1, EndsOne
<1>4. CASE h = g
  <2>1. tx[k] = begun[g]
    BY <1>4, StandsMeans
  <2>. QED BY <1>2, <1>3, <1>4, <2>1 DEF LetsGo
<1>5. CASE h # g
  <2>1. k = dbConn[txDb[g]]
    BY <1>2, <1>3, <1>5, StandsMeans, StandsStill
  <2>2. Reach(h) = begun[g]
    BY <1>1, <2>1, StandsMeans DEF Reach, ConnOf
  <2>3. begun[h] # begun[g]
    BY <1>1, <1>5, StandsMeans DEF TxInv, BegunOnce
  <2>. QED BY <1>2, <2>2, <2>3 DEF EndsAnothers
<1>. QED BY <1>4, <1>5

LEMMA LossIsExplained ==
    ASSUME TxInv, NEW g \in Guards, Stands(g), ~Stands(g)', [TxNext]_allVars
    PROVE  \/ LetsGo(g)
           \/ dbConn'[txDb[g]] # dbConn[txDb[g]]
           \/ AutoRollback(ConnOf(txDb[g]))
           \/ \E h \in Guards : EndsAnothers(h, begun[g])
<1>0. /\ g \in guards /\ txDb[g] # NoDb /\ txDb[g] \in Databases
      /\ dbConn[txDb[g]] # NoConn /\ dbConn[txDb[g]] \in Connections
      /\ tx[dbConn[txDb[g]]] = begun[g] /\ begun[g] # 0 /\ begun[g] \in TxIds
  BY StandsMeans
<1>1. ASSUME NEW h \in Guards, NEW d \in Databases, BeginTransaction(h, d) PROVE FALSE
  <2>1. h # g /\ UNCHANGED dbConn /\ txDb'[g] = txDb[g] /\ begun'[g] = begun[g]
    BY <1>0, <1>1 DEF BeginTransaction, Queried, connVars, TxInv, TxTypeOK
  <2>2. tx'[dbConn[txDb[g]]] = tx[dbConn[txDb[g]]]
    BY <1>0, <1>1 DEF BeginTransaction, TxInv, TxTypeOK
  <2>. QED BY <2>1, <2>2, StandsStill
<1>2. ASSUME UNCHANGED <<guardVars, tx, connVars>> PROVE FALSE
  BY <1>2, StandsStill DEF guardVars, connVars
<1>3. ASSUME NEW x \in Guards, NEW h \in Guards, MoveGuard(x, h) PROVE LetsGo(g)
  <2>1. /\ h # g /\ UNCHANGED <<dbConn, tx, fate>>
        /\ txDb'[g] = (IF x = g THEN NoDb ELSE txDb[g]) /\ txDb'[h] = txDb[x]
        /\ begun'[g] = (IF x = g THEN 0 ELSE begun[g]) /\ begun'[h] = begun[x]
    BY <1>0, <1>3 DEF MoveGuard, vars, connVars, txVars, TxInv, TxTypeOK
  <2>2. x = g
    BY <2>1, StandsStill
  <2>3. Stands(h)'
    BY <1>0, <2>1, <2>2, StandsOn
  <2>. QED BY <2>1, <2>2, <2>3 DEF LetsGo
<1>4. ASSUME NEW h \in Guards, CommitReturns(h) \/ DestroyGuard(h)
      PROVE  LetsGo(g) \/ EndsAnothers(h, begun[g])
  BY <1>4, WhoEnds
<1>5. ASSUME NEW h \in Guards, DestroyIdleGuard(h) PROVE FALSE
  <2>1. h # g /\ UNCHANGED <<dbConn, tx>> /\ txDb'[g] = txDb[g] /\ begun'[g] = begun[g]
    BY <1>0, <1>5 DEF DestroyIdleGuard, Gone, vars, connVars, txVars, TxInv, TxTypeOK
  <2>. QED BY <2>1, StandsStill
<1>6. CASE GuardNext
  <2>1. ASSUME NEW h \in Guards, NEW d \in Databases, BeginFails(h, d) PROVE FALSE
    BY <1>2, <2>1 DEF BeginFails, Queried, txVars
  <2>2. ASSUME NEW h \in Guards, CommitThrows(h) \/ DestroyGuardThrows(h) \/ UseDeadDatabase(h) PROVE FALSE
    BY <1>2, <2>2 DEF CommitThrows, DestroyGuardThrows, UseDeadDatabase, Queried, vars, connVars, guardVars, txVars
  <2>. QED BY <1>1, <1>3, <1>4, <1>5, <1>6, <2>1, <2>2 DEF GuardNext
<1>7. ASSUME NEW k \in Connections, AutoRollback(k) PROVE AutoRollback(ConnOf(txDb[g]))
  <2>1. UNCHANGED <<dbConn, txDb, begun>>
    BY <1>7 DEF AutoRollback, Queried, connVars, guardVars
  <2>2. \A l \in Connections : l # k => tx'[l] = tx[l]
    BY <1>7, EndsOne DEF AutoRollback
  <2>3. dbConn[txDb[g]] = k
    BY <1>0, <2>1, <2>2, StandsStill
  <2>. QED BY <1>7, <2>3 DEF ConnOf
<1>8. ASSUME NEW d \in Databases, NEW k \in Connections, Open(d, k) PROVE FALSE
  <2>1. UNCHANGED <<txDb, begun, tx>> /\ dbConn'[txDb[g]] = dbConn[txDb[g]]
    BY <1>0, <1>8 DEF Open, OpenDatabase, guardVars, txVars, TxInv, HandlesInv, Types
  <2>. QED BY <2>1, StandsStill
<1>9. ASSUME NEW d \in Databases, NEW e \in Databases, NEW k \in Connections, Move(d, e, k)
      PROVE  dbConn'[txDb[g]] # dbConn[txDb[g]]
  <2>1. UNCHANGED <<txDb, begun, tx>>
    BY <1>9 DEF Move, guardVars, txVars
  <2>. QED BY <2>1, StandsStill
<1>10. ASSUME NEW d \in Databases, Close(d) PROVE dbConn'[txDb[g]] # dbConn[txDb[g]]
  <2>1. UNCHANGED <<txDb, begun>>
    BY <1>10 DEF Close, guardVars
  <2>2. CASE txDb[g] = d
    BY <1>0, <1>10, <2>2 DEF Close, CloseDatabase, Release, TxInv, HandlesInv, Types
  <2>3. CASE txDb[g] # d
    <3>1. dbConn[d] # dbConn[txDb[g]]
      BY <1>0, <2>3, OneDatabase DEF ConnOf
    <3>2. tx'[dbConn[txDb[g]]] = tx[dbConn[txDb[g]]]
      BY <1>0, <1>10, <3>1 DEF Close, Ends, ConnOf, TxInv, TxTypeOK
    <3>. QED BY <2>1, <3>2, StandsStill
  <2>. QED BY <2>2, <2>3
<1>11. CASE UNCHANGED allVars
  BY <1>2, <1>11 DEF allVars, vars, connVars, guardVars, txVars
<1>. QED BY <1>6, <1>7, <1>8, <1>9, <1>10, <1>11 DEF TxNext

\* Whatever was moved, closed or rolled back before, the transaction of a guard is
\* ended by itself, by its Database's move or end, by sqlite, or by another guard
\* that has lost its own (commit and ~Transaction execute on the connection).
THEOREM TransactionsAreTakenByForce == WritesSpec => WhoTakesATransaction
<1>1. ASSUME TxInv, [WritesNext]_writeVars
      PROVE  [\A g \in Guards : Stands(g) /\ ~Stands(g)' =>
                 \/ LetsGo(g)
                 \/ dbConn'[txDb[g]] # dbConn[txDb[g]]
                 \/ AutoRollback(ConnOf(txDb[g]))
                 \/ \E h \in Guards : EndsAnothers(h, begun[g])]_allVars
  <2>1. CASE [TxNext]_allVars
    BY <1>1, <2>1, LossIsExplained
  <2>2. ASSUME NEW d \in Databases, RunScript(d) \/ RunScriptRefused(d), NEW g \in Guards, Stands(g)
        PROVE  Stands(g)'
    BY <1>1, <2>2, StandsStill DEF RunScript, RunScriptRefused, Queried, connVars, guardVars, txVars
  <2>. QED BY <1>1, <2>1, <2>2 DEF WritesNext, writeVars
<1>. QED BY <1>1, GuardsHold, PTL DEF WritesSpec, WhoTakesATransaction

-----------------------------------------------------------------------------
(* Guards implement scopes.                                                *)

\* The scopes that have an owner.
Held == {begun[g] : g \in {h \in guards : txDb[h] # NoDb}}

\* The guard that ends transaction t was the only one to hold it.
LEMMA HeldWithout ==
    ASSUME TxInv, NEW g \in guards, txDb[g] # NoDb,
           \A h \in guards' : h \in guards /\ begun'[h] = begun[h],
           \A h \in guards : h # g /\ txDb[h] # NoDb => h \in guards' /\ txDb'[h] = txDb[h],
           \A h \in guards' : txDb'[h] # NoDb => h # g /\ txDb'[h] = txDb[h]
    PROVE  begun[g] \in Held /\ Held' = Held \ {begun[g]}
BY DEF Held, TxInv, BegunOnce

\* A breach is noticed by the promise, and ends it.
LEMMA BreachEndsPromise ==
    ASSUME breached'
    PROVE  S!Next
BY DEF S!Next

LEMMA GuardStepIsScopeStep ==
    ASSUME TxInv, GuardNext
    PROVE  [S!Next]_<<fate, Held, breached>>
<1>1. ASSUME NEW g \in Guards, NEW d \in Databases, BeginTransaction(g, d)
      PROVE  \E t \in TxIds : UNCHANGED breached /\ S!Enter(t)
  <2>. DEFINE t == started + 1
  <2>1. t \in TxIds /\ fate[t] = "none"
    BY <1>1, TransactionsAssumption DEF BeginTransaction, TxInv, TxTypeOK, Numbered, TxIds
  <2>2. Held' = Held \cup {t}
    BY <1>1, TransactionsAssumption DEF BeginTransaction, Held, TxInv, TxTypeOK
  <2>. QED BY <1>1, <2>1, <2>2 DEF BeginTransaction, endVars, S!Enter, Held
<1>2. ASSUME NEW g \in Guards, NEW h \in Guards, MoveGuard(g, h)
      PROVE  UNCHANGED <<fate, Held, breached>>
  BY <1>2, TransactionsAssumption DEF MoveGuard, Held, txVars, endVars, TxInv, TxTypeOK
<1>3. ASSUME NEW g \in Guards, CommitReturns(g) \/ DestroyGuard(g), ~breached
      PROVE  /\ begun[g] \in TxIds /\ fate[begun[g]] = "active"
             /\ begun[g] \in Held /\ Held' = Held \ {begun[g]}
             /\ \E k \in Connections : tx[k] = begun[g] /\ k = ConnOf(txDb[g])
  <2>1. g \in guards /\ txDb[g] \in Databases /\ txDb[g] # NoDb /\ begun[g] \in TxIds
    BY <1>3, TransactionsAssumption DEF CommitReturns, DestroyGuard, Gone, TxInv, TxTypeOK, TxIds
  <2>2. ConnOf(txDb[g]) \in Connections /\ tx[ConnOf(txDb[g])] = begun[g] /\ begun[g] # 0
    BY <1>3, <2>1 DEF ConnOf, TxInv, TxTypeOK, HandlesInv, Types, Standing
  <2>3. /\ \A h \in guards' : h \in guards /\ begun'[h] = begun[h]
        /\ \A h \in guards : h # g /\ txDb[h] # NoDb => h \in guards' /\ txDb'[h] = txDb[h]
        /\ \A h \in guards' : txDb'[h] # NoDb => h # g /\ txDb'[h] = txDb[h]
    BY <1>3 DEF CommitReturns, DestroyGuard, Gone, TxInv, TxTypeOK
  <2>4. begun[g] \in Held /\ Held' = Held \ {begun[g]}
    BY <2>1, <2>3, HeldWithout
  <2>. QED BY <2>1, <2>2, <2>4 DEF TxInv, TxTypeOK
<1>4. ASSUME NEW g \in Guards, CommitReturns(g), ~breached
      PROVE  \E t \in TxIds : UNCHANGED breached /\ S!Keep(t)
  BY <1>3, <1>4 DEF CommitReturns, Ends, endVars, S!Keep, Held
<1>5. ASSUME NEW g \in Guards, DestroyGuard(g), ~breached
      PROVE  \E t \in TxIds : UNCHANGED breached /\ S!Discard(t)
  BY <1>3, <1>5 DEF DestroyGuard, Ends, endVars, S!Discard, Held
<1>6. ASSUME NEW g \in Guards, CommitReturns(g) \/ DestroyGuard(g), breached
      PROVE  breached'
  BY <1>6 DEF CommitReturns, DestroyGuard, endVars
<1>7. ASSUME NEW g \in Guards, DestroyIdleGuard(g)
      PROVE  UNCHANGED <<fate, Held, breached>>
  BY <1>7 DEF DestroyIdleGuard, Gone, Held, txVars, endVars, TxInv, TxTypeOK
<1>8. ASSUME NEW g \in Guards, NEW d \in Databases,
             BeginFails(g, d) \/ CommitThrows(g) \/ DestroyGuardThrows(g) \/ UseDeadDatabase(g)
      PROVE  UNCHANGED <<fate, Held, breached>>
  BY <1>8 DEF BeginFails, CommitThrows, DestroyGuardThrows, UseDeadDatabase, Held, guardVars, txVars, endVars
<1>9. ASSUME NEW g \in Guards, CommitThrows(g) \/ DestroyGuardThrows(g) \/ UseDeadDatabase(g)
      PROVE  UNCHANGED <<fate, Held, breached>>
  BY <1>9 DEF CommitThrows, DestroyGuardThrows, UseDeadDatabase, Held, guardVars, txVars, endVars
<1>. QED
  <2>1. ASSUME NEW t \in TxIds, UNCHANGED breached, S!Enter(t) \/ S!Keep(t) \/ S!Discard(t) PROVE S!Next
    BY <2>1 DEF S!Next, S!Ids, TxIds
  <2>. HIDE DEF Held
  <2>. QED
    BY <1>1, <1>2, <1>4, <1>5, <1>6, <1>7, <1>8, <1>9, <2>1, BreachEndsPromise DEF GuardNext

LEMMA StepIsScopeStep ==
    ASSUME TxInv, [WritesNext]_writeVars
    PROVE  [S!Next]_(S!vars)
<1>0. S!vars = <<fate, Held, breached>> /\ (S!vars)' = <<fate', Held', breached'>>
  BY DEF S!vars, Held
<1>1. ASSUME NEW k \in Connections, AutoRollback(k) PROVE breached'
  BY <1>1 DEF AutoRollback
<1>2. ASSUME NEW d \in Databases, NEW k \in Connections, Open(d, k)
      PROVE  UNCHANGED <<fate, Held, breached>>
  BY <1>2 DEF Open, Held, guardVars, txVars, endVars
<1>3. ASSUME NEW d \in Databases, NEW e \in Databases, NEW k \in Connections, Move(d, e, k)
      PROVE  breached' \/ UNCHANGED <<fate, Held, breached>>
  <2>1. breached' \/ UNCHANGED breached
    BY <1>3, BreachIsNoticed DEF Move, TxInv, TxTypeOK
  <2>. QED BY <1>3, <2>1 DEF Move, Held, guardVars, txVars
<1>4. ASSUME NEW d \in Databases, Close(d)
      PROVE  breached' \/ UNCHANGED <<fate, Held, breached>>
  <2> SUFFICES ASSUME ~breached' PROVE UNCHANGED <<fate, Held, breached>>
    OBVIOUS
  <2>1. ~breached /\ (\A g \in Guards : txDb[g] # d) /\ breached = breached'
    BY <1>4, BreachIsNoticed DEF Close, TxInv, TxTypeOK
  <2>2. dbConn[d] \in Connections /\ dbConn[d] # NoConn
    BY <1>4 DEF Close, CloseDatabase, TxInv, HandlesInv, Types
  <2>3. ASSUME tx[ConnOf(d)] # 0 PROVE FALSE
    <3>1. tx[dbConn[d]] \in TxIds /\ fate[tx[dbConn[d]]] = "active"
      BY <2>2, <2>3, TransactionsAssumption DEF ConnOf, TxInv, TxTypeOK, TxIds
    <3>2. PICK g \in guards : /\ txDb[g] # NoDb /\ dbConn[txDb[g]] # NoConn
                              /\ tx[dbConn[txDb[g]]] = tx[dbConn[d]]
      BY <2>1, <3>1 DEF TxInv, NoStrayTransaction, ConnOf
    <3>3. txDb[g] \in Databases /\ dbConn[txDb[g]] \in Connections /\ g \in Guards
      BY <3>2 DEF TxInv, TxTypeOK, HandlesInv, Types
    <3>4. dbConn[txDb[g]] = dbConn[d]
      BY <2>2, <2>3, <3>2, <3>3 DEF TxInv, Apart, ConnOf
    <3>5. txDb[g] = d
      BY <2>2, <2>3, <3>3, <3>4, OneDatabase DEF ConnOf
    <3>. QED BY <2>1, <3>3, <3>5
  <2>. QED BY <1>4, <2>1, <2>3 DEF Close, Held, guardVars
<1>5. ASSUME NEW d \in Databases, RunScript(d) \/ RunScriptRefused(d)
      PROVE  UNCHANGED <<fate, Held, breached>>
  BY <1>5 DEF RunScript, RunScriptRefused, Held, guardVars, txVars, endVars
<1>6. CASE UNCHANGED writeVars
  BY <1>6, <1>0 DEF writeVars, allVars, Held, guardVars, txVars, endVars
<1>. QED
  <2>. HIDE DEF Held
  <2>1. CASE breached'
    BY <2>1, BreachEndsPromise
  <2>2. CASE GuardNext
    BY <1>0, <2>2, GuardStepIsScopeStep
  <2>. QED
    BY <1>0, <1>1, <1>2, <1>3, <1>4, <1>5, <1>6, <2>1, <2>2 DEF WritesNext, TxNext

\* Guards, through whatever moves and failing calls, keep the promise of a scope: it
\* has one owner, and ends as its owner ends it.
THEOREM GuardsAreScopes == WritesSpec => ImplementsScopes
<1>1. WritesInit => S!Init
  BY DEF WritesInit, TxInit, S!Init, S!Ids, TxIds
<1>. QED BY <1>1, StepIsScopeStep, GuardsHold, PTL DEF WritesSpec, ImplementsScopes, S!Spec
=============================================================================
