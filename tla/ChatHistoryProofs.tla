-------------------------- MODULE ChatHistoryProofs --------------------------
(***************************************************************************)
(* Proofs about ChatHistory: an inductive invariant, ChatInv, and the two  *)
(* promises of the store, LastActiveCovers and RecentIsCausal.             *)
(***************************************************************************)
EXTENDS ChatHistory, TLAPS

Tx == [op : {"open_session", "append"}, session : Sessions, at : Nat, id : Nat,
       before : SUBSET Nat, touched : BOOLEAN]
MessageRow == [id : Nat, session : Sessions, at : Nat, before : SUBSET Nat]

Active(w) == tx[w].op # "none"

\* Every id of ids is a message of s that was written before the time at
Earlier(ids, s, at) ==
  \A i \in ids : \E m \in message : m.id = i /\ m.session = s /\ m.at < at

ChatTypeOK ==
  /\ session \in [Sessions -> Nat]
  /\ message \subseteq MessageRow
  /\ nextId \in Nat \ {0}
  /\ clock \in Nat \ {0}
  /\ tx \in [Writers -> Tx \cup {NoTx}]
  /\ toucher \in [Sessions -> SUBSET Nat]

\* A committed row began before now, has an id of its own, and what it saw is older
MessageInv ==
  /\ \A m \in message : /\ 0 < m.id /\ m.id < nextId
                        /\ m.at < clock
                        /\ Earlier(m.before, m.session, m.at)
  /\ \A a, b \in message : a.id = b.id => a = b

\* An open transaction began by now, saw what is older, and has an id without a row
TxOK(t) ==
  /\ t.at <= clock
  /\ t.id < nextId
  /\ \A m \in message : m.id # t.id
  /\ Earlier(t.before, t.session, t.at)
  /\ t.op = "append" /\ t.touched => t.id # 0

\* The id of an open transaction is nobody else's
TxInv ==
  /\ \A w \in Writers : Active(w) => TxOK(tx[w])
  /\ \A v, w \in Writers : Active(v) /\ Active(w) /\ tx[v].id # 0 /\ tx[v].id = tx[w].id
                             => v = w

TouchInv == \A s \in Sessions : Earlier(toucher[s], s, session[s])

ChatInv == ChatTypeOK /\ MessageInv /\ TxInv /\ TouchInv

-----------------------------------------------------------------------------
\* A transaction that is open is a record with all its fields
LEMMA ActiveIsTx ==
  ASSUME ChatTypeOK, NEW w \in Writers, Active(w)
  PROVE  tx[w] \in Tx
BY DEF ChatTypeOK, Active, NoTx

LEMMA TxFields ==
  ASSUME NEW t \in Tx
  PROVE  /\ t.op \in {"open_session", "append"} /\ t.op # "none"
         /\ t.session \in Sessions /\ t.at \in Nat /\ t.id \in Nat
         /\ t.before \in SUBSET Nat /\ t.touched \in BOOLEAN
BY DEF Tx

\* Before the first transaction
LEMMA InitInv == ChatInit => ChatInv
BY DEF ChatInit, ChatInv, ChatTypeOK, MessageInv, TxInv, TxOK, TouchInv, Active, NoTx, Earlier

\* What was earlier stays so while rows are only added
LEMMA EarlierKept ==
  ASSUME NEW ids, NEW s, NEW at, Earlier(ids, s, at), message \subseteq message'
  PROVE  Earlier(ids, s, at)'
BY DEF Earlier

LEMMA BeginInv ==
  ASSUME ChatInv, NEW w \in Writers, NEW op \in {"open_session", "append"},
         NEW s \in Sessions, Begin(w, op, s)
  PROVE  ChatInv'
<1> DEFINE t == [op |-> op, session |-> s, at |-> clock, id |-> 0,
                 before |-> CommittedIn(s), touched |-> FALSE]
<1>1. /\ tx' = [tx EXCEPT ![w] = t] /\ tx[w] = NoTx
      /\ UNCHANGED <<session, message, nextId, clock, toucher>>
  BY DEF Begin
<1>2. CommittedIn(s) \in SUBSET Nat
  BY DEF CommittedIn, ChatInv, ChatTypeOK, MessageRow
<1>3. t \in Tx
  BY <1>2 DEF Tx, ChatInv, ChatTypeOK
<1>4. ChatTypeOK'
  BY <1>1, <1>3 DEF ChatInv, ChatTypeOK
<1>5. MessageInv'
  BY <1>1 DEF ChatInv, MessageInv, Earlier
<1>6. TouchInv'
  BY <1>1 DEF ChatInv, TouchInv, Earlier
<1>7. Earlier(CommittedIn(s), s, clock)
  BY DEF Earlier, CommittedIn, ChatInv, MessageInv
<1>8. tx'[w] = t /\ \A v \in Writers \ {w} : tx'[v] = tx[v]
  BY <1>1 DEF ChatInv, ChatTypeOK
<1>9. ASSUME NEW v \in Writers, Active(v)'
      PROVE  TxOK(tx[v])'
  <2>1. CASE v = w
    <3>1. t.at = clock /\ t.id = 0 /\ t.before = CommittedIn(s) /\ t.session = s
          /\ t.touched = FALSE
      OBVIOUS
    <3>2. /\ t.at <= clock /\ t.id < nextId /\ \A m \in message : m.id # t.id
          /\ Earlier(t.before, t.session, t.at)
      BY <1>7, <3>1 DEF ChatInv, ChatTypeOK, MessageInv, MessageRow
    <3> HIDE DEF t
    <3> QED BY <1>1, <1>8, <2>1, <3>1, <3>2 DEF TxOK, Earlier
  <2>2. CASE v # w
    BY <1>1, <1>8, <1>9, <2>2 DEF ChatInv, TxInv, TxOK, Active, Earlier
  <2> QED BY <2>1, <2>2
<1>10. \A v, u \in Writers :
         (Active(v) /\ Active(u) /\ tx[v].id # 0 /\ tx[v].id = tx[u].id)' => v = u
  <2>1. t.id = 0
    OBVIOUS
  <2> QED BY <1>8, <2>1 DEF ChatInv, TxInv, Active
<1> QED BY <1>4, <1>5, <1>6, <1>9, <1>10 DEF ChatInv, TxInv

\* A transaction that ends without a trace
LEMMA DropInv ==
  ASSUME ChatInv, NEW w \in Writers, tx' = [tx EXCEPT ![w] = NoTx],
         nextId' \in {nextId, nextId + 1}, UNCHANGED <<session, message, clock, toucher>>
  PROVE  ChatInv'
<1>1. tx'[w] = NoTx /\ \A v \in Writers \ {w} : tx'[v] = tx[v]
  BY DEF ChatInv, ChatTypeOK
<1>2. ChatTypeOK'
  BY DEF ChatInv, ChatTypeOK
<1>3. MessageInv'
  BY DEF ChatInv, ChatTypeOK, MessageInv, MessageRow, Earlier
<1>4. TouchInv'
  BY DEF ChatInv, TouchInv, Earlier
<1>5. \A v \in Writers : Active(v)' => v # w /\ Active(v) /\ tx'[v] = tx[v]
  BY <1>1 DEF Active, NoTx
<1>6. \A v \in Writers : Active(v) => tx[v].id \in Nat
  BY ActiveIsTx, TxFields DEF ChatInv
<1>7. TxInv'
  <2>1. ASSUME NEW v \in Writers, Active(v)'
        PROVE  TxOK(tx[v])'
    BY <1>5, <1>6, <2>1 DEF ChatInv, ChatTypeOK, TxInv, TxOK, Earlier
  <2> QED BY <1>5, <2>1 DEF ChatInv, TxInv
<1> QED BY <1>2, <1>3, <1>4, <1>7 DEF ChatInv

\* append draws the next id, which no row and no transaction has
LEMMA InsertInv ==
  ASSUME ChatInv, NEW w \in Writers, InsertMessage(w)
  PROVE  ChatInv'
<1> DEFINE t == [tx[w] EXCEPT !.id = nextId]
<1>1. CASE session[tx[w].session] = 0
  BY <1>1, DropInv DEF InsertMessage
<1>2. CASE session[tx[w].session] # 0
  <2>1. /\ tx' = [tx EXCEPT ![w] = t] /\ nextId' = nextId + 1 /\ tx[w].op = "append"
        /\ tx[w].id = 0 /\ UNCHANGED <<session, message, clock, toucher>>
    BY <1>2 DEF InsertMessage
  <2>2. Active(w) /\ tx[w] \in Tx
    BY <2>1, ActiveIsTx DEF ChatInv, Active
  <2>3. /\ t \in Tx /\ t.id = nextId /\ t.op = tx[w].op /\ t.session = tx[w].session
        /\ t.at = tx[w].at /\ t.before = tx[w].before /\ t.touched = tx[w].touched
    BY <2>2 DEF Tx, ChatInv, ChatTypeOK
  <2>4. tx'[w] = t /\ \A v \in Writers \ {w} : tx'[v] = tx[v]
    BY <2>1 DEF ChatInv, ChatTypeOK
  <2>5. ChatTypeOK'
    BY <2>1, <2>3 DEF ChatInv, ChatTypeOK
  <2>6. MessageInv'
    BY <2>1 DEF ChatInv, ChatTypeOK, MessageInv, MessageRow, Earlier
  <2>7. TouchInv'
    BY <2>1 DEF ChatInv, TouchInv, Earlier
  <2>8. \A v \in Writers : Active(v) => tx[v].id \in Nat /\ tx[v].id < nextId
    BY ActiveIsTx, TxFields DEF ChatInv, TxInv, TxOK
  <2>9. ASSUME NEW v \in Writers, Active(v)'
        PROVE  TxOK(tx[v])'
    <3>1. CASE v = w
      <4>1. \A m \in message : m.id # nextId
        BY DEF ChatInv, ChatTypeOK, MessageInv, MessageRow
      <4>2. nextId # 0 /\ nextId < nextId + 1
        BY DEF ChatInv, ChatTypeOK
      <4>3. tx[w].at <= clock /\ Earlier(tx[w].before, tx[w].session, tx[w].at)
        BY <2>2 DEF ChatInv, TxInv, TxOK
      <4>4. /\ t.at <= clock /\ t.id < nextId + 1 /\ \A m \in message : m.id # t.id
            /\ Earlier(t.before, t.session, t.at) /\ t.id # 0
        BY <2>3, <4>1, <4>2, <4>3
      <4> HIDE DEF t
      <4> QED BY <2>1, <2>4, <3>1, <4>4 DEF TxOK, Earlier
    <3>2. CASE v # w
      <4>1. Active(v) /\ tx'[v] = tx[v]
        BY <2>4, <2>9, <3>2 DEF Active
      <4>2. TxOK(tx[v]) /\ tx[v].id < nextId + 1
        BY <2>8, <4>1 DEF ChatInv, ChatTypeOK, TxInv
      <4> HIDE DEF t
      <4> QED BY <2>1, <4>1, <4>2 DEF TxOK, Earlier
    <3> QED BY <3>1, <3>2
  <2>10. \A v, u \in Writers :
           (Active(v) /\ Active(u) /\ tx[v].id # 0 /\ tx[v].id = tx[u].id)' => v = u
    <3>1. \A v \in Writers \ {w} : Active(v)' => /\ Active(v)
                                              /\ tx'[v].id = tx[v].id
                                              /\ tx'[v].id # nextId
      BY <2>4, <2>8 DEF ChatInv, ChatTypeOK, Active
    <3>2. tx'[w].id = nextId
      BY <2>3, <2>4
    <3> HIDE DEF t
    <3> QED BY <3>1, <3>2 DEF ChatInv, TxInv
  <2> QED BY <2>5, <2>6, <2>7, <2>9, <2>10 DEF ChatInv, TxInv
<1> QED BY <1>1, <1>2

LEMMA TouchKeepsInv ==
  ASSUME ChatInv, NEW w \in Writers, Touch(w)
  PROVE  ChatInv'
<1> DEFINE t == [tx[w] EXCEPT !.touched = TRUE]
<1>1. /\ tx' = [tx EXCEPT ![w] = t] /\ Active(w)
      /\ tx[w].op = "append" => tx[w].id # 0
      /\ UNCHANGED <<session, message, nextId, clock, toucher>>
  BY DEF Touch, Waiting, Active
<1>2. tx[w] \in Tx
  BY <1>1, ActiveIsTx DEF ChatInv
<1>3. /\ t \in Tx /\ t.id = tx[w].id /\ t.op = tx[w].op /\ t.session = tx[w].session
      /\ t.at = tx[w].at /\ t.before = tx[w].before
  BY <1>2 DEF Tx
<1>4. tx'[w] = t /\ \A v \in Writers \ {w} : tx'[v] = tx[v]
  BY <1>1 DEF ChatInv, ChatTypeOK
<1>5. ChatTypeOK'
  BY <1>1, <1>3 DEF ChatInv, ChatTypeOK
<1>6. MessageInv'
  BY <1>1 DEF ChatInv, MessageInv, Earlier
<1>7. TouchInv'
  BY <1>1 DEF ChatInv, TouchInv, Earlier
<1>8. \A v \in Writers :
        /\ Active(v)' => Active(v)
        /\ tx'[v].id = tx[v].id /\ tx'[v].session = tx[v].session
        /\ tx'[v].at = tx[v].at /\ tx'[v].before = tx[v].before /\ tx'[v].op = tx[v].op
        /\ v # w => tx'[v].touched = tx[v].touched
  BY <1>3, <1>4 DEF Active
<1>9. ASSUME NEW v \in Writers, Active(v)'
      PROVE  TxOK(tx[v])'
  <2>1. /\ Active(v) /\ TxOK(tx[v])
        /\ v = w => (tx[v].op = "append" => tx[v].id # 0)
    BY <1>1, <1>8, <1>9 DEF ChatInv, TxInv
  <2> HIDE DEF t
  <2> QED BY <1>1, <1>8, <2>1 DEF TxOK, Earlier
<1>10. \A v, u \in Writers :
         (Active(v) /\ Active(u) /\ tx[v].id # 0 /\ tx[v].id = tx[u].id)' => v = u
  BY <1>8 DEF ChatInv, TxInv
<1> QED BY <1>5, <1>6, <1>7, <1>9, <1>10 DEF ChatInv, TxInv

\* The row that is added is older than now, newer than what it saw, and new
LEMMA CommitInv ==
  ASSUME ChatInv, NEW w \in Writers, Commit(w)
  PROVE  ChatInv'
<1> DEFINE t == tx[w]
           row == [id |-> t.id, session |-> t.session, at |-> t.at, before |-> t.before]
<1>1. /\ Active(w) /\ t.touched
      /\ session' = [session EXCEPT ![t.session] = t.at]
      /\ toucher' = [toucher EXCEPT ![t.session] = t.before]
      /\ message' = IF t.op = "append" THEN message \cup {row} ELSE message
      /\ clock' = clock + 1 /\ tx' = [tx EXCEPT ![w] = NoTx] /\ nextId' = nextId
  BY DEF Commit, LastActive, Active
<1>2. /\ t \in Tx /\ t.session \in Sessions /\ t.at \in Nat /\ t.id \in Nat
      /\ t.before \in SUBSET Nat
  BY <1>1, ActiveIsTx, TxFields DEF ChatInv
<1>3. /\ t.at <= clock /\ t.id < nextId
      /\ \A m \in message : m.id # t.id
      /\ Earlier(t.before, t.session, t.at)
      /\ t.op = "append" => t.id # 0
  BY <1>1 DEF ChatInv, TxInv, TxOK
<1>4. /\ row \in MessageRow /\ row.id = t.id /\ row.session = t.session /\ row.at = t.at
      /\ row.before = t.before
  BY <1>2 DEF MessageRow
<1>5. message \subseteq message' /\ \A m \in message' : m \in message \/ (m = row /\ t.op = "append")
  BY <1>1
<1> HIDE DEF row
<1>6. ChatTypeOK'
  <2>1. message' \subseteq MessageRow
    BY <1>4, <1>5 DEF ChatInv, ChatTypeOK
  <2> QED BY <1>1, <1>2, <2>1 DEF ChatInv, ChatTypeOK
<1>7. MessageInv'
  <2>1. ASSUME NEW m \in message'
        PROVE  /\ 0 < m.id /\ m.id < nextId'
               /\ m.at < clock'
               /\ Earlier(m.before, m.session, m.at)'
    <3>1. CASE m \in message
      <4>1. Earlier(m.before, m.session, m.at)'
        BY <1>5, <3>1, EarlierKept DEF ChatInv, MessageInv
      <4>2. m.at \in Nat /\ clock \in Nat
        BY <3>1 DEF ChatInv, ChatTypeOK, MessageRow
      <4>3. 0 < m.id /\ m.id < nextId /\ m.at < clock
        BY <3>1 DEF ChatInv, MessageInv
      <4> QED BY <1>1, <4>1, <4>2, <4>3
    <3>2. CASE m = row /\ t.op = "append"
      <4>1. Earlier(row.before, row.session, row.at)
        BY <1>3, <1>4
      <4>2. Earlier(m.before, m.session, m.at)'
        BY <1>5, <3>2, <4>1, EarlierKept
      <4>3. clock \in Nat /\ m.id = t.id /\ m.at = t.at
        BY <1>4, <3>2 DEF ChatInv, ChatTypeOK
      <4> HIDE DEF t
      <4> QED BY <1>1, <1>2, <1>3, <3>2, <4>2, <4>3
    <3> QED BY <1>5, <3>1, <3>2
  <2>2. \A a, b \in message' : a.id = b.id => a = b
    BY <1>3, <1>4, <1>5 DEF ChatInv, MessageInv
  <2> QED BY <2>1, <2>2 DEF MessageInv
<1>8. tx'[w] = NoTx /\ \A v \in Writers \ {w} : tx'[v] = tx[v]
  BY <1>1 DEF ChatInv, ChatTypeOK
<1>9. \A v \in Writers : Active(v)' => v # w /\ Active(v) /\ tx'[v] = tx[v]
  BY <1>8 DEF Active, NoTx
<1>10. TxInv'
  <2>1. ASSUME NEW v \in Writers, Active(v)'
        PROVE  TxOK(tx[v])'
    <3>1. v # w /\ Active(v) /\ tx'[v] = tx[v]
      BY <1>9, <2>1
    <3>2. tx[v].at \in Nat /\ clock \in Nat
      BY <3>1, ActiveIsTx, TxFields DEF ChatInv, ChatTypeOK
    <3>3. t.op = "append" => tx[v].id # row.id
      BY <1>1, <1>3, <1>4, <3>1 DEF ChatInv, TxInv
    <3>4. TxOK(tx[v])
      BY <3>1 DEF ChatInv, TxInv
    <3>5. Earlier(tx[v].before, tx[v].session, tx[v].at)'
      BY <1>5, <3>1, <3>4 DEF TxOK, Earlier
    <3>6. \A m \in message' : m.id # tx[v].id
      BY <1>5, <3>3, <3>4 DEF TxOK
    <3> QED BY <1>1, <3>1, <3>2, <3>4, <3>5, <3>6 DEF TxOK
  <2>2. \A v, u \in Writers :
          (Active(v) /\ Active(u) /\ tx[v].id # 0 /\ tx[v].id = tx[u].id)' => v = u
    BY <1>9 DEF ChatInv, TxInv
  <2> QED BY <2>1, <2>2 DEF TxInv
<1>11. TouchInv'
  <2>1. ASSUME NEW s \in Sessions
        PROVE  Earlier(toucher[s], s, session[s])'
    <3>1. CASE s = t.session
      <4>1. toucher'[s] = t.before /\ session'[s] = t.at
        BY <1>1, <3>1 DEF ChatInv, ChatTypeOK
      <4> QED BY <1>3, <1>5, <3>1, <4>1 DEF Earlier
    <3>2. CASE s # t.session
      <4>1. toucher'[s] = toucher[s] /\ session'[s] = session[s]
        BY <1>1, <3>2 DEF ChatInv, ChatTypeOK
      <4> QED BY <1>5, <4>1 DEF ChatInv, TouchInv, Earlier
    <3> QED BY <3>1, <3>2
  <2> QED BY <2>1 DEF TouchInv
<1> QED BY <1>6, <1>7, <1>10, <1>11 DEF ChatInv

LEMMA NextInv == ChatInv /\ [ChatNext]_chatVars => ChatInv'
<1> SUFFICES ASSUME ChatInv, [ChatNext]_chatVars PROVE ChatInv'
  OBVIOUS
<1>1. CASE UNCHANGED chatVars
  BY <1>1 DEF chatVars, ChatInv, ChatTypeOK, MessageInv, TxInv, TxOK,
              TouchInv, Active, Earlier
<1>2. CASE ChatNext
  <2> PICK w \in Writers :
        \/ \E op \in {"open_session", "append"}, s \in Sessions : Begin(w, op, s)
        \/ InsertMessage(w) \/ Touch(w) \/ Commit(w) \/ Rollback(w)
    BY <1>2 DEF ChatNext
  <2>1. CASE \E op \in {"open_session", "append"}, s \in Sessions : Begin(w, op, s)
    BY <2>1, BeginInv
  <2>2. CASE InsertMessage(w)
    BY <2>2, InsertInv
  <2>3. CASE Touch(w)
    BY <2>3, TouchKeepsInv
  <2>4. CASE Commit(w)
    BY <2>4, CommitInv
  <2>5. CASE Rollback(w)
    BY <2>5, DropInv DEF Rollback
  <2> QED BY <2>1, <2>2, <2>3, <2>4, <2>5
<1> QED BY <1>1, <1>2

-----------------------------------------------------------------------------
\* The inductive invariant holds in every reachable state, for any number of
\* writers, sessions and messages (ChatHistoryStore).
THEOREM ChatInvariance == ChatSpec => []ChatInv
BY InitInv, NextInv, PTL DEF ChatSpec

\* A message that another transaction saw is older than it
LEMMA SeenIsOlder ==
  ASSUME ChatInv, NEW a \in message, NEW ids, NEW s, NEW at,
         Earlier(ids, s, at), a.id \in ids
  PROVE  a.at < at
BY DEF ChatInv, MessageInv, Earlier

\* last_active is after every message that the transaction which set it last had
\* seen: overlapping appends may move it back, and by no more than the overlap.
THEOREM LastActiveIsCovered == ChatSpec => []LastActiveCovers
<1>1. ChatInv => LastActiveCovers
  <2> SUFFICES ASSUME ChatInv, NEW m \in message, m.id \in toucher[m.session]
               PROVE  session[m.session] > m.at
    BY DEF LastActiveCovers
  <2>1. m.session \in Sessions /\ m.at \in Nat /\ session[m.session] \in Nat
    BY DEF ChatInv, ChatTypeOK, MessageRow
  <2>2. m.at < session[m.session]
    BY <2>1, SeenIsOlder DEF ChatInv, TouchInv
  <2> QED BY <2>1, <2>2
<1> QED BY <1>1, ChatInvariance, PTL

\* recent never shows a message before one that was committed when it was
\* appended, and never drops the newer of two such messages for the older.
THEOREM RecentRespectsCausality == ChatSpec => []RecentIsCausal
<1>1. ChatInv => RecentIsCausal
  <2> SUFFICES ASSUME ChatInv, NEW s \in Sessions, NEW limit \in 1..MaxMessages,
                      NEW W \in RecentRows(s, limit), NEW a \in message, NEW b \in message,
                      a.session = s, b.session = s, a.id \in b.before
               PROVE  (a \in W => b \in W) /\ ~MayPrecede(b, a)
    BY DEF RecentIsCausal
  <2>1. a.at \in Nat /\ b.at \in Nat
    BY DEF ChatInv, ChatTypeOK, MessageRow
  <2>2. a.at < b.at
    BY SeenIsOlder DEF ChatInv, MessageInv
  <2>3. a \in W => b \in W
    BY <2>1, <2>2 DEF RecentRows
  <2> QED BY <2>1, <2>2, <2>3 DEF MayPrecede
<1> QED BY <1>1, ChatInvariance, PTL
=============================================================================
