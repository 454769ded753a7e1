----------------------------- MODULE ChatHistory -----------------------------
(***************************************************************************)
(* ChatHistoryStore of src/persistence/chat_history.py on PostgreSQL.      *)
(* append and open_session are one transaction each, of several            *)
(* statements; NOW() is the time the transaction began, rows are seen once *)
(* it commits, and an UPDATE of a session waits for the transaction that   *)
(* updated it before.                                                      *)
(***************************************************************************)
EXTENDS Integers, Sequences, FiniteSets

CONSTANTS
  Writers,      \* processes that call the store
  Sessions,     \* session ids
  MaxMessages,  \* bound: ids of chat_message
  MaxTime       \* bound: times at which a transaction begins

ASSUME ChatAssumption == MaxMessages \in Nat /\ MaxTime \in Nat

VARIABLES
  session,   \* session[s]: last_active, 0: no row
  message,   \* committed rows: [id, session, at, before]; before is history:
             \* the messages of the session that were committed when it began
  nextId,    \* the sequence of chat_message.id
  clock,
  tx,        \* tx[w]: the transaction of w
  toucher    \* history: toucher[s]: what the last transaction to set last_active
             \* saw committed when it began

chatVars == <<session, message, nextId, clock, tx, toucher>>

NoTx == [op |-> "none"]
Waiting(w) == tx[w].op # "none" /\ ~tx[w].touched
Locked(s) == \E w \in Writers : tx[w].op # "none" /\ tx[w].touched /\ tx[w].session = s

ChatInit ==
  /\ session = [s \in Sessions |-> 0]
  /\ message = {}
  /\ nextId = 1
  /\ clock = 1
  /\ tx = [w \in Writers |-> NoTx]
  /\ toucher = [s \in Sessions |-> {}]

-----------------------------------------------------------------------------
CommittedIn(s) == {m.id : m \in {x \in message : x.session = s}}

Begin(w, op, s) ==
  /\ tx[w] = NoTx /\ clock <= MaxTime
  /\ tx' = [tx EXCEPT ![w] = [op |-> op, session |-> s, at |-> clock, id |-> 0,
                              before |-> CommittedIn(s), touched |-> FALSE]]
  /\ UNCHANGED <<session, message, nextId, clock, toucher>>

\* INSERT INTO chat_message: without the session's row it raises, and the
\* transaction is rolled back; the id is used up in any case
InsertMessage(w) ==
  /\ tx[w].op = "append" /\ tx[w].id = 0 /\ nextId <= MaxMessages
  /\ nextId' = nextId + 1
  /\ tx' = [tx EXCEPT ![w] = IF session[@.session] = 0 THEN NoTx
                             ELSE [@ EXCEPT !.id = nextId]]
  /\ UNCHANGED <<session, message, clock, toucher>>

\* append's UPDATE of last_active, open_session's INSERT ... ON CONFLICT
Touch(w) ==
  /\ Waiting(w) /\ (tx[w].op = "append" => tx[w].id # 0)
  /\ ~Locked(tx[w].session)
  /\ tx' = [tx EXCEPT ![w].touched = TRUE]
  /\ UNCHANGED <<session, message, nextId, clock, toucher>>

\* Mutant: the later of the two times is not the row's
KeepLastActive(old, at) == IF old = 0 THEN at ELSE old

\* SET last_active = NOW()
LastActive(old, at) == at

\* A commit takes time: what begins after it begins later
Commit(w) ==
  /\ tx[w].op # "none" /\ tx[w].touched
  /\ LET t == tx[w] IN
       /\ session' = [session EXCEPT ![t.session] = LastActive(@, t.at)]
       /\ toucher' = [toucher EXCEPT ![t.session] = t.before]
       /\ message' = IF t.op = "append"
                     THEN message \cup {[id |-> t.id, session |-> t.session,
                                         at |-> t.at, before |-> t.before]}
                     ELSE message
  /\ clock' = clock + 1
  /\ tx' = [tx EXCEPT ![w] = NoTx]
  /\ UNCHANGED nextId

\* The connection is lost before the commit
Rollback(w) ==
  /\ tx[w].op # "none"
  /\ tx' = [tx EXCEPT ![w] = NoTx]
  /\ UNCHANGED <<session, message, nextId, clock, toucher>>

ChatNext ==
  \E w \in Writers :
    \/ \E op \in {"open_session", "append"}, s \in Sessions : Begin(w, op, s)
    \/ InsertMessage(w) \/ Touch(w) \/ Commit(w) \/ Rollback(w)

ChatSpec == ChatInit /\ [][ChatNext]_chatVars

-----------------------------------------------------------------------------
(* recent: the windows ORDER BY created_at DESC LIMIT may give, reversed.  *)

\* Mutant: the oldest rows, in ascending order
RecentOldest(s, limit) ==
  LET rows == {m \in message : m.session = s} IN
  {W \in SUBSET rows :
     /\ Cardinality(W) = IF Cardinality(rows) < limit THEN Cardinality(rows) ELSE limit
     /\ \A a \in W, b \in rows \ W : a.at <= b.at}

\* The sets of rows in the window
RecentRows(s, limit) ==
  LET rows == {m \in message : m.session = s} IN
  {W \in SUBSET rows :
     /\ Cardinality(W) = IF Cardinality(rows) < limit THEN Cardinality(rows) ELSE limit
     /\ \A a \in W, b \in rows \ W : a.at >= b.at}

\* In the answer a may precede b
MayPrecede(a, b) == a.at <= b.at

\* A message that was appended after another had been is never shown before it,
\* and no window shows the other without it: messages of overlapping appends
\* may be in any order and may show up behind ones already read (append, recent).
RecentIsCausal ==
  \A s \in Sessions, limit \in 1..MaxMessages : \A W \in RecentRows(s, limit) :
    \A a, b \in message :
      a.session = s /\ b.session = s /\ a.id \in b.before =>
        /\ a \in W => b \in W
        /\ ~MayPrecede(b, a)

\* last_active is not before a message of the session, but for those that
\* overlap the last transaction that set it: it may go back by an overlap, and
\* never further (append, open_session).
LastActiveCovers ==
  \A m \in message : m.id \in toucher[m.session] => session[m.session] > m.at
=============================================================================
