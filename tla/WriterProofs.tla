---------------------------- MODULE WriterProofs ----------------------------
(***************************************************************************)
(* Theorems about Writer, for every value of its constants: the state is   *)
(* well typed, nothing is acknowledged before it is stored, and the writer *)
(* implements AtLeastOnce.                                                 *)
(***************************************************************************)
EXTENDS Writer, TLAPS

(* Entries the group was never given are in no pending list, and the stream  *)
(* has not been trimmed past its end.                                        *)
PendingIsDelivered ==
    /\ \A c \in Consumers : pel[c] \subseteq 1 .. lastId
    /\ first <= Len(stream) + 1

(* What the process is writing or about to acknowledge is pending under its  *)
(* own name: it never works on a batch that another run has settled          *)
(* (writer.py:28, 82, 106).                                                  *)
BatchIsPending == batch \subseteq pel[name]

(* What could not be decoded had been trimmed. *)
UndecodedIsTrimmed == \A i \in batch \ decoded : i < first

(* The XACK in hand comes after the commit. *)
AckFollowsCommit == pc = "ack" => BatchRows \subseteq rows

IInv ==
    /\ TypeOK
    /\ PendingIsDelivered
    /\ SettledIsStored
    /\ BatchIsPending
    /\ UndecodedIsTrimmed
    /\ AckFollowsCommit

-----------------------------------------------------------------------------
(* Trimming moves the first id forward, at most to the newest entry. *)
LEMMA TrimmedFirstBounds ==
    ASSUME NEW f \in Nat \ {0}, NEW len \in Nat, NEW n \in Nat \ {0},
           f <= len, NEW g \in TrimmedFirst(f, len, n)
    PROVE  /\ g \in Nat \ {0}
           /\ f <= g
           /\ g <= len
  BY DEF TrimmedFirst

(* What XREADGROUP '>' returns are new ids of the stream, none trimmed. *)
LEMMA UndeliveredBounds ==
    ASSUME NEW l \in Nat, NEW f \in Nat \ {0}, NEW len \in Nat,
           NEW n \in Nat \ {0}, NEW i \in Undelivered(l, f, len, n)
    PROVE  /\ i \in Nat
           /\ l < i
           /\ f <= i
           /\ i <= len
  BY DEF Undelivered

(* It leaves no gap but what was trimmed. *)
LEMMA UndeliveredSkipsTrimmed ==
    ASSUME NEW l \in Nat, NEW f \in Nat \ {0}, NEW len \in Nat,
           NEW n \in Nat \ {0}, NEW last \in Undelivered(l, f, len, n),
           \A i \in Undelivered(l, f, len, n) : i <= last,
           NEW k \in (l + 1) .. last, k \notin Undelivered(l, f, len, n)
    PROVE  k < f
  BY DEF Undelivered

(* The entries one delivery adds to those settled were trimmed already. *)
LEMMA DeliverSettles ==
    ASSUME IInv, Deliver
    PROVE  /\ Settled \subseteq Settled'
           /\ \A i \in Settled' \ Settled : i \in Ids /\ i < first
           /\ lastId' \in Ids
           /\ \A i \in NextBatch : i \in Ids /\ first <= i /\ i <= lastId'
           /\ lastId < lastId'
           /\ pel' \in [Consumers -> SUBSET Ids]
           /\ \A c \in Consumers : pel'[c] \subseteq 1 .. lastId'
  <1> USE WriterAssumption
  <1> DEFINE len == Len(stream)
  <1>1. /\ lastId \in Nat /\ first \in Nat \ {0} /\ len \in Nat
        /\ lastId <= len
        /\ pel \in [Consumers -> SUBSET Ids]
        /\ name \in Consumers
        /\ \A c \in Consumers : pel[c] \subseteq 1 .. lastId
    BY DEF IInv, TypeOK, PendingIsDelivered
  <1>2. PICK last \in NextBatch :
           /\ \A i \in NextBatch : i <= last
           /\ lastId' = last
    BY DEF Deliver
  <1>3. \A i \in NextBatch :
           i \in Nat /\ lastId < i /\ first <= i /\ i <= len
    BY <1>1, UndeliveredBounds DEF NextBatch
  <1>4. \A k \in (lastId + 1) .. last : k \in NextBatch \/ k < first
    BY <1>1, <1>2, UndeliveredSkipsTrimmed DEF NextBatch
  <1>5. pel' = [pel EXCEPT ![name] = @ \cup NextBatch]
    BY DEF Deliver
  <1>6. /\ lastId' \in Ids
        /\ \A i \in NextBatch : i \in Ids /\ first <= i /\ i <= lastId'
        /\ lastId < lastId'
    BY <1>1, <1>2, <1>3 DEF Ids
  <1>7. \A c \in Consumers :
           pel'[c] = IF c = name THEN pel[c] \cup NextBatch ELSE pel[c]
    BY <1>1, <1>5
  <1>8. pel' \in [Consumers -> SUBSET Ids]
    BY <1>1, <1>5, <1>6
  <1>9. \A c \in Consumers : pel'[c] \subseteq 1 .. lastId'
    <2> SUFFICES ASSUME NEW c \in Consumers, NEW i \in pel'[c]
                 PROVE  i \in 1 .. lastId'
      OBVIOUS
    <2>1. i \in pel[c] \/ i \in NextBatch
      BY <1>7
    <2>2. CASE i \in pel[c]
      BY <2>2, <1>1, <1>6 DEF Ids
    <2>3. CASE i \in NextBatch
      BY <2>3, <1>1, <1>3, <1>6 DEF Ids
    <2> QED BY <2>1, <2>2, <2>3
  <1>10. Pending' = Pending \cup NextBatch
    BY <1>1, <1>7 DEF Pending, Consumers
  <1>11. Settled \subseteq Settled'
    BY <1>1, <1>2, <1>3, <1>6, <1>10 DEF Settled, Ids
  <1>12. \A i \in Settled' \ Settled : i \in Ids /\ i < first
    <2> SUFFICES ASSUME NEW i \in Settled', i \notin Settled
                 PROVE  i \in Ids /\ i < first
      OBVIOUS
    <2>1. i \in 1 .. last /\ i \notin Pending /\ i \notin NextBatch
      BY <1>2, <1>10 DEF Settled
    <2>2. i \in (lastId + 1) .. last
      BY <2>1, <1>1, <1>6, <1>2 DEF Settled, Ids
    <2> QED BY <2>1, <2>2, <1>4, <1>1, <1>2, <1>6 DEF Ids
  <1> QED BY <1>6, <1>8, <1>9, <1>11, <1>12

(* Acknowledging the batch, or part of it already done, settles no entry     *)
(* outside it.                                                               *)
LEMMA AckSettles ==
    ASSUME IInv, lastId' = lastId,
           pel' = [pel EXCEPT ![name] = @ \ batch]
    PROVE  /\ Settled \subseteq Settled'
           /\ Settled' \ Settled \subseteq batch
           /\ pel' \in [Consumers -> SUBSET Ids]
           /\ \A c \in Consumers : pel'[c] \subseteq pel[c]
  <1>1. pel \in [Consumers -> SUBSET Ids] /\ name \in Consumers
    BY DEF IInv, TypeOK
  <1>2. \A c \in Consumers :
           pel'[c] = IF c = name THEN pel[c] \ batch ELSE pel[c]
    BY <1>1
  <1>3. Pending' \subseteq Pending /\ Pending \subseteq Pending' \cup batch
    BY <1>2 DEF Pending, Consumers
  <1>4. pel' \in [Consumers -> SUBSET Ids]
    BY <1>1
  <1> QED BY <1>2, <1>3, <1>4 DEF Settled

-----------------------------------------------------------------------------
(* No process has begun: the invariant holds. *)
LEMMA InitIInv == Init => IInv
  <1> SUFFICES ASSUME Init PROVE IInv
    OBVIOUS
  <1> USE WriterAssumption
  <1>1. TypeOK
    BY DEF Init, TypeOK, Ids, Consumers
  <1> QED
    BY <1>1 DEF Init, IInv, PendingIsDelivered, SettledIsStored, Settled,
                BatchIsPending, UndecodedIsTrimmed, AckFollowsCommit,
                Pending, Consumers

(* A step of the process or its environment that leaves the stream and the   *)
(* group alone keeps the invariant if it keeps the rows and what is known of *)
(* the batch in hand.                                                        *)
LEMMA LocalStep ==
    ASSUME IInv, UNCHANGED redis,
           rows \subseteq rows', rows' \subseteq Events,
           pc' \in {"down", "idle", "write", "ack", "reconnect"},
           cursor' \in {"0", ">"}, name' \in Consumers,
           faults' \in 0 .. MaxFaults,
           \/ batch' = {} /\ decoded' = {}
           \/ batch' = batch /\ decoded' = decoded /\ name' = name,
           pc' = "ack" => BatchRows' \subseteq rows'
    PROVE  IInv'
  <1>1. TypeOK'
    BY DEF IInv, TypeOK, redis, Ids
  <1>2. PendingIsDelivered'
    BY DEF IInv, PendingIsDelivered, redis
  <1>3. SettledIsStored'
    BY DEF IInv, SettledIsStored, Settled, Pending, Kept, redis
  <1>4. BatchIsPending'
    BY DEF IInv, BatchIsPending, redis
  <1>5. UndecodedIsTrimmed'
    BY DEF IInv, UndecodedIsTrimmed, redis
  <1> QED BY <1>1, <1>2, <1>3, <1>4, <1>5 DEF IInv, AckFollowsCommit

(* A delivery, whether or not its reply arrives. *)
LEMMA DeliverStep ==
    ASSUME IInv, Deliver, faults' \in 0 .. MaxFaults,
           \/ batch' = NextBatch /\ decoded' = NextBatch /\ pc' = "write"
           \/ UNCHANGED <<pc, batch, decoded>>
    PROVE  IInv'
  <1> USE WriterAssumption
  <1>1. /\ Settled \subseteq Settled'
        /\ \A i \in Settled' \ Settled : i \in Ids /\ i < first
        /\ lastId' \in Ids
        /\ \A i \in NextBatch : i \in Ids /\ first <= i /\ i <= lastId'
        /\ pel' \in [Consumers -> SUBSET Ids]
        /\ \A c \in Consumers : pel'[c] \subseteq 1 .. lastId'
    BY DeliverSettles
  <1>2. /\ UNCHANGED <<stream, first, rows, cursor, name>>
        /\ pel' = [pel EXCEPT ![name] = @ \cup NextBatch]
    BY DEF Deliver
  <1>3. TypeOK'
    <2>1. batch' \subseteq Ids /\ decoded' \subseteq batch'
      BY <1>1 DEF IInv, TypeOK
    <2>2. pc' \in {"down", "idle", "write", "ack", "reconnect"}
      BY DEF IInv, TypeOK
    <2>3. lastId' \in 0 .. Len(stream)
      BY <1>1 DEF Ids
    <2> QED BY <1>1, <1>2, <2>1, <2>2, <2>3 DEF IInv, TypeOK, Ids
  <1>4. PendingIsDelivered'
    BY <1>1, <1>2 DEF IInv, PendingIsDelivered
  <1>5. SettledIsStored'
    <2> SUFFICES ASSUME NEW i \in Settled'
                 PROVE  stream[i] \in rows \/ ~Kept(i)
      BY <1>2 DEF SettledIsStored, Kept
    <2>1. CASE i \in Settled
      BY <2>1 DEF IInv, SettledIsStored
    <2>2. CASE i \notin Settled
      BY <2>2, <1>1 DEF IInv, TypeOK, Kept, Ids
    <2> QED BY <2>1, <2>2
  <1>6. BatchIsPending'
    BY <1>2 DEF IInv, TypeOK, BatchIsPending
  <1>7. UndecodedIsTrimmed'
    BY <1>2 DEF IInv, UndecodedIsTrimmed
  <1>8. AckFollowsCommit'
    BY <1>2 DEF IInv, AckFollowsCommit, BatchRows, Deliver
  <1> QED BY <1>3, <1>4, <1>5, <1>6, <1>7, <1>8 DEF IInv

(* XACK, whether or not its reply arrives. *)
LEMMA AckStep ==
    ASSUME IInv, pc = "ack", pc' = "idle", batch' = {}, decoded' = {},
           faults' \in 0 .. MaxFaults,
           UNCHANGED <<stream, first, lastId, rows, cursor, name>>,
           pel' = [pel EXCEPT ![name] = @ \ batch]
    PROVE  IInv'
  <1>1. /\ Settled \subseteq Settled'
        /\ Settled' \ Settled \subseteq batch
        /\ pel' \in [Consumers -> SUBSET Ids]
        /\ \A c \in Consumers : pel'[c] \subseteq pel[c]
    BY AckSettles
  <1>2. TypeOK'
    BY <1>1 DEF IInv, TypeOK, Ids
  <1>3. PendingIsDelivered'
    BY <1>1 DEF IInv, PendingIsDelivered
  <1>4. SettledIsStored'
    <2> SUFFICES ASSUME NEW i \in Settled'
                 PROVE  stream[i] \in rows \/ ~Kept(i)
      BY DEF SettledIsStored, Kept
    <2>1. CASE i \in Settled
      BY <2>1 DEF IInv, SettledIsStored
    <2>2. CASE i \in decoded
      BY <2>2 DEF IInv, AckFollowsCommit, BatchRows
    <2>3. CASE i \in batch \ decoded
      BY <2>3 DEF IInv, TypeOK, UndecodedIsTrimmed, Kept, Ids
    <2> QED BY <1>1, <2>1, <2>2, <2>3
  <1> QED BY <1>2, <1>3, <1>4 DEF IInv, BatchIsPending, UndecodedIsTrimmed,
                                  AckFollowsCommit

(* Publishing appends: no id the group knows changes its entry. *)
LEMMA XAddStep == IInv /\ XAdd => IInv' /\ first' <= Len(stream) + 1
  <1> SUFFICES ASSUME IInv, XAdd
               PROVE  IInv' /\ first' <= Len(stream) + 1
    OBVIOUS
  <1> USE WriterAssumption
  <1>1. /\ stream \in Seq(Events) /\ first \in Nat \ {0}
        /\ first <= Len(stream) + 1 /\ lastId \in 0 .. Len(stream)
    BY DEF IInv, TypeOK, PendingIsDelivered
  <1>2. /\ stream' \in Seq(Events)
        /\ Len(stream') = Len(stream) + 1
        /\ \A i \in Ids : stream'[i] = stream[i]
    BY <1>1 DEF XAdd, Ids
  <1>3. first' \in Nat \ {0} /\ first <= first' /\ first' <= Len(stream) + 1
    BY <1>1, TrimmedFirstBounds DEF XAdd
  <1>4. UNCHANGED <<lastId, pel, rows, pc, cursor, name, batch, decoded, faults>>
    BY DEF XAdd
  <1>5. Ids \subseteq Ids'
    BY <1>1, <1>2 DEF Ids
  <1>6. TypeOK'
    <2>1. pel' \in [Consumers -> SUBSET Ids']
      BY <1>4, <1>5 DEF IInv, TypeOK
    <2>2. lastId' \in 0 .. Len(stream')
      BY <1>1, <1>2, <1>4
    <2> QED BY <1>2, <1>3, <1>4, <1>5, <2>1, <2>2 DEF IInv, TypeOK
  <1>7. PendingIsDelivered'
    BY <1>1, <1>2, <1>3, <1>4 DEF IInv, PendingIsDelivered
  <1>8. SettledIsStored'
    <2> SUFFICES ASSUME NEW i \in Settled'
                 PROVE  stream'[i] \in rows' \/ ~Kept(i)'
      BY DEF SettledIsStored
    <2>1. i \in Settled /\ i \in Ids
      BY <1>1, <1>4 DEF Settled, Pending, Ids
    <2> QED BY <2>1, <1>1, <1>2, <1>3, <1>4
            DEF IInv, SettledIsStored, Kept, Ids
  <1>9. BatchIsPending'
    BY <1>4 DEF IInv, BatchIsPending
  <1>10. UndecodedIsTrimmed'
    BY <1>1, <1>3, <1>4 DEF IInv, TypeOK, UndecodedIsTrimmed, Ids
  <1>11. AckFollowsCommit'
    BY <1>2, <1>4 DEF IInv, TypeOK, AckFollowsCommit, BatchRows
  <1> QED BY <1>3, <1>6, <1>7, <1>8, <1>9, <1>10, <1>11 DEF IInv

(* The reclaiming read takes entries that are pending under this name. *)
LEMMA ReadPendingStep == IInv /\ ReadPending => IInv'
  <1> SUFFICES ASSUME IInv, ReadPending PROVE IInv'
    OBVIOUS
  <1>1. batch' \subseteq pel[name]
    BY DEF ReadPending, OldestPending
  <1>2. decoded' = {i \in batch' : i >= first}
    BY DEF ReadPending, Readable
  <1>3. UNCHANGED <<stream, first, lastId, pel, rows, cursor, name, faults>>
        /\ pc' = "write"
    BY DEF ReadPending, redis
  <1>4. TypeOK'
    BY <1>1, <1>2, <1>3 DEF IInv, TypeOK, Ids
  <1>5. UndecodedIsTrimmed'
    BY <1>1, <1>2, <1>3 DEF IInv, TypeOK, UndecodedIsTrimmed, Ids
  <1> QED
    BY <1>1, <1>3, <1>4, <1>5
    DEF IInv, PendingIsDelivered, SettledIsStored, Settled, Pending, Kept,
        BatchIsPending, AckFollowsCommit

(* A commit adds published events to the rows. *)
LEMMA CommitRows ==
    ASSUME IInv, Commit
    PROVE  /\ rows \subseteq rows'
           /\ rows' \subseteq Events
           /\ BatchRows \subseteq rows'
           /\ rows' = rows \cup {stream[i] : i \in decoded}
           /\ decoded \subseteq Ids
  <1>1. decoded \subseteq Ids /\ stream \in Seq(Events) /\ rows \subseteq Events
    BY DEF IInv, TypeOK
  <1>2. \A i \in decoded : stream[i] \in Events
    BY <1>1 DEF Ids
  <1> QED BY <1>1, <1>2 DEF Commit, BatchRows

(* Every step keeps the invariant. *)
LEMMA StepIInv == IInv /\ [Next]_vars => IInv'
  <1> SUFFICES ASSUME IInv, [Next]_vars PROVE IInv'
    OBVIOUS
  <1> USE WriterAssumption
  <1>1. TypeOK
    BY DEF IInv
  <1>2. \A k : Fault(k) => faults' \in 0 .. MaxFaults
    BY <1>1 DEF Fault, TypeOK
  <1>3. CASE XAdd
    BY <1>3, XAddStep
  <1>4. CASE Start
    BY <1>1, <1>4, LocalStep DEF Start, Begin, TypeOK
  <1>5. CASE Recreate
    <2>1. name' \in Consumers
      BY <1>1, <1>5 DEF Recreate, TypeOK, Consumers
    <2> QED BY <1>1, <1>2, <1>5, <2>1, LocalStep DEF Recreate, Begin, TypeOK
  <1>6. CASE ReadPending
    BY <1>6, ReadPendingStep
  <1>7. CASE PendingDrained
    BY <1>1, <1>7, LocalStep DEF PendingDrained, TypeOK
  <1>8. CASE ReadNew
    BY <1>1, <1>8, DeliverStep DEF ReadNew, TypeOK
  <1>9. CASE ReadReplyLost
    BY <1>2, <1>9, DeliverStep DEF ReadReplyLost
  <1>10. CASE WriteBatch
    <2>1. Commit /\ UNCHANGED <<redis, cursor, name, batch, decoded, faults>>
          /\ pc' = "ack"
      BY <1>10 DEF WriteBatch
    <2>2. BatchRows' = BatchRows
      BY <2>1 DEF BatchRows, redis
    <2> QED BY <1>1, <2>1, <2>2, CommitRows, LocalStep DEF TypeOK
  <1>11. CASE WriteRejected
    BY <1>1, <1>11, LocalStep DEF WriteRejected, TypeOK
  <1>12. CASE PostgresLost
    <2>1. rows \subseteq rows' /\ rows' \subseteq Events
      BY <1>1, <1>12, CommitRows DEF PostgresLost, TypeOK
    <2> QED BY <1>1, <1>2, <1>12, <2>1, LocalStep DEF PostgresLost, TypeOK
  <1>13. CASE Reconnect
    BY <1>1, <1>13, LocalStep DEF Reconnect, TypeOK
  <1>14. CASE ReconnectFails
    BY <1>1, <1>14, LocalStep DEF ReconnectFails, TypeOK
  <1>15. CASE Ack
    BY <1>1, <1>15, AckStep DEF Ack, TypeOK
  <1>16. CASE AckLost
    <2>1. CASE UNCHANGED pel
      <3>1. UNCHANGED redis
        BY <1>16, <2>1 DEF AckLost, redis
      <3> QED BY <1>1, <1>2, <1>16, <3>1, LocalStep DEF AckLost, TypeOK
    <2>2. CASE pel' = [pel EXCEPT ![name] = @ \ batch]
      BY <1>2, <1>16, <2>2, AckStep DEF AckLost
    <2> QED BY <1>16, <2>1, <2>2 DEF AckLost
  <1>17. CASE ReportFails
    BY <1>1, <1>2, <1>17, LocalStep DEF ReportFails, TypeOK
  <1>18. CASE Kill
    BY <1>1, <1>2, <1>18, LocalStep DEF Kill, TypeOK
  <1>19. CASE UNCHANGED vars
    <2>1. BatchRows' = BatchRows
      BY <1>19 DEF vars, BatchRows
    <2> QED BY <1>1, <1>19, <2>1, LocalStep
            DEF vars, redis, TypeOK, IInv, AckFollowsCommit
  <1>20. CASE ReadTimeout
    BY <1>19, <1>20 DEF ReadTimeout
  <1> QED
    BY <1>3, <1>4, <1>5, <1>6, <1>7, <1>8, <1>9, <1>10, <1>11, <1>12, <1>13,
       <1>14, <1>15, <1>16, <1>17, <1>18, <1>19, <1>20
    DEF Next, Process, Environment

(* The strengthened invariant holds of every reachable state. *)
THEOREM Invariance == Spec => []IInv
  <1>1. Init => IInv
    BY InitIInv
  <1>2. IInv /\ [Next]_vars => IInv'
    BY StepIInv
  <1> QED BY <1>1, <1>2, PTL DEF Spec

(* Every variable of the writer keeps its type. *)
THEOREM TypeCorrect == Spec => []TypeOK
  <1>1. IInv => TypeOK
    BY DEF IInv
  <1> QED BY <1>1, Invariance, PTL

(* The acknowledgement comes after the commit: whatever the order of crashes,*)
(* lost replies, reconnections and trims, an entry the group is done with is *)
(* stored or was trimmed (writer.py:101-106).                                *)
THEOREM AckSafety == Spec => []SettledIsStored
  <1>1. IInv => SettledIsStored
    BY DEF IInv
  <1> QED BY <1>1, Invariance, PTL

(* A batch in hand is always pending under the process's own consumer name.  *)
THEOREM BatchOwnership == Spec => []BatchIsPending
  <1>1. IInv => BatchIsPending
    BY DEF IInv
  <1> QED BY <1>1, Invariance, PTL

-----------------------------------------------------------------------------
(* The steps of the promise that a step of the writer can be. *)
LEMMA StoreMaps ==
    ASSUME IInv, Commit, UNCHANGED redis
    PROVE  Promise!Store
  <1>1. rows' = rows \cup {stream[i] : i \in decoded} /\ decoded \subseteq Ids
    BY CommitRows
  <1>2. Settled' = Settled
    BY DEF redis, Settled, Pending
  <1> QED BY <1>1, <1>2 DEF Promise!Store, redis, Ids

LEMMA SettleMaps ==
    ASSUME IInv, UNCHANGED <<stream, first, rows>>, SettledIsStored',
           Settled \subseteq Settled', Settled' \subseteq Ids
    PROVE  Promise!Settle
  <1> DEFINE new == Settled' \ Settled
  <1>1. new \in SUBSET Ids /\ Settled' = Settled \cup new
    OBVIOUS
  <1>2. \A i \in new : stream[i] \in rows \/ i < first
    BY DEF IInv, TypeOK, SettledIsStored, Kept, Ids
  <1> QED BY <1>1, <1>2 DEF Promise!Settle, Ids

(* Each step of the writer is one of the promise, or none that it can see. *)
LEMMA StepMaps ==
    IInv /\ IInv' /\ [Next]_vars => [Promise!Next]_(Promise!vars)
  <1> SUFFICES ASSUME IInv, IInv', [Next]_vars
               PROVE  [Promise!Next]_(Promise!vars)
    OBVIOUS
  <1>1. SettledIsStored' /\ TypeOK'
    BY DEF IInv
  <1>2. Settled' \subseteq 1 .. Len(stream')
    BY <1>1 DEF Settled, TypeOK
  <1>3. ASSUME UNCHANGED redis, UNCHANGED rows
        PROVE  UNCHANGED Promise!vars
    BY <1>3 DEF redis, Promise!vars, Settled, Pending
  <1>4. ASSUME UNCHANGED redis, UNCHANGED rows \/ Commit
        PROVE  [Promise!Next]_(Promise!vars)
    BY <1>3, <1>4, StoreMaps DEF Promise!Next
  <1>5. ASSUME Deliver
        PROVE  [Promise!Next]_(Promise!vars)
    <2>1. UNCHANGED <<stream, first, rows>>
      BY <1>5 DEF Deliver
    <2>2. Settled \subseteq Settled'
      BY <1>5, DeliverSettles
    <2> QED BY <1>1, <1>2, <2>1, <2>2, SettleMaps DEF Promise!Next, Ids
  <1>6. ASSUME UNCHANGED <<stream, first, lastId, rows>>,
               pel' = [pel EXCEPT ![name] = @ \ batch]
        PROVE  [Promise!Next]_(Promise!vars)
    <2>1. Settled \subseteq Settled'
      BY <1>6, AckSettles
    <2> QED BY <1>1, <1>2, <1>6, <2>1, SettleMaps DEF Promise!Next, Ids
  <1>7. CASE XAdd
    <2>1. first' \in first .. Len(stream) + 1
      BY <1>1, <1>7, XAddStep, WriterAssumption, TrimmedFirstBounds
      DEF IInv, TypeOK, PendingIsDelivered, XAdd
    <2>2. Settled' = Settled /\ rows' = rows
      BY <1>7 DEF XAdd, Settled, Pending
    <2> QED BY <1>7, <2>1, <2>2 DEF XAdd, Promise!Next, Promise!Publish
  <1>8. CASE ReadNew \/ ReadReplyLost
    BY <1>5, <1>8 DEF ReadNew, ReadReplyLost
  <1>9. CASE Ack
    BY <1>6, <1>9 DEF Ack
  <1>10. CASE AckLost
    <2>1. CASE UNCHANGED pel
      BY <1>4, <1>10, <2>1 DEF AckLost, redis
    <2> QED BY <1>6, <1>10, <2>1 DEF AckLost
  <1>11. CASE WriteBatch \/ PostgresLost
    BY <1>4, <1>11 DEF WriteBatch, PostgresLost
  <1>12. CASE \/ Start \/ Recreate \/ ReadPending \/ PendingDrained
              \/ WriteRejected \/ Reconnect \/ ReconnectFails
              \/ ReportFails \/ Kill
    BY <1>4, <1>12
    DEF Start, Recreate, Begin, ReadPending, PendingDrained, WriteRejected,
        Reconnect, ReconnectFails, ReportFails, Kill
  <1>13. CASE ReadTimeout \/ UNCHANGED vars
    BY <1>4, <1>13 DEF ReadTimeout, vars, redis
  <1> QED
    BY <1>7, <1>8, <1>9, <1>10, <1>11, <1>12, <1>13
    DEF Next, Process, Environment

(* The writer implements AtLeastOnce: hiding batches, pending lists, cursors *)
(* and restarts, entries are published, stored, and only then given up.      *)
THEOREM Refinement == Spec => KeepsPromise
  <1>1. Init => Promise!Init
    BY DEF Init, Promise!Init, Settled, Pending, Consumers
  <1>2. IInv /\ IInv' /\ [Next]_vars => [Promise!Next]_(Promise!vars)
    BY StepMaps
  <1> QED BY <1>1, <1>2, Invariance, PTL DEF Spec, KeepsPromise, Promise!Spec
=============================================================================
