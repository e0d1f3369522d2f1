----------------------------- MODULE RedisStream -----------------------------
(***************************************************************************)
(* The Redis Stream `events.raw`, as its clients see it.  Redis is not     *)
(* part of the repository: the operators below say what XADD, XREADGROUP   *)
(* and XACK do for tailer.py, writer.py and sessioniser.py.                *)
(*                                                                         *)
(* An entry's id is its position in the sequence of everything ever added: *)
(* ids grow by one, are never reused, and those below the stream's first   *)
(* id have been trimmed away by MAXLEN.                                    *)
(***************************************************************************)
EXTENDS Integers, FiniteSets, Sequences

(* XADD ... MAXLEN ~ n: approximate trimming removes whole nodes, so it may  *)
(* leave more than n entries, never fewer.  The possible new first ids when  *)
(* the stream has grown to len entries.                                      *)
TrimmedFirst(first, len, n) ==
    LET limit == len + 1 - n
    IN  IF limit > first THEN first .. limit ELSE {first}

(* XREADGROUP ... '>' COUNT n: the next n entries that the group has not     *)
(* been given and that are still in the stream.                              *)
Undelivered(lastId, first, len, n) ==
    LET lo == IF lastId + 1 < first THEN first ELSE lastId + 1
        hi == IF len < lo + n - 1 THEN len ELSE lo + n - 1
    IN  lo .. hi

(* XREADGROUP ... '0' COUNT n: the n oldest of the entries the consumer has  *)
(* been given and has not acknowledged.                                      *)
OldestPending(pending, n) ==
    {i \in pending : Cardinality({j \in pending : j < i}) < n}

(* A pending entry that has been trimmed comes back without its fields, and  *)
(* Event.from_stream_fields fails on it.                                     *)
Readable(ids, first) == {i \in ids : i >= first}
=============================================================================
