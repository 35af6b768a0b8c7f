----------------------------- MODULE RedisQueues -----------------------------
(***************************************************************************)
(* The Redis commands the processes of the identity loop exchange payloads *)
(* with, as operators on the value a key holds.  Redis itself is not part  *)
(* of the repository; the commands are modelled from the calls the code    *)
(* makes.                                                                  *)
(*                                                                         *)
(* A list grows at its tail by RPUSH and at its head by LPUSH, and BRPOP   *)
(* takes from the tail: RPUSH with BRPOP is a stack, LPUSH with BRPOP a    *)
(* queue.  A stream is the sequence of its entries and an entry's id is    *)
(* its position.                                                           *)
(***************************************************************************)
EXTENDS Naturals, FiniteSets, SequencesExt

RPush(list, payload) == Append(list, payload)

LPush(list, payload) == Cons(payload, list)

\* What BRPOP returns, and what it leaves; BRPOP blocks on an empty list.
Popped(list)   == Last(list)
AfterPop(list) == Front(list)

\* The `count` oldest ids of a set of stream ids: XREADGROUP ... COUNT count.
Oldest(ids, count) ==
    {id \in ids : Cardinality({older \in ids : older < id}) < count}

IsLeast(id, ids) == id \in ids /\ \A other \in ids : id <= other

=============================================================================
