---------------------------- MODULE MCRemoteMem ----------------------------
(* Words of four bytes.  Two regions of one word that touch in the guest   *)
(* and lie in the host the other way round.                                *)
EXTENDS RemoteMem

CONSTANTS t1, t2

MCMap == <<[start |-> 0, size |-> 4, host |-> 8], [start |-> 4, size |-> 4, host |-> 4]>>

Req(t, k, a, n) == [thread |-> t, kind |-> k, addr |-> a, len |-> n]

\* The discipline that the comment on ALG asks for: one writer per word.
\* Thread t1 writes the first region, t2 the second; t2 also loads what t1
\* writes, and the owner writes next to neither.
MCDisjoint ==
  {Req(t1, "store", 1, 1), Req(t1, "store", 2, 2), Req(t1, "store", 3, 2),
   Req(t2, "load", 2, 2), Req(t2, "store", 5, 2),
   Req(t2, "load", 7, 2), Req(t2, "load", 8, 1)}
MCOwnerApart == {0}

ASSUME DisciplineAssumption == OneWriterPerWord

\* A store at a word boundary.
MCAligned == {Req(t1, "store", 0, 2), Req(t1, "load", 0, 2)}
=============================================================================
