---------------------------- MODULE MCRetryQueue ----------------------------
(* Deliveries to a user, for TLC.  Messages and goroutines of the pool are  *)
(* interchangeable; so are copies, see View.                                *)
EXTENDS RetryQueue, TLC

Symmetry == Permutations(Msgs) \cup Permutations(Workers)

\* What acked and refused have to say: AckFinal asks for the former as long as
\* Once holds, and NotForgotten for either until the connection is gone.
History ==
    <<IF Once THEN acked ELSE {}, { h \in acked \cup refused : status[h[2]] # "off" }>>

\* Who refers to a copy.
Places(x) ==
    <<{ i \in DOMAIN heap.q : heap.q[i] = x },
      { k \in Msgs \X Clients : flight[k[1]][k[2]] = x },
      { w \in Workers : worker[w].cur = x }, { c \in Clients : ack[c] = x }, scan.cur = x>>

\* Copies by their places and fields: which objects they are makes no difference,
\* nor do those that nothing refers to, nor does the capacity of the heap.
View ==
    <<now, Len(heap.q), [w \in Workers |-> At(worker[w], worker[w].pc, worker[w].todo, 0)],
      scan.pc, scan.t, status, wire, handed, History, panicked,
      { <<Places(x), heap.index[x], heap.pri[x], copy[x]>> : x \in { x \in Copies : ~Fresh(x) } }>>

\* One of the messages is handed over a second time.
OneRepeated == Cardinality({ m \in Msgs : handed[m] > 1 }) <= 1
=============================================================================
