----------------------------- MODULE ParallelSum -----------------------------
(***************************************************************************)
(* TP5-ThreadPool/src/main.cc: how the data are cut into one chunk for     *)
(* each thread of the pool.  The pool that runs the chunks is ThreadPool.  *)
(***************************************************************************)
EXTENDS Integers

chunkSize(n, numThreads) == (n + numThreads - 1) \div numThreads

start(n, numThreads, i) == i * chunkSize(n, numThreads)
end(n, numThreads, i) ==
  LET e == start(n, numThreads, i) + chunkSize(n, numThreads) IN IF e < n THEN e ELSE n

\* The thunks that main() schedules, by the element of results they write.
Scheduled(n, numThreads) == {i \in 0..numThreads - 1 : start(n, numThreads, i) < n}

\* The elements of data that computeSum() adds up for the i-th.
Chunk(n, numThreads, i) == start(n, numThreads, i)..end(n, numThreads, i) - 1
=============================================================================
