---------------------------- MODULE MCThreadPool ----------------------------
(* Two threads, two callers that add three tasks between them, one thread  *)
(* that stops the pool.                                                    *)
EXTENDS ThreadPool

CONSTANTS t1, t2, io1, io2, main, a, b, c

MCThreads == {t1, t2}
MCAdders == {io1, io2}
MCStoppers == {main}
MCTasks == {a, b, c}
=============================================================================
