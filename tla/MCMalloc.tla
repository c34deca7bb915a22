------------------------------ MODULE MCMalloc ------------------------------
(* Small instances of Malloc.  The tasks are the firmware's: watch_task (3), *)
(* main_task (6) and usart_task (7), from USER/test.c.                        *)
EXTENDS Malloc

MCBlkSize == 64
\* nmemb = 0, 1, 2 (rounded up by one byte) and 3
MCSizes == {0, 64, 65, 192}
MCGarbage == {0, 9}

MCThreeTasks == {3, 6, 7}
MCTwoTasks == {3, 6}
MCMain == {6}

\* The properties say nothing of what follows on a crossing.
UntilCrossed == ~ crossed

=============================================================================
