---------------------------- MODULE MC_StreamSuite ----------------------------
(* The six tests with the clock of this run at 4 ms, above the ids an      *)
(* earlier run left.                                                       *)
EXTENDS StreamSuite

MC_NowMs == 4

\* States that differ only in keys no remaining test reads behave alike:
\* such a key's stores and journal are never read again, nor are any once
\* a store hangs.  The snapshot verdict of a call that raised is never
\* read either.
MC_View ==
    <<[k \in SKeys |-> IF Live(k) /\ ~hung THEN <<src[k], dst[k], journal[k]>> ELSE NONE],
      pc, ci, t, j, seen, passed,
      IF last # NONE /\ last.raised THEN [last EXCEPT !.atomic = NONE] ELSE last,
      interrupted, exitCode, hung, unverified>>

\* The same, for the run that reads the history `faithful`.
MC_FaithfulView == <<MC_View, faithful>>

\* For the liveness runs: the engine idle, which weak fairness never
\* obliges to act in any case.
MC_EngineIdle(k) == FALSE

\* With the engine idle the journals are never read, nor the stores of keys
\* no remaining test reads, nor any store once one hangs.
MC_IdleView ==
    <<[k \in SKeys |-> IF (pc = "cleanup" \/ \E u \in t .. Len(Tests) : Tests[u].key = k) /\ ~hung
                       THEN <<src[k], dst[k]>> ELSE NONE],
      pc, ci, t, j, seen, passed,
      IF last # NONE /\ last.raised THEN [last EXCEPT !.atomic = NONE] ELSE last,
      interrupted, exitCode, hung, unverified>>
=============================================================================
