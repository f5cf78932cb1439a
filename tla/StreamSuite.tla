----------------------------- MODULE StreamSuite -----------------------------
(***************************************************************************)
(* run_all_tests of scripts/test_stream_replication.py against a running   *)
(* replication engine.  The suite deletes the test keys (cleanup), then    *)
(* runs six tests in order; each issues XADD/XTRIM commands on one source  *)
(* key, sleeps two seconds and calls compare_streams, which reads the two  *)
(* stores in separate calls (XINFO STREAM source, XINFO STREAM target,     *)
(* XRANGE source, XRANGE target, and on "no such key" a second XINFO of   *)
(* the target).  The engine replays the source's journal in the meantime, *)
(* and may lose or garble an entry.  Entry counts are scaled down; each    *)
(* test keeps the shape of its commands.                                   *)
(***************************************************************************)
EXTENDS Integers, Sequences, SequencesExt

CONSTANTS
    NowMs,      \* the millisecond clock of this run, above every earlier id
    NONE,       \* model value: no such key
    WRONGTYPE   \* model value: a key of another type (no test makes one)

SC == INSTANCE StreamCompare WITH Ids <- (0 .. NowMs + 4) \X {0}, Data <- {"d", "g"},
        MaxLen <- 4,
        srcKey <- NONE, dstKey <- NONE, failing <- {}, verdict <- NONE

\* The store commands of the tests.  id 0 is "*", an id chosen by the store.
XAdd(id)          == [c |-> "xadd", id |-> id, max |-> -1, approx |-> FALSE]
XAddTrim(m)       == [c |-> "xadd", id |-> 0, max |-> m, approx |-> TRUE]
XTrim(m, approx)  == [c |-> "xtrim", id |-> 0, max |-> m, approx |-> approx]
XTrimMinId(id)    == [c |-> "minid", id |-> id, max |-> -1, approx |-> FALSE]

\* The six tests: the key each uses and its commands on the source.
Tests ==
    << [key |-> "basic",       ops |-> <<XAdd(1), XAdd(2), XAdd(3)>>],
       [key |-> "autoid",      ops |-> <<XAdd(0), XAdd(0)>>],
       [key |-> "trim_maxlen", ops |-> <<XAdd(0), XAdd(0), XTrim(1, TRUE)>>],
       [key |-> "trim_minid",  ops |-> <<XAdd(1), XAdd(2), XTrimMinId(2)>>],
       [key |-> "trim_maxlen", ops |-> <<XAdd(0), XTrim(0, FALSE)>>],
       [key |-> "inline_trim", ops |-> <<XAddTrim(1), XAddTrim(1)>>] >>

SKeys == {Tests[t].key : t \in DOMAIN Tests}

\* cleanup's test_keys, restricted to keys a test uses: inline_trim is not in it.
CleanupKeys == <<"basic", "autoid", "trim_maxlen", "trim_minid">>

Entries(s) == IF s = NONE THEN <<>> ELSE s.entries
LastMs(s)  == IF Entries(s) = <<>> THEN 0 ELSE Last(Entries(s))[1][1]

\* The entries that stay after a trim to the last k of them.
KeepLast(e, k) == IF k >= Len(e) THEN e ELSE SubSeq(e, Len(e) - k + 1, Len(e))

\* The id XADD gives: the explicit one, or one above both the clock and the last.
NewId(op, s) == IF op.id # 0 THEN op.id ELSE (IF LastMs(s) > NowMs THEN LastMs(s) ELSE NowMs) + 1

\* An explicit id not above the stream's last id is refused with an error.
Refused(op, s) == op.c = "xadd" /\ op.id # 0 /\ op.id <= LastMs(s)

\* The lengths a trim to MAXLEN m may leave of n entries: exactly m, or
\* with "~" any number from m up to n (whole nodes are removed or none).
Kept(m, approx, n) ==
    CASE m >= n  -> {n}
      [] approx  -> m .. n
      [] OTHER   -> {m}

INF == NowMs + 10

\* The journal record of a trim from e to e2: keep the ids from the first
\* kept one on (Dragonfly journals the effect, so "~" replays exactly).
TrimLog(e, e2) ==
    IF Len(e2) = Len(e) THEN <<>>
    ELSE <<[j |-> "keep", from |-> IF e2 = <<>> THEN INF ELSE e2[1][1][1]]>>

\* The possible results of command op on source value s: the new value and
\* the journal records it produces.  XTRIM of a missing key changes nothing.
Outcomes(op, s) ==
    LET ent == <<<<NewId(op, s), 0>>, "d">>
        e   == Entries(s) \o <<ent>>
        mid == SelectSeq(Entries(s), LAMBDA x : x[1][1] >= op.id)
    IN CASE op.c = "xadd" ->
              {[val |-> [entries |-> KeepLast(e, k)],
                log |-> <<[j |-> "add", entry |-> ent]>> \o TrimLog(e, KeepLast(e, k))] :
                  k \in IF op.max < 0 THEN {Len(e)} ELSE Kept(op.max, op.approx, Len(e))}
         [] s = NONE -> {[val |-> NONE, log |-> <<>>]}
         [] op.c = "xtrim" ->
              {[val |-> [entries |-> KeepLast(s.entries, k)],
                log |-> TrimLog(s.entries, KeepLast(s.entries, k))] :
                  k \in Kept(op.max, op.approx, Len(s.entries))}
         [] OTHER -> {[val |-> [entries |-> mid], log |-> TrimLog(s.entries, mid)]}

\* A journal record replayed on target value d.  An add whose id is not
\* above the target's last id is refused there and skipped.
ReplayOn(r, d) ==
    CASE r.j = "del" -> NONE
      [] r.j = "add" -> IF r.entry[1][1] <= LastMs(d) THEN d
                        ELSE [entries |-> Entries(d) \o <<r.entry>>]
      [] d = NONE    -> NONE
      [] OTHER       -> [entries |-> SelectSeq(d.entries, LAMBDA x : x[1][1] >= r.from)]

\* What an earlier run left under a key: the same explicit ids, earlier
\* automatic ids, and the empty stream test 5 trims to.
Leftover(k) ==
    CASE k = "basic"       -> [entries |-> <<<<<<1, 0>>, "d">>, <<<<2, 0>>, "d">>>>]
      [] k = "trim_minid"  -> [entries |-> <<<<<<2, 0>>, "d">>, <<<<3, 0>>, "d">>>>]
      [] k = "trim_maxlen" -> [entries |-> <<>>]
      [] OTHER             -> [entries |-> <<<<<<NowMs - 1, 0>>, "d">>>>]

-----------------------------------------------------------------------------

VARIABLES
    src, dst,       \* the two stores, restricted to the test keys
    journal,        \* journal[k]: source changes of key k not yet replayed
    pc,             \* the suite's program counter
    ci,             \* index into cleanup's test_keys
    t, j,           \* the current test and its next command
    seen,           \* what compare_streams has read so far
    passed,         \* the number of tests that returned True
    last,           \* history: the verdict of the last test to finish
    interrupted,    \* history: Ctrl-C was pressed
    exitCode,       \* the process exit status, NONE while running
    hung,           \* a store has stopped answering and its calls block
    unverified,     \* history: a test passed without its comparison, or a
                    \* Ctrl-C was pressed
    faithful        \* history: the engine has replayed every change before
                    \* each comparison, nothing failed and no Ctrl-C came

vars == <<src, dst, journal, pc, ci, t, j, seen, passed, last, interrupted, exitCode, hung, unverified, faithful>>

NoSeen == [si |-> NONE, ti |-> NONE, sr |-> NONE]

IsStream(v) ==
    /\ v.entries \in Seq(((0 .. INF) \X {0}) \X {"d", "g"})
    /\ \A n \in 1 .. Len(v.entries) - 1 : SC!IdLess(v.entries[n][1], v.entries[n + 1][1])

Verdicts == {"True", "False"}

TypeOK ==
    /\ \A k \in SKeys : src[k] = NONE \/ IsStream(src[k])
    /\ \A k \in SKeys : dst[k] = NONE \/ IsStream(dst[k])
    /\ pc \in {"cleanup", "test", "si", "ti", "sr", "tr", "rc", "summary", "done"}
    /\ t \in 1 .. Len(Tests) + 1
    /\ passed \in 0 .. t - 1
    /\ last = NONE \/ (last.v \in Verdicts /\ last.raised \in BOOLEAN)
    /\ interrupted \in BOOLEAN
    /\ exitCode \in {NONE, 0, 1, 2}
    /\ hung \in BOOLEAN
    /\ unverified \in BOOLEAN
    /\ faithful \in BOOLEAN

-----------------------------------------------------------------------------
(* The suite.                                                              *)

Init ==
    /\ src \in [SKeys -> {NONE}] \cup {[k \in SKeys |-> Leftover(k)]}
    /\ dst \in [SKeys -> {NONE}] \cup {[k \in SKeys |-> Leftover(k)]}
    /\ journal = [k \in SKeys |-> <<>>]
    /\ pc = "cleanup"
    /\ ci = 1
    /\ t = 1
    /\ j = 1
    /\ seen = NoSeen
    /\ passed = 0
    /\ last = NONE
    /\ interrupted = FALSE
    /\ exitCode = NONE
    /\ hung = FALSE
    /\ unverified = FALSE
    /\ faithful = TRUE

Key == Tests[t].key

\* Source key k goes to value v, the changes journaled for the engine.
SourceTo(k, v, log) ==
    /\ src' = [src EXCEPT ![k] = v]
    /\ journal' = [journal EXCEPT ![k] = @ \o log]

\* One key of cleanup: DEL on the source, then on the target, in one try
\* whose bare except swallows any exception, a KeyboardInterrupt included.
CleanupKey ==
    LET k == CleanupKeys[ci]
        srcDel == SourceTo(k, NONE, IF src[k] = NONE THEN <<>> ELSE <<[j |-> "del"]>>)
    IN /\ pc = "cleanup" /\ ci <= Len(CleanupKeys)
       /\ \/ srcDel /\ dst' = [dst EXCEPT ![k] = NONE] /\ UNCHANGED interrupted
          \/ UNCHANGED <<src, journal, dst>> /\ interrupted' \in {interrupted, TRUE}
          \/ srcDel /\ UNCHANGED dst /\ interrupted' \in {interrupted, TRUE}
       /\ ci' = ci + 1
       /\ UNCHANGED <<pc, t, j, seen, passed, last, exitCode>>

CleanupDone ==
    /\ pc = "cleanup" /\ ci = Len(CleanupKeys) + 1
    /\ pc' = "test"
    /\ UNCHANGED <<src, dst, journal, ci, t, j, seen, passed, last, interrupted, exitCode>>

\* The current test ends with verdict v and results.append((name, v)):
\* passed counts the True ones.  The history `last` keeps v, whether the
\* deciding call raised, and the verdict one atomic CompareStreams gives on
\* the two stores' values of the key at that call.
Decide(v, raised) ==
    /\ passed' = IF v = "True" THEN passed + 1 ELSE passed
    /\ last' = [v |-> v, raised |-> raised, atomic |-> SC!CompareStreams(src[Key], dst[Key], {})]
    /\ t' = t + 1
    /\ j' = 1
    /\ seen' = NoSeen
    /\ pc' = IF t = Len(Tests) THEN "summary" ELSE "test"

\* One command of the current test succeeds on the source.
RunOp ==
    LET op == Tests[t].ops[j]
    IN /\ pc = "test" /\ j <= Len(Tests[t].ops)
       /\ ~Refused(op, src[Key])
       /\ \E o \in Outcomes(op, src[Key]) : SourceTo(Key, o.val, o.log)
       /\ j' = j + 1
       /\ UNCHANGED <<dst, pc, ci, t, seen, passed, last, interrupted, exitCode>>

\* An explicit-id XADD not above the stream's last id gets an error reply,
\* which run_all_tests' except clause records as a failure.
OpRefused ==
    /\ pc = "test" /\ j <= Len(Tests[t].ops)
    /\ Refused(Tests[t].ops[j], src[Key])
    /\ Decide("False", TRUE)
    /\ UNCHANGED <<src, dst, journal, ci, interrupted, exitCode>>

\* A command raises (a connection error): run_all_tests' except clause
\* records a failure, but the error reply of an unsupported XTRIM MINID is
\* caught by test 4 itself, which returns True without comparing.
OpRaises ==
    LET op == Tests[t].ops[j]
    IN /\ pc = "test" /\ j <= Len(Tests[t].ops)
       /\ \/ Decide("False", TRUE)
          \/ op.c = "minid" /\ Decide("True", TRUE)
       /\ UNCHANGED <<src, dst, journal, ci, interrupted, exitCode>>

\* Mutant: the loop over the commands ends one command early.
OpsDoneEarly ==
    /\ pc = "test" /\ j = Len(Tests[t].ops)
    /\ pc' = "si"
    /\ UNCHANGED <<src, dst, journal, ci, t, j, seen, passed, last, interrupted, exitCode>>

\* The commands are done; time.sleep(2), then compare_streams.
OpsDone ==
    /\ pc = "test" /\ j = Len(Tests[t].ops) + 1
    /\ pc' = "si"
    /\ UNCHANGED <<src, dst, journal, ci, t, j, seen, passed, last, interrupted, exitCode>>

-----------------------------------------------------------------------------
(* compare_streams, one store call per step.                               *)

\* source.xinfo_stream: "no such key" goes to the except clause.
CmpSrcInfo ==
    /\ pc = "si"
    /\ IF src[Key] = NONE THEN pc' = "rc" /\ UNCHANGED seen
       ELSE pc' = "ti" /\ seen' = [seen EXCEPT !.si = src[Key]]
    /\ UNCHANGED <<src, dst, journal, ci, t, j, passed, last, interrupted, exitCode>>

\* target.xinfo_stream, then the length check.
CmpTgtInfo ==
    /\ pc = "ti"
    /\ CASE dst[Key] = NONE ->
              pc' = "rc" /\ UNCHANGED <<t, j, seen, passed, last>>
         [] Len(dst[Key].entries) # Len(seen.si.entries) ->
              Decide("False", FALSE)
         [] OTHER ->
              pc' = "sr" /\ seen' = [seen EXCEPT !.ti = dst[Key]] /\ UNCHANGED <<t, j, passed, last>>
    /\ UNCHANGED <<src, dst, journal, ci, interrupted, exitCode>>

\* source.xrange (an empty list for a missing key).
CmpSrcRange ==
    /\ pc = "sr"
    /\ pc' = "tr"
    /\ seen' = [seen EXCEPT !.sr = src[Key]]
    /\ UNCHANGED <<src, dst, journal, ci, t, j, passed, last, interrupted, exitCode>>

\* Mutant: the entry loop is left out; only the count and the first and
\* last entries are compared.
CmpTgtRangeEndsOnly ==
    LET tr == Entries(dst[Key])
    IN /\ pc = "tr"
       /\ Decide(IF \/ Len(Entries(seen.sr)) # Len(tr)
                    \/ SC!Info(seen.si).first # SC!Info(seen.ti).first
                    \/ SC!Info(seen.si).last # SC!Info(seen.ti).last
                 THEN "False" ELSE "True", FALSE)
       /\ UNCHANGED <<src, dst, journal, ci, interrupted, exitCode>>

\* target.xrange, then the count, the entry-by-entry id and data check,
\* and the first and last entries of the two XINFO replies.
CmpTgtRange ==
    LET tr == Entries(dst[Key])
    IN /\ pc = "tr"
       /\ Decide(IF \/ Entries(seen.sr) # tr
                    \/ SC!Info(seen.si).first # SC!Info(seen.ti).first
                    \/ SC!Info(seen.si).last # SC!Info(seen.ti).last
                 THEN "False" ELSE "True", FALSE)
       /\ UNCHANGED <<src, dst, journal, ci, interrupted, exitCode>>

\* A call of the try block raises another error: "Error", False.
CmpRaises ==
    /\ pc \in {"si", "ti", "sr", "tr"}
    /\ Decide("False", TRUE)
    /\ UNCHANGED <<src, dst, journal, ci, interrupted, exitCode>>

\* Mutant: the inner except has no return statement and yields None.
RecheckFallsOff(v, raised) == Decide(IF v = "True" THEN "None" ELSE v, raised)

\* The second target.xinfo_stream: it returning means the target has the
\* key (False); it raising, for any reason, means both lack it (True).
Recheck(v, raised) == Decide(v, raised)

CmpRecheck ==
    /\ pc = "rc"
    /\ \/ dst[Key] # NONE /\ Recheck("False", FALSE) /\ UNCHANGED interrupted
       \/ dst[Key] = NONE /\ Recheck("True", FALSE) /\ UNCHANGED interrupted
       \/ Recheck("True", TRUE) /\ interrupted' \in {interrupted, TRUE}
    /\ UNCHANGED <<src, dst, journal, ci, exitCode>>

-----------------------------------------------------------------------------

\* The summary: run_all_tests returns passed == total, main exits 0 or 1.
Summary ==
    /\ pc = "summary"
    /\ pc' = "done"
    /\ exitCode' = IF passed = Len(Tests) THEN 0 ELSE 1
    /\ UNCHANGED <<src, dst, journal, ci, t, j, seen, passed, last, interrupted>>

\* Ctrl-C outside cleanup and the recheck: main's handler exits 2.
Interrupt ==
    /\ pc \in {"test", "si", "ti", "sr", "tr", "summary"}
    /\ pc' = "done"
    /\ interrupted' = TRUE
    /\ exitCode' = 2
    /\ UNCHANGED <<src, dst, journal, ci, t, j, seen, passed, last>>

\* A key some test still to finish reads.  Replication of any other key is
\* never observed again, so the engine is left to act on live keys only.
Live(k) == pc = "cleanup" \/ \E u \in t .. Len(Tests) : Tests[u].key = k

\* The engine replays, loses or garbles the head of key k's journal.
Replay(k) ==
    /\ Live(k) /\ journal[k] # <<>>
    /\ dst' = [dst EXCEPT ![k] = ReplayOn(Head(journal[k]), @)]
    /\ journal' = [journal EXCEPT ![k] = Tail(@)]
    /\ UNCHANGED <<src, pc, ci, t, j, seen, passed, last, interrupted, exitCode>>

Lose(k) ==
    /\ Live(k) /\ journal[k] # <<>>
    /\ journal' = [journal EXCEPT ![k] = Tail(@)]
    /\ UNCHANGED <<src, dst, pc, ci, t, j, seen, passed, last, interrupted, exitCode>>

Garble(k) ==
    /\ Live(k) /\ journal[k] # <<>> /\ Head(journal[k]).j = "add"
    /\ dst' = [dst EXCEPT ![k] = ReplayOn([j |-> "add", entry |-> <<Head(journal[k]).entry[1], "g">>], @)]
    /\ journal' = [journal EXCEPT ![k] = Tail(@)]
    /\ UNCHANGED <<src, pc, ci, t, j, seen, passed, last, interrupted, exitCode>>

\* A store stops answering for good (a half-open connection): with no
\* socket_timeout on either client (lines 25-36), a call to it never
\* returns or raises.
Hang ==
    /\ ~hung /\ pc # "done"
    /\ hung' = TRUE
    /\ faithful' = FALSE
    /\ UNCHANGED <<src, dst, journal, pc, ci, t, j, seen, passed, last, interrupted, exitCode, unverified>>

\* Ctrl-C on a call blocked in cleanup or in the recheck: the bare except
\* swallows the KeyboardInterrupt and the code goes on to its next call.
HungCallInterrupted ==
    /\ hung
    /\ interrupted' = TRUE
    /\ \/ pc = "cleanup" /\ ci <= Len(CleanupKeys) /\ ci' = ci + 1
          /\ UNCHANGED <<src, dst, journal, pc, t, j, seen, passed, last, exitCode>>
       \/ pc = "rc" /\ Recheck("True", TRUE) /\ UNCHANGED <<src, dst, journal, ci, exitCode>>

\* The steps of the suite that call a store, and those that do not.
StoreCall ==
    \/ CleanupKey \/ RunOp \/ OpRefused \/ OpRaises
    \/ CmpSrcInfo \/ CmpTgtInfo \/ CmpSrcRange \/ CmpTgtRange \/ CmpRaises \/ CmpRecheck

LocalStep == CleanupDone \/ OpsDone \/ Summary

\* A test ends True although a call of it raised: test 4's except clause,
\* or the recheck's bare except.
UnearnedPass == t' = t + 1 /\ last'.v = "True" /\ last'.raised

\* The history: set once a test passes unearned or Ctrl-C is pressed.
Track == unverified' = (unverified \/ interrupted' \/ UnearnedPass)

\* A step that ends a faithful run: a test decided on a call that raised
\* other than a refused XADD, a Ctrl-C, or compare_streams starting after
\* the two-second sleep while the key's journal is not yet replayed.
Unfaithful ==
    \/ t' = t + 1 /\ last'.raised /\ ~(pc = "test" /\ Refused(Tests[t].ops[j], src[Key]))
    \/ interrupted'
    \/ pc = "test" /\ pc' = "si" /\ journal[Key] # <<>>

\* The history `faithful`.  A failing DEL of cleanup does not end it: the
\* code swallows it as harmless.
Audit == faithful' = (faithful /\ ~Unfaithful)

SuiteStep == ((~hung /\ StoreCall) \/ LocalStep) /\ UNCHANGED hung /\ Track /\ Audit

\* Ctrl-C and the engine; a lost or garbled entry ends a faithful run.
Environment ==
    /\ \/ (Interrupt \/ HungCallInterrupted) /\ Audit
       \/ \E k \in SKeys : Replay(k) /\ Audit
       \/ \E k \in SKeys : (Lose(k) \/ Garble(k)) /\ faithful' = FALSE
    /\ UNCHANGED hung
    /\ Track

Next == SuiteStep \/ Hang \/ Environment

Spec == Init /\ [][Next]_vars

\* The suite is one Python process: its steps are taken while a call can
\* return.  The engine, a hang and Ctrl-C get no fairness.
FairSpec == Spec /\ WF_vars(SuiteStep)

-----------------------------------------------------------------------------
(* Properties.                                                             *)

\* A comparison that returns True without an exception returns what one
\* atomic CompareStreams would on the stores at its deciding call: reading
\* the two stores in four separate calls while the engine replays never
\* passes a target that differs from the source at the time it is read.
CompareTrueOnSnapshot ==
    (last # NONE /\ last.v = "True" /\ ~last.raised) => last.atomic = "True"

\* Exit status 0 only for a run whose six tests each passed on a comparison
\* that ran to its end, with no Ctrl-C pressed: spec 5 makes an interruption
\* a distinct outcome, never a Pass, and spec 8 asks for the MINID round
\* trip that test 4 skips when the trim raises.
PassIsVerified ==
    exitCode = 0 => ~unverified

\* Every run reaches an exit status unless a store stops answering: no
\* other state of run_all_tests, cleanup or compare_streams blocks it.
EndsUnlessHung == <>(exitCode # NONE \/ hung)

\* Every run reaches an exit status: a store call that fails ends as an
\* error (spec 4.3: a timeout is an Error outcome; spec 7: the pass always
\* runs to completion).
Termination == <>(exitCode # NONE)


\* A run that replicates faithfully exits 0: when the engine replays every
\* source change before each comparison and loses or garbles nothing, no
\* call of a test or of compare_streams fails and no Ctrl-C is pressed,
\* the suite reports success.  Cleanup's swallowed DEL failures and the
\* keys two tests share must not fail a faithful replication.
FaithfulRunPasses ==
    (exitCode # NONE /\ faithful) => exitCode = 0

====
