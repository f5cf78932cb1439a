---------------------------- MODULE RdbPhaseSync ----------------------------
(***************************************************************************)
(* The RDB-phase sync test of scripts/test_rdb_phase_sync.py, run against  *)
(* a replication engine (df2redis) that copies the source store to the     *)
(* target store asynchronously.                                            *)
(*                                                                         *)
(* The harness is one sequential process whose program counter is pc: it  *)
(* loads its config and connects, deletes the test keys on both stores,   *)
(* waits for the operator, writes N keys of six kinds to the source,       *)
(* sleeps WaitTicks times ten seconds, then verifies every key in up to   *)
(* five store calls (target EXISTS, TYPE on each side, the kind's read on *)
(* each side), each its own step, prints a summary, offers a              *)
(* cleanup and exits.                                                      *)
(*                                                                         *)
(* The replication engine is the environment: while it runs, every change *)
(* of a source key is appended to that key's journal, and the engine       *)
(* replays the journal into the target in order.  It may lose a journal    *)
(* entry or apply a write wrongly (the faults the test is written to       *)
(* catch) and nothing forces it to make progress.                          *)
(*                                                                         *)
(* A stored value is NONE (no such key) or [t |-> type, c |-> content].    *)
(* Content abstracts the payload to what tells two payloads apart: for a   *)
(* string the run that wrote it (its value embeds int(time.time())), for   *)
(* a list the number of LPUSH batches it holds, and 0 for hash, set and    *)
(* zset, whose payloads depend on the key index only.                      *)
(*                                                                         *)
(* Key expiry is not modelled: the model's only key with a TTL is key 0   *)
(* (SET ... EX 600), written first and checked first, about 122 s later   *)
(* plus at most five 10 s calls, long before the TTL runs out.  The       *)
(* source therefore does not change during verification.                  *)
(***************************************************************************)
EXTENDS Integers, Sequences, FiniteSets, SequencesExt

CONSTANTS
    N,          \* TEST_KEYS_COUNT
    WaitTicks,  \* wait_seconds // 10, the ten-second sleeps of the settle wait
    NONE        \* model value: absent key, no outcome yet, no exit status

ASSUME N \in Nat
ASSUME WaitTicks \in Nat \ {0}

Keys == 0 .. N - 1

\* Contents of a payload.
EARLIER_RUN == 1    \* a string written by an earlier run of the script
THIS_RUN    == 2    \* a string written by this run
GARBLED     == -1   \* a payload the replication engine wrote wrongly

\* The store type label of key i: data_type = i % 6 (kinds 0 and 5 are strings).
TypeOf(i) == <<"string", "hash", "list", "set", "zset", "string">>[(i % 6) + 1]

TypeLabel(v) == IF v = NONE THEN "none" ELSE v.t

\* The value key i holds after the test's write command is applied to v.
\* SET overwrites any type; HSET, LPUSH, SADD and ZADD fail with WRONGTYPE
\* on a key of another type; LPUSH adds a batch to an existing list.
Applies(i, v) == TypeOf(i) = "string" \/ v = NONE \/ v.t = TypeOf(i)

Written(i, v) ==
    CASE TypeOf(i) = "string"             -> [t |-> "string", c |-> THIS_RUN]
      [] ~Applies(i, v)                   -> v
      [] TypeOf(i) = "list"               ->
            [t |-> "list", c |-> IF v = NONE THEN 1 ELSE v.c + 1]
      [] OTHER                            -> [t |-> TypeOf(i), c |-> 0]

\* What an earlier run of the script left under key i.
Leftover(i) ==
    [t |-> TypeOf(i), c |-> CASE TypeOf(i) = "string" -> EARLIER_RUN
                              [] TypeOf(i) = "list"   -> 1
                              [] OTHER                -> 0]

\* Wrong values the engine may write for key i: garbled bytes, or another type.
Garbled(i) ==
    {[t |-> TypeOf(i), c |-> GARBLED],
     [t |-> IF TypeOf(i) = "string" THEN "hash" ELSE "string", c |-> GARBLED]}

\* The reply of the read command for kind `kind` (GET, HGETALL, LRANGE,
\* SMEMBERS, ZRANGE WITHSCORES) on value v: empty for a missing key, a
\* WRONGTYPE error when the key holds another type, else the content.
ReadAs(kind, v) ==
    CASE v = NONE      -> [r |-> "empty", c |-> 0]
      [] v.t # kind    -> [r |-> "WRONGTYPE", c |-> 0]
      [] OTHER         -> [r |-> "reply", c |-> v.c]

Failures == {"Missing", "TypeMismatch", "ValueMismatch", "Error"}
Outcomes == {"Match"} \cup Failures

VARIABLES
    src, dst,     \* the source and target stores, restricted to the test keys
    journal,      \* journal[i]: source commands on key i not yet replayed
    repl,         \* whether the replication engine is running
    delivered,    \* history: the target holds this run's write of key i
    pc,           \* the harness's program counter
    widx,         \* loop index i of write_test_data
    ticks,        \* loop index of the settle wait
    vidx,         \* index into test_keys of verify_test_data
    vstep,        \* the next store call for the current key
    srcReply,     \* the source's TYPE and read replies, held for the target's
    outcome,      \* the outcome each verified key was given
    success,      \* success_count
    fail,         \* fail_count
    details,      \* fail_details, as the sequence of the keys it names
    exitCode,     \* the process exit status, NONE while running
    why           \* history: why the process exited

storeVars   == <<src, dst, journal, repl, delivered>>
harnessVars == <<pc, widx, ticks, vidx, vstep, srcReply, outcome, success, fail, details, exitCode, why>>
vars        == <<storeVars, harnessVars>>

\* The five store calls of one key's check, in the order the code makes them.
VSteps == {"exists", "src_type", "dst_type", "src_value", "dst_value"}
TypeLabels == {"none", "string", "hash", "list", "set", "zset"}
Replies == [r : {"empty", "WRONGTYPE", "reply"}, c : -1 .. 3]
NoReply == [t |-> "none", v |-> [r |-> "empty", c |-> 0]]

Values == {NONE} \cup [t : {"string", "hash", "list", "set", "zset"}, c : -1 .. 3]
Commands == {"write", "del"}

TypeOK ==
    /\ src \in [Keys -> Values]
    /\ dst \in [Keys -> Values]
    /\ journal \in [Keys -> Seq(Commands)]
    /\ repl \in BOOLEAN
    /\ delivered \in [Keys -> BOOLEAN]
    /\ pc \in {"setup", "clean_src", "clean_dst", "gate", "write", "settle",
               "verify", "prompt", "done"}
    /\ widx \in 0 .. N
    /\ ticks \in 0 .. WaitTicks
    /\ vidx \in 0 .. N
    /\ vstep \in VSteps
    /\ srcReply \in [t : TypeLabels, v : Replies]
    /\ outcome \in [Keys -> Outcomes \cup {NONE}]
    /\ success \in 0 .. N
    /\ fail \in 0 .. N
    /\ details \in Seq(Keys)
    /\ exitCode \in {NONE, 0, 1}
    /\ why \in {NONE, "setup", "generation", "verification", "interrupt"}

-----------------------------------------------------------------------------
(* Source changes are journaled while the engine runs.                     *)

\* Source store goes from src to s: the changed keys get command cmd journaled.
SourceTo(s, cmd) ==
    /\ src' = s
    /\ journal' = IF repl
                  THEN [i \in Keys |-> IF s[i] # src[i] THEN Append(journal[i], cmd)
                                                        ELSE journal[i]]
                  ELSE journal

\* The key-to-value map after clean_test_keys: KEYS prefix* then DEL of them all.
Cleaned == [i \in Keys |-> NONE]

-----------------------------------------------------------------------------
(* The harness.                                                            *)

Goto(from, to) == pc = from /\ pc' = to

Exit(code, cause) ==
    /\ pc' = "done"
    /\ exitCode' = code
    /\ why' = cause

Init ==
    /\ src \in {Cleaned, [i \in Keys |-> Leftover(i)]}
    /\ dst \in {Cleaned, [i \in Keys |-> Leftover(i)]}
    /\ journal = [i \in Keys |-> <<>>]
    /\ repl \in BOOLEAN
    /\ delivered = [i \in Keys |-> FALSE]
    /\ pc = "setup"
    /\ widx = 0
    /\ ticks = 0
    /\ vidx = 0
    /\ vstep = "exists"
    /\ srcReply = NoReply
    /\ outcome = [i \in Keys |-> NONE]
    /\ success = 0
    /\ fail = 0
    /\ details = <<>>
    /\ exitCode = NONE
    /\ why = NONE

\* Config found and parsed, both connections answer PING.
Setup ==
    /\ Goto("setup", "clean_src")
    /\ UNCHANGED <<storeVars, widx, ticks, vidx, vstep, srcReply, outcome, success, fail, details, exitCode, why>>

\* load_config or connect_redis fails and calls sys.exit(1).
SetupFail ==
    /\ pc = "setup"
    /\ Exit(1, "setup")
    /\ UNCHANGED <<storeVars, widx, ticks, vidx, vstep, srcReply, outcome, success, fail, details>>

\* clean_test_keys on the source: all test keys deleted, or an exception
\* that is printed and swallowed, leaving the store as it was.
CleanSource ==
    /\ Goto("clean_src", "clean_dst")
    /\ \/ SourceTo(Cleaned, "del")
       \/ UNCHANGED <<src, journal>>
    /\ UNCHANGED <<dst, repl, delivered, widx, ticks, vidx, vstep, srcReply, outcome, success, fail, details, exitCode, why>>

\* clean_test_keys on the target, with the same swallowed failure.
CleanTarget ==
    /\ Goto("clean_dst", "gate")
    /\ \/ /\ dst' = Cleaned
          /\ delivered' = [i \in Keys |-> FALSE]
       \/ UNCHANGED <<dst, delivered>>
    /\ UNCHANGED <<src, journal, repl, widx, ticks, vidx, vstep, srcReply, outcome, success, fail, details, exitCode, why>>

\* wait_for_user_start: the operator presses Enter.
Gate ==
    /\ Goto("gate", "write")
    /\ UNCHANGED <<storeVars, widx, ticks, vidx, vstep, srcReply, outcome, success, fail, details, exitCode, why>>

\* Mutant: the loop runs range(TEST_KEYS_COUNT + 1).
WriteKeyPastEnd ==
    /\ pc = "write"
    /\ widx <= N
    /\ SourceTo([i \in Keys |-> IF i = widx THEN Written(i, src[i]) ELSE src[i]], "write")
    /\ widx' = widx + 1
    /\ UNCHANGED <<dst, repl, delivered, pc, ticks, vidx, vstep, srcReply, outcome, success, fail, details, exitCode, why>>

\* One iteration of the write loop: the kind's write command on key widx.
WriteKey ==
    /\ pc = "write"
    /\ widx < N
    /\ SourceTo([src EXCEPT ![widx] = Written(widx, @)], "write")
    /\ widx' = widx + 1
    /\ UNCHANGED <<dst, repl, delivered, pc, ticks, vidx, vstep, srcReply, outcome, success, fail, details, exitCode, why>>

\* Mutant: main ignores the success flag and goes on to the settle wait.
WriteFailIgnored ==
    /\ pc = "write"
    /\ widx < N
    /\ pc' = "settle"
    /\ UNCHANGED <<storeVars, widx, ticks, vidx, vstep, srcReply, outcome, success, fail, details, exitCode, why>>

\* A write raises: write_test_data returns (False, []) and main exits 1.
WriteFail ==
    /\ pc = "write"
    /\ widx < N
    /\ Exit(1, "generation")
    /\ UNCHANGED <<storeVars, widx, ticks, vidx, vstep, srcReply, outcome, success, fail, details>>

\* The loop ends and write_test_data returns (True, test_keys).
WriteDone ==
    /\ pc = "write"
    /\ widx = N
    /\ pc' = "settle"
    /\ UNCHANGED <<storeVars, widx, ticks, vidx, vstep, srcReply, outcome, success, fail, details, exitCode, why>>

\* One time.sleep(10) of the settle wait.
SettleTick ==
    /\ pc = "settle"
    /\ ticks < WaitTicks
    /\ ticks' = ticks + 1
    /\ UNCHANGED <<storeVars, pc, widx, vidx, vstep, srcReply, outcome, success, fail, details, exitCode, why>>

\* Mutant: the settle loop waits for one tick more than it sleeps.
SettleDoneLate ==
    /\ pc = "settle"
    /\ ticks = WaitTicks + 1
    /\ pc' = "verify"
    /\ UNCHANGED <<storeVars, widx, ticks, vidx, vstep, srcReply, outcome, success, fail, details, exitCode, why>>

\* The settle loop ends and verify_test_data starts.
SettleDone ==
    /\ pc = "settle"
    /\ ticks = WaitTicks
    /\ pc' = "verify"
    /\ UNCHANGED <<storeVars, widx, ticks, vidx, vstep, srcReply, outcome, success, fail, details, exitCode, why>>

\* The bookkeeping that ends the check of the current key with outcome o:
\* a counter is incremented, a failure is appended to fail_details, and the
\* for loop moves to the next key.
Record(o) ==
    /\ outcome' = [outcome EXCEPT ![vidx] = o]
    /\ success' = IF o = "Match" THEN success + 1 ELSE success
    /\ fail' = IF o = "Match" THEN fail ELSE fail + 1
    /\ details' = IF o = "Match" THEN details ELSE Append(details, vidx)
    /\ vidx' = vidx + 1
    /\ vstep' = "exists"
    /\ srcReply' = NoReply

\* The check of the current key goes on with store call `next`.
Continue(next) ==
    /\ vstep' = next
    /\ UNCHANGED <<vidx, outcome, success, fail, details>>

\* One store call of verify_test_data, enabled at step `step`.
VerifyCall(step) ==
    /\ pc = "verify"
    /\ vidx < N
    /\ vstep = step

\* target_r.exists(key): a missing key fails the check.
VerifyExists ==
    /\ VerifyCall("exists")
    /\ IF dst[vidx] = NONE THEN Record("Missing") ELSE Continue("src_type")
    /\ UNCHANGED srcReply
    /\ UNCHANGED <<storeVars, pc, widx, ticks, exitCode, why>>

\* src_type = source_r.type(key).
VerifySourceType ==
    /\ VerifyCall("src_type")
    /\ srcReply' = [srcReply EXCEPT !.t = TypeLabel(src[vidx])]
    /\ Continue("dst_type")
    /\ UNCHANGED <<storeVars, pc, widx, ticks, exitCode, why>>

\* Mutant: no `continue` after a type mismatch.
VerifyTypeNoContinue ==
    /\ VerifyCall("dst_type")
    /\ IF srcReply.t # TypeLabel(dst[vidx])
       THEN /\ fail' = fail + 1
            /\ details' = Append(details, vidx)
            /\ UNCHANGED <<vidx, success, outcome>>
       ELSE UNCHANGED <<vidx, outcome, success, fail, details>>
    /\ vstep' = "src_value"
    /\ UNCHANGED <<storeVars, srcReply, pc, widx, ticks, exitCode, why>>

\* dst_type = target_r.type(key), compared with the source's reply.
VerifyType ==
    /\ VerifyCall("dst_type")
    /\ IF srcReply.t # TypeLabel(dst[vidx])
       THEN Record("TypeMismatch")
       ELSE /\ Continue("src_value")
            /\ UNCHANGED srcReply
    /\ UNCHANGED <<storeVars, pc, widx, ticks, exitCode, why>>

\* The kind-specific read (GET, HGETALL, LRANGE, SMEMBERS, ZRANGE) on the
\* source; a WRONGTYPE reply raises and is caught as a verification error.
VerifySourceValue ==
    LET s == ReadAs(TypeOf(vidx), src[vidx])
    IN  /\ VerifyCall("src_value")
        /\ IF s.r = "WRONGTYPE"
           THEN Record("Error")
           ELSE /\ srcReply' = [srcReply EXCEPT !.v = s]
                /\ Continue("dst_value")
        /\ UNCHANGED <<storeVars, pc, widx, ticks, exitCode, why>>

\* Mutant: the elif chain has no hash branch, so a hash is never compared.
VerifyValueNoHashCheck ==
    LET d == ReadAs(TypeOf(vidx), dst[vidx])
    IN  /\ VerifyCall("dst_value")
        /\ Record(CASE TypeOf(vidx) = "hash" -> "Match"
                    [] d.r = "WRONGTYPE"     -> "Error"
                    [] srcReply.v # d        -> "ValueMismatch"
                    [] OTHER                 -> "Match")
        /\ UNCHANGED <<storeVars, pc, widx, ticks, exitCode, why>>

\* The same read on the target: a WRONGTYPE reply raises, a reply equal to
\* the source's verifies the key, any other is a value mismatch.
VerifyValue ==
    LET d == ReadAs(TypeOf(vidx), dst[vidx])
    IN  /\ VerifyCall("dst_value")
        /\ Record(CASE d.r = "WRONGTYPE"                     -> "Error"
                    [] d.r # "WRONGTYPE" /\ srcReply.v # d   -> "ValueMismatch"
                    [] d.r # "WRONGTYPE" /\ srcReply.v = d   -> "Match")
        /\ UNCHANGED <<storeVars, pc, widx, ticks, exitCode, why>>

\* A store call of the current key's check raises (socket timeout, reset):
\* the except clause counts the key as failed.
VerifyError ==
    /\ pc = "verify"
    /\ vidx < N
    /\ Record("Error")
    /\ UNCHANGED <<storeVars, pc, widx, ticks, exitCode, why>>

\* Mutant: the verification loop stops one key early.
VerifyDoneEarly ==
    /\ pc = "verify"
    /\ vidx >= N - 1
    /\ pc' = "prompt"
    /\ UNCHANGED <<storeVars, widx, ticks, vidx, vstep, srcReply, outcome, success, fail, details, exitCode, why>>

\* verify_test_data returns and main prints the summary.
VerifyDone ==
    /\ pc = "verify"
    /\ vidx = N
    /\ pc' = "prompt"
    /\ UNCHANGED <<storeVars, widx, ticks, vidx, vstep, srcReply, outcome, success, fail, details, exitCode, why>>

\* The cleanup prompt: on "y" both stores are cleaned (each failure
\* swallowed), then sys.exit(0 if fail_count == 0 else 1).
CleanupAndExit ==
    /\ pc = "prompt"
    /\ \/ UNCHANGED <<src, dst, journal, delivered>>
       \/ /\ \/ SourceTo(Cleaned, "del")
             \/ UNCHANGED <<src, journal>>
          /\ \/ /\ dst' = Cleaned
                /\ delivered' = [i \in Keys |-> FALSE]
             \/ UNCHANGED <<dst, delivered>>
    /\ Exit(IF fail = 0 THEN 0 ELSE 1, "verification")
    /\ UNCHANGED <<repl, widx, ticks, vidx, vstep, srcReply, outcome, success, fail, details>>

\* Ctrl-C anywhere: the KeyboardInterrupt handler exits 1.
Interrupt ==
    /\ pc # "done"
    /\ Exit(1, "interrupt")
    /\ UNCHANGED <<storeVars, widx, ticks, vidx, vstep, srcReply, outcome, success, fail, details>>

-----------------------------------------------------------------------------
(* The replication engine (environment).                                   *)

\* df2redis starts: the RDB snapshot copies every source key to the target,
\* then journaling starts.
StartReplication ==
    /\ ~repl
    /\ repl' = TRUE
    /\ dst' = [i \in Keys |-> IF src[i] # NONE THEN src[i] ELSE dst[i]]
    /\ delivered' = [i \in Keys |-> IF src[i] # NONE THEN i < widx ELSE delivered[i]]
    /\ UNCHANGED <<src, journal, harnessVars>>

\* The head of key i's journal is replayed on the target.
Replay(i) ==
    /\ journal[i] # <<>>
    /\ journal' = [journal EXCEPT ![i] = Tail(@)]
    /\ IF Head(journal[i]) = "del"
       THEN /\ dst' = [dst EXCEPT ![i] = NONE]
            /\ delivered' = [delivered EXCEPT ![i] = FALSE]
       ELSE /\ dst' = [dst EXCEPT ![i] = Written(i, @)]
            /\ delivered' = [delivered EXCEPT ![i] = Applies(i, dst[i]) \/ @]
    /\ UNCHANGED <<src, repl, harnessVars>>

\* The head of key i's journal is lost.
Lose(i) ==
    /\ journal[i] # <<>>
    /\ journal' = [journal EXCEPT ![i] = Tail(@)]
    /\ UNCHANGED <<src, dst, repl, delivered, harnessVars>>

\* A write at the head of key i's journal is applied wrongly.
Garble(i) ==
    /\ journal[i] # <<>>
    /\ Head(journal[i]) = "write"
    /\ journal' = [journal EXCEPT ![i] = Tail(@)]
    /\ \E v \in Garbled(i) : dst' = [dst EXCEPT ![i] = v]
    /\ delivered' = [delivered EXCEPT ![i] = FALSE]
    /\ UNCHANGED <<src, repl, harnessVars>>

-----------------------------------------------------------------------------

HarnessStep ==
    \/ Setup \/ SetupFail \/ CleanSource \/ CleanTarget \/ Gate
    \/ WriteKey \/ WriteFail \/ WriteDone \/ SettleTick \/ SettleDone
    \/ VerifyExists \/ VerifySourceType \/ VerifyType
    \/ VerifySourceValue \/ VerifyValue \/ VerifyError \/ VerifyDone
    \/ CleanupAndExit

EngineStep ==
    \/ StartReplication
    \/ \E i \in Keys : Replay(i) \/ Lose(i) \/ Garble(i)

Next == HarnessStep \/ Interrupt \/ EngineStep

\* Every store call returns or times out (socket_timeout=10), every sleep
\* ends, and the operator answers the two prompts: the harness is weakly
\* fair.  The engine under test gets no fairness.
Spec == Init /\ [][Next]_vars /\ WF_vars(HarnessStep)

-----------------------------------------------------------------------------
(* Properties.                                                             *)

\* The summary agrees with the outcomes: exactly the keys before vidx have
\* an outcome, success_count counts the matches, and fail_details names
\* every failed key once, in injection order, so fail_count is its length.
\* A check that records a failure and then falls through to a later check
\* (a missing `continue`) breaks it.
SummaryAccounting ==
    /\ \A i \in Keys : (outcome[i] # NONE) <=> i < vidx
    /\ success = Cardinality({i \in Keys : outcome[i] = "Match"})
    /\ details = SetToSortSeq({i \in Keys : outcome[i] \in Failures}, <)
    /\ fail = Len(details)

\* verify_test_data implements the atomic pass of VerifyPass: although it
\* reads each store in separate calls while the engine keeps replaying,
\* keys are decided once each, in injection order, and every decision is
\* one that a single snapshot of both stores, taken at the step that
\* decides, allows (a Match only when the target holds the source value).
VP == INSTANCE VerifyPass WITH N <- N, NONE <- NONE,
                               src <- src, dst <- dst, outcome <- outcome

VerifyPassRefined == VP!Spec

\* No key is checked before all N keys were written to the source and the
\* whole settle wait has elapsed: a failed generation never reaches
\* verification.
VerificationFollowsSeeding ==
    (pc \in {"verify", "prompt"} \/ vidx > 0) => widx = N /\ ticks = WaitTicks

\* Exit status 0 only after every key was checked and verified.
PassVerdictSound ==
    exitCode = 0 => \A i \in Keys : outcome[i] = "Match"

\* The script always exits: every store call times out, every sleep ends.
Termination == <>(pc = "done")

\* A key is counted as synced only if the target holds this run's write of
\* it, that is, the replication under test delivered the write.
MatchOnlyDelivered ==
    [][\A i \in Keys :
         (outcome[i] # "Match" /\ outcome'[i] = "Match") => delivered[i]]_vars

\* The exit status tells a setup error, a generation error and an
\* interruption apart from the "verification failures found" status 1
\* of sys.exit(0 if fail_count == 0 else 1).
ExitStatusNamesCause ==
    (pc = "done" /\ why \in {"setup", "generation", "interrupt"})
        => exitCode \notin {0, 1}

=============================================================================
